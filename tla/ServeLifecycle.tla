--------------------------- MODULE ServeLifecycle ---------------------------
(***************************************************************************)
(* Starting and stopping model containers (app/services/serve.py).         *)
(*                                                                         *)
(* serve_model runs on the main executor, one at a time; stop_all on an    *)
(* executor of its own, next to a serve.  A stop flags the serves that are *)
(* live when it is accepted (jobs.py).  A step is one docker or ssh        *)
(* command, one access to the state file or one look at the cancel event.  *)
(* A serve uses this host alone or, with one rank per node, every worker.  *)
(***************************************************************************)
EXTENDS Naturals, FiniteSets, Sequences

CONSTANTS
  Serve,       \* serve jobs
  Stop,        \* stop jobs
  Host,        \* this node
  Worker,      \* the configured remote nodes
  Engine,      \* engines: each has container names and a port of its own
  Asks,        \* what the serves are asked for: some of [Serve -> Request]
  NoServe,     \* no state file
  Faults,      \* what may go wrong: "slow" docker run, "ssh", "rm", "disk", "crash"
  MaxTroubles  \* bound: how often it does

ASSUME ServeAssumption ==
  /\ Serve \cap Stop = {} /\ Host \notin Worker /\ NoServe \notin Serve
  /\ Faults \subseteq {"slow", "ssh", "rm", "disk", "crash"}
  /\ MaxTroubles \in Nat

Request == [engine : Engine, multi : BOOLEAN, stop_first : BOOLEAN]

ASSUME AsksAssumption == Asks \subseteq [Serve -> Request]

VARIABLES
  stage,   \* program counter of each job
  ask,     \* ask[j]: the request: engine, across the nodes or not, stop_first
  line,    \* queue of the main executor
  flagged, \* serves whose cancel event is set
  before,  \* before[k]: serves live and over when stop k was accepted (history)
  box,     \* containers: node, name, the serve that started it, state
  late,    \* containers docker may still start for a client that gave up
  file,    \* multinode_serve.json: the serve whose ranks it names
  todo,    \* todo[t]: containers thread t is about to remove
  visit,   \* visit[t]: workers thread t has yet to list or start
  end,     \* end[j]: outcome of j once its clean-up is over
  troubles, \* what went wrong so far
  marred   \* jobs it went wrong for (history)

vars == <<stage, ask, line, flagged, before, box, late, file, todo, visit, end,
          troubles, marred>>

Thread == Serve \cup Stop
Node == Worker \cup {Host}
Kind == {"solo", "rank"}
Name == Engine \X Kind
Outcome == {"completed", "cancelled", "failed"}
Over == Outcome \cup {"stopped"}
\* Inside stop_all.
Stopping == {"file", "ranks", "unlink", "remote", "host"}
Launching == {"record", "stale", "workers", "head"}
Waiting == {"waiting", "inspecting", "asking"}
Cleaning == {"undo", "undoHead", "forget"}
\* Before the serve that runs is stopped.
Preparing == {"called", "downloading", "admitting", "pulling", "pulled"}
Stage == {"idle", "queued", "clear", "run"} \cup Preparing \cup Stopping
           \cup Launching \cup Waiting \cup Cleaning \cup Over

Box == [node : Node, name : Name, owner : Serve, state : {"loading", "ready", "exited"}]

TypeOK ==
  /\ stage \in [Thread -> Stage]
  /\ ask \in [Serve -> Request]
  /\ line \in Seq(Serve) /\ flagged \subseteq Serve
  /\ before \in [Stop -> [live : SUBSET Serve, over : SUBSET Serve]]
  /\ box \subseteq Box /\ late \subseteq Box
  /\ file \in Serve \cup {NoServe}
  /\ todo \in [Thread -> SUBSET (Node \X Name)]
  /\ visit \in [Thread -> SUBSET Worker]
  /\ end \in [Serve -> Outcome]
  /\ troubles \in 0..MaxTroubles /\ marred \subseteq Thread

Up(b) == b.state # "exited"
At(node, name) == {b \in box : b.node = node /\ b.name = name}
NamesOn(node) == {<<node, b.name>> : b \in {b \in box : b.node = node}}
NameOf(j) == <<ask[j].engine, IF ask[j].multi THEN "rank" ELSE "solo">>
HeadOf(j) == {b \in At(Host, NameOf(j)) : Up(b)}
Live(j) == stage[j] \notin {"idle"} \cup Over
Working(j) == Live(j) /\ stage[j] # "queued"

Init ==
  /\ stage = [t \in Thread |-> "idle"]
  /\ ask \in Asks
  /\ line = <<>> /\ flagged = {}
  /\ before = [k \in Stop |-> [live |-> {}, over |-> {}]]
  /\ box = {} /\ late = {} /\ file = NoServe
  /\ todo = [t \in Thread |-> {}]
  /\ visit = [t \in Thread |-> {}]
  /\ end = [j \in Serve |-> "failed"]
  /\ troubles = 0 /\ marred = {}

\* Something goes wrong for every job that is under way.
Trouble(f) ==
  /\ f \in Faults /\ troubles < MaxTroubles
  /\ troubles' = troubles + 1
  /\ marred' = marred \cup {t \in Thread : Live(t)}

Goto(t, s) == stage' = [stage EXCEPT ![t] = s]
luck == <<troubles, marred>>
jobVars == <<ask, line, flagged, before, end>>
threadVars == <<todo, visit>>
dockerVars == <<box, late, file>>
-----------------------------------------------------------------------------
Accepted ==
  [live |-> {j \in Serve : Live(j)},
   over |-> {j \in Serve : stage[j] \in Over /\ \A b \in late : b.owner # j}]

(* Jobs: start_job, request_cancel, the main executor (jobs.py).            *)

AcceptServe(j) ==
  /\ stage[j] = "idle" /\ Goto(j, "queued") /\ line' = Append(line, j)
  /\ UNCHANGED <<ask, flagged, before, end, threadVars, dockerVars, luck>>

\* Mistake: only the serve on the executor is flagged.
AcceptStopOfWorking(k) ==
  /\ stage[k] = "idle" /\ Goto(k, "queued")
  /\ flagged' = flagged \cup {j \in Serve : Working(j)}
  /\ before' = [before EXCEPT ![k] = Accepted]
  /\ UNCHANGED <<ask, line, end, threadVars, dockerVars, luck>>

\* A stop flags the live serves before its own work starts.
AcceptStop(k) ==
  /\ stage[k] = "idle" /\ Goto(k, "queued")
  /\ flagged' = flagged \cup {j \in Serve : Live(j)}
  /\ before' = [before EXCEPT ![k] = Accepted]
  /\ UNCHANGED <<ask, line, end, threadVars, dockerVars, luck>>

BeginStop(k) ==
  /\ stage[k] = "queued" /\ \A i \in Stop : ~Working(i)
  /\ Goto(k, "file")
  /\ UNCHANGED <<jobVars, threadVars, dockerVars, luck>>

Cancel(j) ==
  /\ Live(j) /\ j \notin flagged /\ flagged' = flagged \cup {j}
  /\ UNCHANGED <<stage, ask, line, before, end, threadVars, dockerVars, luck>>

\* The executor takes the next serve; a flagged one ends before it starts.
Begin(j) ==
  /\ line # <<>> /\ Head(line) = j /\ \A i \in Serve : ~Working(i)
  /\ line' = Tail(line)
  /\ Goto(j, IF j \in flagged THEN "cancelled" ELSE "called")
  /\ UNCHANGED <<ask, flagged, before, end, threadVars, dockerVars, luck>>
-----------------------------------------------------------------------------
(* The weights and the images: all before the running serve is stopped.    *)

Prepare(j, from, to) ==
  /\ stage[j] = from /\ Goto(j, to)
  /\ UNCHANGED <<jobVars, threadVars, dockerVars, luck>>

\* work(): the request asks for a download first, or does not.
Work(j) == Prepare(j, "called", "downloading") \/ Prepare(j, "called", "admitting")

\* The cache directory belongs to root and chown in a container does not help.
CacheNotWritable(j) == Prepare(j, "downloading", "failed")

\* hf fails, is killed, or takes two hours: what it fetched stays for the next
\* try.  Nothing here looks at the cancel event.
DownloadFails(j) == Prepare(j, "downloading", "failed")

Downloaded(j) == Prepare(j, "downloading", "admitting")

\* The fit gate, an engine without multi-node, too few nodes.
Refuse(j) == Prepare(j, "admitting", "failed")

\* The image of this host, then of each worker that gets a rank.
StartPulls(j) ==
  /\ stage[j] = "admitting" /\ Goto(j, "pulling")
  /\ visit' = [visit EXCEPT ![j] = IF ask[j].multi THEN Worker ELSE {}]
  /\ UNCHANGED <<todo, jobVars, dockerVars, luck>>

\* An image that is there, or a pull that succeeds.
EnsureImage(j, w) ==
  /\ stage[j] = "pulling" /\ w \in visit[j]
  /\ visit' = [visit EXCEPT ![j] = @ \ {w}]
  /\ UNCHANGED <<stage, todo, jobVars, dockerVars, luck>>

ImagesThere(j) == visit[j] = {} /\ Prepare(j, "pulling", "pulled")

EndPull(j, outcome) ==
  /\ stage[j] = "pulling" /\ Goto(j, outcome)
  /\ visit' = [visit EXCEPT ![j] = {}]
  /\ UNCHANGED <<todo, jobVars, dockerVars, luck>>

\* A pull fails, or gives up after its limit.
PullFails(j) == EndPull(j, "failed")

\* A pull looks at the cancel event every second and is killed.
PullCancelled(j) == j \in flagged /\ EndPull(j, "cancelled")

\* not_cancelled(), after the pulls.
CancelBefore(j) == j \in flagged /\ Prepare(j, "pulled", "cancelled")

\* The first step of the launch, of all nodes or of one.
LaunchOf(j) == IF ask[j].multi THEN "record" ELSE "clear"

\* Mistake: a multi-node serve stops the one that is recorded, and nothing else.
StopRecordedFirst(j) ==
  /\ stage[j] = "pulled" /\ j \notin flagged
  /\ Goto(j, IF ask[j].stop_first /\ (ask[j].multi => file # NoServe) THEN "file" ELSE LaunchOf(j))
  /\ UNCHANGED <<jobVars, threadVars, dockerVars, luck>>

\* The last look at the cancel event, then stop_all, unless the request says to
\* leave what runs alone.
StopFirst(j) ==
  /\ stage[j] = "pulled" /\ j \notin flagged
  /\ Goto(j, IF ask[j].stop_first THEN "file" ELSE LaunchOf(j))
  /\ UNCHANGED <<jobVars, threadVars, dockerVars, luck>>
-----------------------------------------------------------------------------
(* stop_all, run by a stop job or by a serve: the ranks the state file      *)
(* names, then what the workers list, then what this host lists.           *)

\* docker rm -f by name, whoever started the container.
Remove(t, target) ==
  /\ target \in todo[t]
  /\ todo' = [todo EXCEPT ![t] = @ \ {target}]
  /\ box' = box \ At(target[1], target[2])
  /\ UNCHANGED <<late, file, luck>>

\* An ssh command that fails or times out leaves the container; the loop goes on.
Skip(t, target) ==
  /\ target \in todo[t] /\ target[1] # Host /\ Trouble("ssh")
  /\ todo' = [todo EXCEPT ![t] = @ \ {target}]
  /\ UNCHANGED dockerVars

RanksOf(j) == {<<n, <<ask[j].engine, "rank">>>> : n \in Node}

ReadState(t) ==
  /\ stage[t] = "file"
  /\ IF file = NoServe
       THEN Goto(t, "remote") /\ visit' = [visit EXCEPT ![t] = Worker] /\ UNCHANGED todo
       ELSE Goto(t, "ranks") /\ todo' = [todo EXCEPT ![t] = RanksOf(file)] /\ UNCHANGED visit
  /\ UNCHANGED <<jobVars, dockerVars, luck>>

RemoveRank(t) ==
  /\ stage[t] = "ranks"
  /\ \E target \in todo[t] : target[1] # Host /\ (Remove(t, target) \/ Skip(t, target))
  /\ UNCHANGED <<stage, visit, jobVars>>

RemoveHead(t) ==
  /\ stage[t] = "ranks"
  /\ \E target \in todo[t] : todo[t] = {target} /\ Remove(t, target)
  /\ Goto(t, "unlink") /\ UNCHANGED <<visit, jobVars>>

\* stop_all swallows it; a multi-node serve calls stop_multi_node itself first.
HeadHangs(t) ==
  /\ stage[t] = "ranks" /\ Trouble("rm") /\ \A x \in todo[t] : x[1] = Host
  /\ todo' = [todo EXCEPT ![t] = {}]
  /\ IF t \in Serve /\ ask[t].multi
       THEN Goto(t, "failed") /\ UNCHANGED visit
       ELSE Goto(t, "remote") /\ visit' = [visit EXCEPT ![t] = Worker]
  /\ UNCHANGED <<jobVars, dockerVars>>

Unlink(t) ==
  /\ stage[t] = "unlink" /\ file' = NoServe
  /\ Goto(t, "remote") /\ visit' = [visit EXCEPT ![t] = Worker]
  /\ UNCHANGED <<box, late, luck, todo, jobVars>>

\* Live docker on the worker decides; a failing list is a warning.
ListRemote(t, w) ==
  /\ stage[t] = "remote" /\ todo[t] = {} /\ w \in visit[t]
  /\ visit' = [visit EXCEPT ![t] = @ \ {w}]
  /\ \/ todo' = [todo EXCEPT ![t] = NamesOn(w)] /\ UNCHANGED luck
     \/ Trouble("ssh") /\ UNCHANGED todo
  /\ UNCHANGED <<stage, jobVars, dockerVars>>

RemoveRemote(t) ==
  /\ stage[t] = "remote"
  /\ \E target \in todo[t] : Remove(t, target) \/ Skip(t, target)
  /\ UNCHANGED <<stage, visit, jobVars>>

\* A docker ps that does not answer reads as a host without containers.
ListHost(t) ==
  /\ stage[t] = "remote" /\ todo[t] = {} /\ visit[t] = {} /\ Goto(t, "host")
  /\ \/ todo' = [todo EXCEPT ![t] = NamesOn(Host)] /\ UNCHANGED luck
     \/ Trouble("rm") /\ UNCHANGED todo
  /\ UNCHANGED <<visit, jobVars, dockerVars>>

RemoveLocal(t) ==
  /\ stage[t] = "host"
  /\ \E target \in todo[t] : Remove(t, target)
  /\ UNCHANGED <<stage, visit, jobVars>>

\* A local docker rm that takes longer than its limit ends the job.
LocalHangs(t) ==
  /\ stage[t] = "host" /\ todo[t] # {} /\ Trouble("rm")
  /\ todo' = [todo EXCEPT ![t] = {}] /\ Goto(t, "failed")
  /\ UNCHANGED <<visit, jobVars, dockerVars>>

StopReturns(t) ==
  /\ stage[t] = "host" /\ todo[t] = {}
  /\ Goto(t, IF t \in Stop THEN "stopped" ELSE LaunchOf(t))
  /\ UNCHANGED <<jobVars, threadVars, dockerVars, luck>>
-----------------------------------------------------------------------------
(* The launch.                                                              *)

\* docker run of j's container on a node: what it may leave, and what it says.
\* A name in use is refused; a solo container whose port is taken stays
\* created; past its limit the client gives up and docker may still start it.
NewBox(j, node, state) == [node |-> node, name |-> NameOf(j), owner |-> j, state |-> state]
PortTaken(j) ==
  \E b \in box : b.node = Host /\ b.name[1] = ask[j].engine /\ Up(b)

RunStarts(j, node) ==
  /\ At(node, NameOf(j)) = {} /\ (ask[j].multi \/ ~PortTaken(j))
  /\ box' = box \cup {NewBox(j, node, "loading")} /\ UNCHANGED <<late, file, luck>>

\* Mistake: the created container counts as one that runs.
RunRefusedCreated(j, node) ==
  /\ box' = IF At(node, NameOf(j)) # {} \/ ask[j].multi \/ ~PortTaken(j)
              THEN box ELSE box \cup {NewBox(j, node, "created")}
  /\ UNCHANGED <<late, file, luck>>

RunRefused(j, node) ==
  /\ box' = IF At(node, NameOf(j)) # {} \/ ask[j].multi \/ ~PortTaken(j)
              THEN box ELSE box \cup {NewBox(j, node, "exited")}
  /\ UNCHANGED <<late, file, luck>>

RunHangs(j, node) ==
  /\ Trouble("slow")
  /\ late' = late \cup {NewBox(j, node, "loading")} /\ UNCHANGED <<box, file>>

\* Single node: the old container of this name goes first.
Clear(j) ==
  /\ stage[j] = "clear" /\ Goto(j, "run")
  /\ box' = box \ At(Host, NameOf(j))
  /\ UNCHANGED <<late, file, luck, jobVars, threadVars>>

ClearHangs(j) ==
  /\ stage[j] = "clear" /\ Trouble("rm") /\ Goto(j, "failed")
  /\ UNCHANGED <<jobVars, threadVars, dockerVars>>

RunSolo(j) ==
  /\ stage[j] = "run"
  /\ \/ RunStarts(j, Host) /\ Goto(j, "waiting")
     \/ (RunRefused(j, Host) \/ RunHangs(j, Host)) /\ Goto(j, "failed")
  /\ UNCHANGED <<jobVars, threadVars>>

\* Multi-node: the state file is written before anything starts.
Record(j) ==
  /\ stage[j] = "record"
  /\ \/ file' = j /\ UNCHANGED luck
     \/ Trouble("disk") /\ UNCHANGED file
  /\ Goto(j, "stale") /\ todo' = [todo EXCEPT ![j] = RanksOf(j)]
  /\ UNCHANGED <<box, late, visit, jobVars>>

\* Whatever stops the launch leads to _teardown_ranks, then to this outcome.
Undo(j, outcome) ==
  /\ stage' = [stage EXCEPT ![j] = "undo"]
  /\ end' = [end EXCEPT ![j] = outcome]
  /\ todo' = [todo EXCEPT ![j] = {x \in RanksOf(j) : x[1] # Host}]
  /\ visit' = [visit EXCEPT ![j] = {}]
  /\ UNCHANGED <<ask, line, flagged, before>>

RemoveStale(j) ==
  /\ stage[j] = "stale"
  /\ \E target \in todo[j] : Remove(j, target)
  /\ UNCHANGED <<stage, visit, jobVars>>

StaleHangs(j) ==
  /\ stage[j] = "stale"
  /\ \E target \in todo[j] : Trouble(IF target[1] = Host THEN "rm" ELSE "ssh")
  /\ Undo(j, "failed") /\ UNCHANGED dockerVars

StaleGone(j) ==
  /\ stage[j] = "stale" /\ todo[j] = {}
  /\ Goto(j, "workers") /\ visit' = [visit EXCEPT ![j] = Worker]
  /\ UNCHANGED <<todo, jobVars, dockerVars, luck>>

RunWorker(j, w) ==
  /\ stage[j] = "workers" /\ w \in visit[j]
  /\ \/ /\ RunStarts(j, w) /\ visit' = [visit EXCEPT ![j] = @ \ {w}]
        /\ UNCHANGED <<stage, todo, jobVars>>
     \/ (RunRefused(j, w) \/ RunHangs(j, w)) /\ Undo(j, "failed")

\* rank 0 after every worker rank.
RunHead(j) ==
  /\ stage[j] = "workers" /\ visit[j] = {}
  /\ \/ RunStarts(j, Host) /\ Goto(j, "waiting") /\ UNCHANGED <<threadVars, jobVars>>
     \/ (RunRefused(j, Host) \/ RunHangs(j, Host)) /\ Undo(j, "failed")
-----------------------------------------------------------------------------
(* wait_ready: cancel, then the containers, then the port; and its limit.   *)

\* Single node: a container that still loads is removed.
Abandon(j, outcome) ==
  IF ask[j].multi THEN Undo(j, outcome)
  ELSE /\ stage' = [stage EXCEPT ![j] = "undoHead"]
       /\ end' = [end EXCEPT ![j] = outcome]
       /\ UNCHANGED <<todo, visit, ask, line, flagged, before>>

\* Mistake: the exception of a cancel passes by the clean-up.
WaitCancelledOnly(j) ==
  /\ stage[j] = "waiting" /\ j \in flagged /\ Goto(j, "cancelled")
  /\ UNCHANGED <<jobVars, threadVars, dockerVars, luck>>

WaitCancelled(j) ==
  /\ stage[j] = "waiting" /\ j \in flagged
  /\ Abandon(j, "cancelled") /\ UNCHANGED <<dockerVars, luck>>

WaitOn(j) ==
  /\ stage[j] = "waiting" /\ j \notin flagged /\ Goto(j, "inspecting")
  /\ UNCHANGED <<jobVars, threadVars, dockerVars, luck>>

\* A container of j is gone or exited: the own one at every poll, the workers'
\* at some.  The exited container of a single node stays for its logs.
InspectDead(j) ==
  /\ stage[j] = "inspecting"
  /\ \/ HeadOf(j) = {}
     \/ ask[j].multi /\ \E w \in Worker : \A b \in At(w, NameOf(j)) : ~Up(b)
  /\ IF ask[j].multi THEN Undo(j, "failed")
     ELSE Goto(j, "failed") /\ UNCHANGED <<jobVars, threadVars>>
  /\ UNCHANGED <<dockerVars, luck>>

\* An inspect that docker does not answer is not a verdict.
InspectAlive(j) ==
  /\ stage[j] = "inspecting" /\ Goto(j, "asking")
  /\ IF HeadOf(j) # {} THEN UNCHANGED luck ELSE Trouble("rm")
  /\ UNCHANGED <<jobVars, threadVars, dockerVars>>

\* Whoever listens on the engine's port of this host answers.
Answers(j) ==
  \E b \in box : b.node = Host /\ b.name[1] = ask[j].engine /\ b.state = "ready"

Ready(j) ==
  /\ stage[j] = "asking" /\ Answers(j) /\ Goto(j, "completed")
  /\ UNCHANGED <<jobVars, threadVars, dockerVars, luck>>

PollAgain(j) ==
  /\ stage[j] = "asking" /\ ~Answers(j) /\ Goto(j, "waiting")
  /\ UNCHANGED <<jobVars, threadVars, dockerVars, luck>>

WaitTimesOut(j) ==
  /\ stage[j] = "asking" /\ ~Answers(j)
  /\ Abandon(j, "failed") /\ UNCHANGED <<dockerVars, luck>>
-----------------------------------------------------------------------------
(* Clean-up of a launch that failed.                                        *)

\* Failing removals are swallowed.
UndoWorker(j) ==
  /\ stage[j] = "undo"
  /\ \E target \in todo[j] : Remove(j, target) \/ Skip(j, target)
  /\ UNCHANGED <<stage, visit, jobVars>>

UndoWorkersDone(j) ==
  /\ stage[j] = "undo" /\ todo[j] = {} /\ Goto(j, "undoHead")
  /\ UNCHANGED <<jobVars, threadVars, dockerVars, luck>>

UndoHead(j) ==
  /\ stage[j] = "undoHead" /\ box' = box \ At(Host, NameOf(j))
  /\ Goto(j, IF ask[j].multi THEN "forget" ELSE end[j])
  /\ UNCHANGED <<late, file, luck, jobVars, threadVars>>

\* The limit of the removal replaces the reason it was for.
UndoHeadHangs(j) ==
  /\ stage[j] = "undoHead" /\ Trouble("rm") /\ Goto(j, "failed")
  /\ UNCHANGED <<jobVars, threadVars, dockerVars>>

Forget(j) ==
  /\ stage[j] = "forget" /\ file' = NoServe /\ Goto(j, end[j])
  /\ UNCHANGED <<box, late, luck, jobVars, threadVars>>
-----------------------------------------------------------------------------
(* docker and the process.                                                  *)

\* A server whose port another one on this host listens on does not come up.
Load(b) ==
  /\ b \in box /\ b.state = "loading"
  /\ ~\E c \in box : {b.node, c.node} = {Host} /\ b.name[1] = c.name[1] /\ c.state = "ready"
  /\ box' = (box \ {b}) \cup {[b EXCEPT !.state = "ready"]}
  /\ UNCHANGED <<stage, jobVars, threadVars, late, file, luck>>

Exit(b) ==
  /\ b \in box /\ Up(b)
  /\ box' = (box \ {b}) \cup {[b EXCEPT !.state = "exited"]}
  /\ UNCHANGED <<stage, jobVars, threadVars, late, file, luck>>

\* docker comes to a run whose client gave up: it starts unless its name is in use.
StartLate(b) ==
  /\ b \in late /\ late' = late \ {b}
  /\ \/ At(b.node, b.name) = {} /\ box' = box \cup {b}
     \/ UNCHANGED box
  /\ UNCHANGED <<stage, jobVars, threadVars, file, luck>>

\* Containers and the state file outlive the process; its jobs are failed at the
\* next start.
Crash ==
  /\ Trouble("crash")
  /\ \E t \in Thread : Live(t)
  /\ stage' = [t \in Thread |-> IF Live(t) THEN "failed" ELSE stage[t]]
  /\ line' = <<>> /\ flagged' = {}
  /\ todo' = [t \in Thread |-> {}] /\ visit' = [t \in Thread |-> {}]
  /\ UNCHANGED <<ask, before, end, dockerVars>>
-----------------------------------------------------------------------------
StopAll(t) ==
  \/ ReadState(t) \/ RemoveRank(t) \/ RemoveHead(t) \/ HeadHangs(t) \/ Unlink(t)
  \/ (\E w \in Worker : ListRemote(t, w)) \/ RemoveRemote(t)
  \/ ListHost(t) \/ RemoveLocal(t) \/ LocalHangs(t) \/ StopReturns(t)

Launch(j) ==
  \/ Clear(j) \/ ClearHangs(j) \/ RunSolo(j)
  \/ Record(j) \/ RemoveStale(j) \/ StaleHangs(j) \/ StaleGone(j)
  \/ (\E w \in Worker : RunWorker(j, w)) \/ RunHead(j)

WaitReady(j) ==
  \/ WaitCancelled(j) \/ WaitOn(j) \/ InspectDead(j) \/ InspectAlive(j)
  \/ Ready(j) \/ PollAgain(j) \/ WaitTimesOut(j)

CleanUp(j) ==
  UndoWorker(j) \/ UndoWorkersDone(j) \/ UndoHead(j) \/ UndoHeadHangs(j) \/ Forget(j)

GetReady(j) ==
  \/ Work(j) \/ CacheNotWritable(j) \/ DownloadFails(j) \/ Downloaded(j)
  \/ Refuse(j) \/ StartPulls(j) \/ (\E w \in Worker : EnsureImage(j, w))
  \/ ImagesThere(j) \/ PullFails(j) \/ PullCancelled(j) \/ CancelBefore(j)

ServeModel(j) ==
  GetReady(j) \/ StopFirst(j) \/ Launch(j) \/ WaitReady(j) \/ CleanUp(j)

Docker == \E b \in box \cup late : Load(b) \/ Exit(b) \/ StartLate(b)

Next ==
  \/ \E j \in Serve : AcceptServe(j) \/ Cancel(j) \/ Begin(j) \/ ServeModel(j)
  \/ \E k \in Stop : AcceptStop(k) \/ BeginStop(k)
  \/ \E t \in Thread : StopAll(t)
  \/ Docker \/ Crash

Spec == Init /\ [][Next]_vars
-----------------------------------------------------------------------------
RunningOf(j) == {b \in box : b.owner = j /\ Up(b)}

\* No serve accepted before a stop outlives it: once both are over, whatever the
\* point the serve had reached (queued, between its last look at the cancel event
\* and docker run, between two ranks), none of its containers runs on any node.
\* What went wrong earlier, for a job that is over, is put right by the stop.
StopReachesEveryLoad ==
  \A k \in Stop : stage[k] = "stopped" /\ k \notin marred =>
    \A j \in Serve :
      \/ j \in before[k].over
      \/ j \in before[k].live /\ stage[j] \in Over /\ j \notin marred
      => RunningOf(j) = {}

\* A serve that ended cancelled or failed holds no node's memory, on whatever path
\* it ended ("a stray rank would otherwise pin its node's memory").
EndedLoadFreesMemory ==
  \A j \in Serve \ marred : stage[j] \in {"cancelled", "failed"} => RunningOf(j) = {}

\* While docker and ssh do as they are told, two models that were both started with
\* stop_first never share a node, although the state file may be gone, a stop may run
\* next to a launch, and serves that leave the others alone come in between.
OneModelPerNode ==
  troubles = 0 =>
    \A b, c \in box : b.node = c.node /\ Up(b) /\ Up(c) /\ b.owner # c.owner
      => ~(ask[b.owner].stop_first /\ ask[c.owner].stop_first)

\* A serve is reported ready only for its own server: no other one can have answered
\* on the port, unless the request was for the ranks of all nodes next to what runs.
ReadyIsOwn ==
  [][\A j \in Serve : /\ stage[j] = "asking" /\ stage'[j] = "completed" /\ troubles = 0
                      /\ ask[j].stop_first \/ ~ask[j].multi
       => \E b \in HeadOf(j) : b.owner = j /\ b.state = "ready"]_vars
=============================================================================
