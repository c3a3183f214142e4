# L.A.I.L in TLA+

TLA+ models, TLC checks and TLAPS proofs for the parts of L.A.I.L where several
actors share state, and for the arithmetic that decides how a model is launched.

Paths below are relative to the repository (`src/` in `PROJECT.json`); Python
paths to `packages/serve-engine/app/`, TypeScript ones to
`packages/backend/src/` unless they start with `apps/` or `scripts/`.

## 1. The system

L.A.I.L runs language models on a lab machine and its workers. Two server
processes and a web page cooperate:

| Component | State it keeps | Operations | Talks to |
|---|---|---|---|
| Job runner (`services/jobs.py`) | job rows in sqlite; live maps, cancel events, executors' queues, throttle state, the bench lease in memory | `start_job`, `runner`, `request_cancel`, `acquire_lease`, `release_lease`, start-up clean-up | routes (threadpool), workers, timer threads |
| Job log stream (`api/routes.py`) | the position of each SSE client | one poll: liveness, then the row | job runner, browser |
| Job watch (`apps/web/lib/api.ts`, `use-job-watch.ts`) | log, status, error count of the job a page follows | follow, reconnect, fall back to the row, cancel | job log stream, job routes |
| Agentic bench (`services/agentic.py`) | a process group, a watcher thread | golden tools, tool-eval-bench | model server, job runner |
| Bench lease client (`streams/probes.ts`) | nothing | acquire, renew, release with 3 s limits | job runner |
| Streams engine, a run's life (`streams/engine.ts`) | the runs, their status, abort controllers, timers, lease flag, kept runs | `createRun`, `execute`, `finish`, `fail`, `stop`, idle timer | serve-engine (lease, status, import), model server |
| Streams engine, fan-out (same file) | strands with text, steps and counters; a queue per subscriber | `handleChunk`, `flush`, `tickAgg`, `subscribe`, `done` | SSE clients |
| Stream view (`apps/web/lib/use-stream-run.ts`) | the run as the tab shows it | reducer, reconnect, snapshot | streams routes |
| Container serving (`services/serve.py`) | state file, containers on one or more nodes | serve, stop, stop all, wait until ready | docker, ssh, Hub, job runner |
| Cluster summary (`services/node_probe.py`, `cluster.py`) | nothing from one tick to the next | inventory of a node, summary over the nodes | docker, ssh, model server |
| Status sampler (`services/status_sampler.py`, `metadata.py`) | last snapshot, endpoint followed, last scrape, wake event | fast tick, slow tick, publish, long poll | containers, model server, readers |
| Live hub (`live.ts`) | subscribers, poll loop, last tick and meta | subscribe, poll, broadcast | status long poll |
| Live connection (`apps/web/lib/live-connection.ts`, `lab-status-store.ts`) | stream, timers, what the tab shows | connect, poll, refresh, hide, return, retry | live hub, snapshot route |
| Usage (`controller/usage.ts`) | last reading per URL, per-minute sums | sample | model server metrics, sqlite |
| Placement and planning (`services/autoconfig.py`, part of `serve.py`), Server page (`apps/web/app/server/page.tsx`) | the form, the recommendation shown, the job tracked | auto-configure, Start | Hub, local cache, sampler's nodes |
| Lab gallery (`lab/store.ts`, `scripts/lab-site-build.ts`) | run directories, public slugs, the static site | import, publish, unpublish, build | file system |
| Stream arithmetic, proxies, the other pages and scripts | no shared state of their own | pure computation, wiring, rendering | |

What is hard here: an event loop next to worker, timer and threadpool threads
(job runner); awaits between a check and its use (engine, sampler, tab); a lease
over HTTP with time-outs; docker and ssh commands that time out and still take
effect; viewers that join, lag, lose their connection and mix live events with
replays and snapshots; counters that restart under their reader; a form that is
filled from one state of the cluster and started in another; files another
process reads while they are written. The `hazards` of `PROJECT.json` list each
at its line, with the property that watches it; where the code does go wrong, a
note says so and section 5 describes it.

What makes each part correct:

- *Job runner*: a row goes queued, running, one outcome, and stays there; none is
  unfinished without a runner; a stop reaches every load; a bench job and the
  bench lease exclude each other.
- *Log stream and job watch*: "orphaned" is said only of a lost job; the log is
  shown once and in order; the page settles on the outcome and stays there.
- *Benches*: one measurement at a time over both processes, its child processes
  included; the lease becomes free again.
- *A run's life*: one run per endpoint, no leaked lease, a stop and the idle
  timer end a run, a run that is over has no open request.
- *Fan-out and view*: every viewer's transcript, counters and steps are the
  run's, whenever it joined; it is shown the end, and only a real one.
- *Serving*: a stop reaches every load; a load that failed frees its memory on
  every node; one model per node, unless the request leaves what runs alone;
  "ready" means this load's own server.
- *Cluster summary*: a left-over container is not passed off as part of a serve.
- *Sampler*: no long poll sleeps through a publish; no rate mixes the counters of two URLs.
- *Live hub and tab*: an awake tab has a stream or will open one, one at a time;
  it shows a model list that belongs to its snapshot, and gets to the newest.
- *Usage*: a token is booked once.
- *Planning*: a recommended form fits the nodes it starts on, Start accepts it,
  and it does not name a backend that crashes the checkpoint.
- *Lab gallery*: what a page links to is there, what is private is gone, and the
  built site shows only what was shared.

## 2. Modules

| Module | Models | Builds on |
|---|---|---|
| `JobLifecycle` | abstract: what a job row promises its reader | |
| `Jobs` | `services/jobs.py`, job rows of `db.py`, lifespan of `main.py` | implements `JobLifecycle` |
| `JobWatch` | the log stream of `api/routes.py` | `Jobs` |
| `JobFollow` | a page that follows its job | `JobWatch` |
| `BenchExclusion` | lease calls of `streams/probes.ts` and `engine.ts` | `Jobs` |
| `AgenticSuite` | `services/agentic.py` as the work of a bench job | `BenchExclusion`; implements `Jobs` |
| `StreamRun` | a run's life in `streams/engine.ts` | |
| `FanOut` | events of `streams/engine.ts`, `streams/routes.ts`, view of `use-stream-run.ts` | |
| `ServeLifecycle` | `serve_model`, `stop_all` and what they call in `services/serve.py` | |
| `ClusterView` | inventory and summary, `node_probe.py` and `cluster.py` | `ServeLifecycle` |
| `StatusSampler` | `status_sampler.py`, the rates of `metadata.py` | |
| `LiveView` | `live.ts`, `live-connection.ts`, `lab-status-store.ts` | |
| `UsageMeter` | `controller/usage.ts` | |
| `Placement`, `Recipes`, `Planning` | `autoconfig.py`: memory and node counts, what is known of a checkpoint and its recipes, the recommendation per engine; functions, no state | each other in this order |
| `ServePage` | `app/server/page.tsx` and the checks of Start in `serve.py` | `Planning` |
| `LabShare` | `lab/store.ts`, `scripts/lab-site-build.ts` | |
| `JobsProofs` | theorems about `Jobs`, `AgenticSuite` and `JobFollow` | TLAPS |
| `StreamRunProofs`, `FanOutProofs`, `ServeProofs`, `LiveViewProofs`, `StatusSamplerProofs`, `ServePageProofs` | theorems about the module each is named for | TLAPS |
| `StoreProofs` | theorems about `UsageMeter` and `LabShare` | TLAPS |
| `MC...` | instances for TLC | |

A definition that starts with "Mistake:" is a plausible error in the definition
after it. It is used nowhere in the specification: put in its place, it must
make the property named for it in `PROJECT.json` fail.

**Jobs.** One step is what a thread does between two points where another can
get in: a critical section under `_state_lock` or `plock`, one row write, one
read of a shared map. `stage[j]` is the program counter of `start_job`
("superseding" to "submitting": one at a time, since it has no await) and then
of `runner()`. `live` is the key set of `_cancel_events` and `_live_kinds`,
which change together; `flag` the events; `closed`, `pending` and `timer` the
progress writer. An armed timer can be cancelled, a fired one already waits for
the lock. `Faults` says which I/O may raise, and the `...Raises` actions follow
the `except` and `finally` blocks. `Crash` keeps the rows and drops the rest.
Time is left out: whether an update is throttled is a choice.

**JobWatch, JobFollow.** A poll is two steps, `is_live` and then the row,
because the runner goes on in between. A log is a sequence of numbered pieces;
every stream replays it from the start and the page skips what it has. After
three errors in a row the page closes the stream, asks for the row and, with a
back-off from 2 s to 15 s, tries again. `status` is what the page shows, `last` what
the watch itself was told: the cancel route's answer changes the first alone, and
"reconnecting" shows the second.

**BenchExclusion, AgenticSuite.** Each lease call is a message in `net`, handled
in any order and at any time; the controller may stop waiting first. `unheard`
remembers that a call was lost or timed out. Time is one action, `Tick`, the 30 s
between two renewals of a run that holds the lease: it sends the renewals of every
interval that is set (`renewing`) and ages the lease, which expires three periods
after the serve-engine last granted it, whoever asked. A suite is the `fn` of a job in
`Jobs`: `fn` returns or raises only where the suite
does. The command, its children, the reading thread and the watcher are separate
actors.

**StreamRun.** `phase[r]` is the await at which the code of run `r` stands, from
the first conflict check to the import of the result; between two awaits
nothing else runs. `Plan` gives the waves of each level, `TooLong` the prefill
sizes that are skipped.

**FanOut.** Chunk `i` of a stream is the number `i`, so a transcript is a
sequence in which a gap or a repetition shows; steps and agg samples are
numbered as well. `view[v]` is folded by `Reduce`, the reducer's own cases, over
the frames that reach the tab.

**ServeLifecycle.** A step is one docker or ssh command, one access to the state
file or one look at the cancel event. `box` holds the containers with node, name
and the serve that started them; `late` those docker may still start for a
client that gave up. A request (`ask`) names the engine, one node or all, and
`stop_first`. Downloads and pulls come before what runs is stopped, or, without
`stop_first`, left alone: then a container's name that is taken, or a port that is
listened on, decides what becomes of the launch. `Faults` are a slow `docker run`,
failing ssh, removal or disk, and a
container that dies; `marred` remembers which job was hit.

**ClusterView.** Only functions of `box`: containers to inventory to summary. A
value that may be missing is a set of at most one element.

**StatusSampler.** Both ticks run on one event loop and yield at their awaits. A
model server is a process with a container, a port and a token counter. A
scrape that mixes counters of two processes carries a mark.

**LiveView.** Snapshots are numbered by age. The hub's loop is one phase: between its
last look at its subscribers and the reset of `running` there is no await
(`live.ts:286-289`), so a second loop next to it cannot be expressed, and whether a
new subscriber gets one is what `ShownCatchesUp` depends on. A call of `connect()` is an element
of `Conn`, from start to return, so two calls at once can be seen. `rushed`
remembers the one case the code does not guard (section 5).

**UsageMeter.** Readings are matched by URL and process start time; `read` is what
was seen of each process, `booked` what was added to the minutes.

**Planning.** A checkpoint is a record of the facts the code reads (size, how its
files are packed, layout, quantisation, recipes). Weights are GiB, windows units
of 8192 tokens, shares percentages. `ServePage` lets the cluster, the Hub and the
form change between a recommendation and its Start, and within Start between
the gate's look at the nodes and the launch's.

**LabShare.** Each file operation of a handler is a step; after any of them an
I/O error or the end of the process may cut it, and the site builder reads
between them.

## 3. Runs

| Run | Instance | Shows |
|---|---|---|
| `MCJobsLive` | a load, a stop, one restart; no failing I/O; fair | `LiveJobHasRunner`, `EveryJobEnds`, `StoppedLoadNeverStarts`, `ImplementsLifecycle` |
| `MCJobFollow` | a followed load, two log pieces, one restart, two cuts; log and row writes may raise; fair | `OrphanIsLost`, `LogOnce`, `EndedRowNeverRevives`, `SettledStays`, `WatchSettles` |
| `MCAgenticSuite` | a bench job of either suite, two controller benches on one or two endpoints, lost and late calls; fair | `OneMeasurement`, `LeaseExcludesBenchJobs`, `UnfinishedRowHasRunner`, `LeaseIsFreed` |
| `MCAgenticSuiteCancel` | the same with one bench; fair | violates `CancelEndsSuite` |
| `MCFanOut` | a strand of two chunks, an agg sample, a level, a viewer cut once, snapshots; fair | `TranscriptExact`, `EndedStepsExact`, `EndIsReal`, `EveryViewerSeesEnd` |
| `MCStreamRun` | two runs on one endpoint, three strands, two levels of which one has two waves or is skipped, one run kept; fair | `OneRunPerEndpoint`, `LeaseFollowsRun`, `UnwatchedLoadIsTimed`, `NoStrandOutlivesRun`, `StoppedRunEnds` |
| `MCServeLifecycle` | two serves, one perhaps without `stop_first`, and a stop on two nodes, one trouble of any kind | `StopReachesEveryLoad`, `EndedLoadFreesMemory`, `OneModelPerNode`, `SummaryIsTrue`, `ReadyIsOwn` |
| `MCStatusSampler` | three servers on two ports, names and engines, two readers, one lost request | `NoMissedPublish`, `RateIsReal` |
| `MCLiveView` | two connections, two snapshots of different models, one trouble, one gesture; fair | `TabNeverIdle`, `OneStream`, `ShownModelsMatch`, `ShownCatchesUp` |
| `MCUsageMeter` | three servers, one under two URLs, two backends, edits, a restart | `BookedOnce` |
| `MCServePage` | five kinds of checkpoint in three sizes, three nodes, four steps of the user, one change of the world | `LaunchFits`, `StartAgrees`, `SizedAsPromised`, `BackendIsSafe` |
| `MCLabShare` | two runs, three slugs, any content, any cuts, a site builder | `SharesMatch`, `SiteIsPublic` |

**Bounds.** Jobs interact through their class: a load and a stop give queue,
supersession and cancellation; a bench job and two benches give every pair of
holders. One restart shows what a restart does to a row, as the start-up ends
all of them. In `FanOut` the caps are one, so the second chunk passes `TextCap`
and `RingCap`; `QueueCap` is above the length of a replay, as in the code (at
512 strands 1795 frames of 2048). Two runs on one endpoint give the conflict
and, with one run kept, the eviction; three strands give a level of two waves
and one after it. Two serves and a stop give every order of launch, stop and
hand-over; one worker suffices for a rank on another node, since all workers go
through the same loop. At most one serve comes without `stop_first`, and of another
shape than the other one (a container of its own name is removed in any case). The
`VIEW` of that run leaves out what no later step reads: the cancel flag of a job
that is over and an outcome that is not yet waited for. The lease lasts three
periods, as in the code. Of the model servers two share port and name, the third has
its own, so a move and a replacement both occur; two of them run. Two snapshots with
different models show an old list with a new tick. In `MCServePage` 60, 150 and
250 GiB need one, two and three nodes of 120 GiB, or do not fit. Three slugs let
a run be published again while both runs are shared. `MaxRestarts`, `MaxPieces`,
`MaxCuts`, `MaxChunks`, `MaxTicks`, `MaxLevels`, `MaxDrops`, `MaxTroubles`,
`MaxGestures`, `MaxStarts`, `MaxTokens`, `MaxLost`, `MaxEdits`, `MaxCrashes`,
`MaxSteps`, `MaxChanges`, one `request_cancel` per job, one page per job and one
snapshot request per tab at a time are bounds of the models, not of the code.
Symmetry is used only in runs without liveness (serves; slugs and runs; readers
and equal servers). `CHECK_DEADLOCK` is off because each of these systems may come
to rest: all work done, nobody asking.

**Fairness.** Jobs: the event loop, workers and timers are running threads, a
supervisor restarts a dead process, and a job's function ends by the time-outs
inside it; a tool-eval command that hangs ends only when it is signalled. The
suite's own thread, its watcher and the processes that are signalled go on as well,
so that `CancelEndsSuite` fails for one reason, the watcher that is gone (it holds
if the watcher waits for the children too). Lease: time passes, and a lease that
lasted its 90 s is over; requests may stay under way for ever, late ones included.
Streams: an await is answered or times out, timers fire, an abort ends the
requests of its run; nothing makes the upstream end a stream. Tabs: they
reconnect (as `EventSource` does) and read what is sent; their timers fire and
their fetches are answered or fail. The sampler publishes and the hub polls.
No fairness is assumed of users: nobody has to submit, stop, cancel, hide or
watch.

## 4. Proofs

Each theorem holds for every value of the constants under the module's named
assumptions, and those given here. Of these assumptions three are of the
models, not of the code: the values that stand for "none" or "mixed" are not
servers, models or connections (`LiveAssumption`, `SamplerAssumption`), and
`Strand` is finite, as `SetToSeq` wants (`FanOutAssumption`).

**`JobsProofs`**, the runner. `TypeCorrect`, `LeaseCorrect`, `PlaceCorrect` and
`EndedRowsStay` whatever I/O fails; `NoLostRow`, `LiveJobsAreServed`,
`RunnerImplementsLifecycle` and `OutcomeIsFinal` if none does (`Faults = {}`;
section 5 says why). `LeaseExcludesBenchJobs` is inductive.
The theorems about rows are not: that a flush after the outcome is impossible
depends on what is held when. `RunnerInv` (theorem `RunnerCorrect`) adds it: the
live maps follow the stage; a dead process works on nothing; what waits in a
queue was submitted once and is "queued" (else a picked job could start twice);
an update is held only while `fn` runs; until `fn` returns the row follows the
stage; a cancel request that missed the runner is about a job that is over.
`OutcomeInv` adds that a runner past its row write has an outcome. The converse
of the queue clause, `PlaceFollowsStage`, says that a submitted job does wait in
its queue and that a job inside `runner()` has the worker: with it no live job
is left without something that ends it. `OutcomeIsFinal` follows from the
abstract specification alone.

*Suites.* `SuiteRefinesJobs` shows that suites, lease calls and network
only do what `Jobs` does or leave it alone, so the job runner's theorems carry
over. With them `MeasurementIsAlone`: if `Faults` is empty and all jobs are
benches, at most one bench measures over both processes while the serve-engine
goes on and answers. The invariant: from its grant to its end a run's lease is the
active one, younger than its limit, with a renewal under way once a period has
passed; the serve-engine refuses none of its holder, as no bench job can be live
(`LeaseOfRun`; only an ended run's release can be under way). And `fn` outlives
every process it started (`FnOutlives`). Without failing I/O is needed: a log
line that raises ends `fn` while the command still measures.

*The page.* `FollowRefinesJobs` does the same for the log stream and the page
that reads it, whatever I/O fails, and from it come `OrphansAreLost`,
`LogShownOnce` and `OutcomeShownStays`. A poll whose first read found no
live job is about one that is over, or that a restart has lost (`DeadIsOver`: the
two reads are apart, and what the first saw stays true because a job that has
ended never comes back). What the page has of a log is its first pieces, in
order, and no fewer than its present stream has sent (`LogOk`). An outcome the page
shows stays, but for the one case of section 5, item 7: what the watch was told it
keeps showing, and the cancel route's answer never replaces an outcome.

**`StreamRunProofs`.** To what a run holds, each step does
one of a few things (`StepShape`): go on, end, refuse, create where none is
active, or a viewer's action; `OneRunPerEndpoint`, `LeaseFollowsRun` and
`UnwatchedLoadIsTimed` are then inductive. `NoStrandOutlivesRun` needs to know
which strands each phase may have open: the waves before the current one are
over unless the run was aborted, only the one under way has open strands
(`RunOk`), and `finish()` cancels what an abort left waiting.

**`FanOutProofs`**: `TranscriptIsExact`, `EndedStepsAreExact` and
`EndIsShownReal`, for any number of strands and viewers, any caps, and queues
that merge, overflow and are replaced. The invariant (`IInv`) is one claim about
each follower, `CaughtUp`: what it will show once it has read its queue is the
run as it is, but for what is still in `s.pending` (`Right`). That is not a
statement about the queue's events but about their fold, so most of the module
says how `Reduce` folds: events of different streams and strands commute where
the code lets them meet; a delta that is merged into an earlier one reads as if
it came last, since a hello never stands between them (`PushOne`, `PushMany`); a
concatenation over all strands is read strand by strand (`FlatRead`). Each list
the engine sends then turns what was right into what is right next. A queue
with a hello in it is read upon any view, which is why a reconnect needs no
memory of what the tab had (`Bases`); the run's end is last in the queue, or
behind an error (`EndsWell`, `Covered`), which is why nobody is told `done`
before the rest.

**`ServeProofs`.** As long as no docker or ssh command fails, `OneModelPerNode` and
`ReadyIsOwn`. One serve runs at a time on the main executor; while one with
`stop_first` stops what runs, each container is on its list or on a node it has yet
to list (`Swept`); after that only its own containers exist (`Alone`), so that of two
serves with `stop_first` the later finds nothing of the earlier, whatever came
between them without it (`Unshared`); and a container's name is the one its serve
asks for (`Named`). A serve on one node whose port another server listens on does
not come up, so what answers there is its own. Both speak of states before the
first trouble. What holds after one, for the jobs it did not hit, whatever fails
for the others, is `EndedLoadsHoldNothing` and `StopsReachEveryLoad`: where a
serve stands tells on which nodes it may hold a container (`Held`, `Tidy`; its
own undo works off a list as `stop_all` does), docker owes a late container only
to a job that was hit, and a load that a stop found live has its cancel flag up,
or is past its last look at the flag, and then the stop's own list has its
containers (`Settled`, `Reached`).

`SummariesAreTrue` is `SummaryIsTrue`, whatever has failed. That the ranks of an
engine are those of one serve (`NotMixed`) is not seen from the containers: a
serve that starts ranks has removed the earlier ones (`Cleared`), and docker owes
ranks only to serves that gave up (`LateOver`). Its hypotheses: a command for one node
names its size (`Engine \subseteq SaysTp`; item 8 of section 5 says what happens
without), and there is a worker: without one `serve.py:870` refuses a serve
across nodes, which the model leaves to chance. `ViewAssumption`: the workers
are finitely many.

**`LiveViewProofs`.** `TabNeverIdle` follows from the banner: a tab that asks for a
token has none that is right (`Banner`). `OneStream` rests on `Single`: a timer excludes
an active call, there is one active call at most, and none fetches or is open in
a sleeping tab, unless the tab came back in the middle of a refresh.
`ShownModelsMatch` is about three places at once, the hub's cache, the events on
their way and the tab (`Matched`): a tick finds before it in the queue, or else
in the tab, the static data of its own snapshot, and the last such data is the
hub's, which is why the hub may leave it out when it has not changed.

**`StatusSamplerProofs`.** `NoMissedPublish` is inductive: a poll that waits
does so on the event the next publish sets. `RateIsReal` needs to know that the
earlier counter is of a server on the URL the sampler is at (`EarlierIsHere`:
the fast tick drops it when it moves), so that no scrape, answer or probe under
way has a rate over two endpoints (`Clean`).

**`ServePageProofs`**: `LaunchesFit`, `RecommendedFormsAreTaken`,
`StartAndConfigureAgree`, `BackendsAreSafe` and `FormsAreSized`, for any
checkpoints, recipes and nodes, and 19 to 150 GiB each (`PageAssumption`). What the
server answers is
sound when it is computed (`AnswerIsSound`): its ranks are online nodes that hold
the weights (`Needed`, `HoldsOnMore`), its image takes its backend (`FirstBootForm`,
`UnsafeFalls`), and its window fits the share of memory it names (`Sizing`,
`ShareHolds`). That speaks of the nodes the answer was made for, so it survives
every later change; the page then hands it to a job (`Filed`), whose gate looks
at the cluster of its own moment (`Passed`), and the launch at that of a later
one. Two theorems have a hypothesis. `FormsAreSized` wants 30 GiB a node: below it
the floor of one half reaches into the reserve (TLC shows it with `Ram = 28`).
`StartAndConfigureAgree` wants the page's weighing of a checkpoint to be the
Hub's (`HubCountsOnce`), which is true of the checkpoints of `MCServePage`;
TLC checks both.

**`StoreProofs`**, usage: `BookedOnce`, if one pass runs at a time, for any number of
servers, URLs, edits and restarts: the reading kept of a process is its highest
one and one URL at most keeps it (`KeptIsHighest`); a process loses it only to a
later process of that URL, when it is gone (`Lost`). Lab: `SharesMatch` and
`SiteIsPublic`. A slug belongs to the one run that drew it (`Owned`), and the
handler under way knows where its run and its slug stand (`Handling`); the builder
changes none of that, and what it has copied was public, or left over, when it
looked.

Each inductive invariant was checked by TLC on the instances of section 3
(`IInv` of the fan-out on one with two viewers, too) before it was proved.

Only model-checked: liveness (`EveryJobEnds`, `StoppedLoadNeverStarts`,
`WatchSettles`, `LeaseIsFreed`, `EveryViewerSeesEnd`, `StoppedRunEnds`,
`ShownCatchesUp`), which rests on fairness and is out of the prover's reach
here; and, of the type of `StatusSampler`'s state, the parts that `SelectSeq`
computes, whose definition the provers cannot expand. All safety properties of
the passing runs are stated by a theorem, each under the hypotheses given above.
The induction theorems of the library take an operator and cannot be used; the
inductions over the positions of a queue in `FanOutProofs` and over nodes, files
and windows in `ServePageProofs` go by a least counterexample instead
(`LeastElement`, from `WFMin`).

## 5. Where code and comments disagree

The first is a run that TLC refutes.

1. `services/agentic.py:365` wants a cancel to reach the children that hold the
   pipe, but the watcher ends with the leader (line 372): a cancel that comes
   later signals nobody, and a hanging child keeps the job
   (`MCAgenticSuiteCancel`).

Seen in the models, or while writing them, without a run of their own:

2. *Lease.* A serve-engine restart forgets it, and a bench job can start next to
   a measuring bench; the renewal's answer is ignored (`jobs.py:40`). So does a
   suite whose processes survive the restart that fails its row.
3. *Stop.* A bench stopped while `finish()` awaits the status or the import ends
   as done: the stop flag is read once, before both (`streams/engine.ts:1106`).
4. *Steps.* A viewer that joins between two ticks gets steps twice, in the replay
   and in the next difference (`engine.ts:1265`). Once the strand ends they are
   replaced, which `EndedStepsExact` checks. After a reconnect the replayed agg
   samples are appended to those the tab kept.
5. *Snapshots.* One read before the end and shown after it revives an ended run
   in the tab (`use-stream-run.ts:321`).
6. *Failing I/O.* `JobLog()` raising in `start_job` leaves the job in the live
   maps for ever, so that `acquire_lease` keeps refusing; a log line raising in
   the `except` block leaves the row running; the line after the completed write
   turns the row to failed.
7. *Job watch.* A job that failed or was cancelled without a result never closes
   the watch (`api.ts:627`); the row of an orphaned job may show "running" again
   after the stream said "failed"; the last log line after the outcome may be missed.
   An outcome that only the cancel route told the page is taken back by
   "reconnecting" (`api.ts:597` sends the status the watch was told last, and
   `use-job-watch.ts:101-104` shows it) until the stream or the row says it again;
   `SettledStays` names that case. A cancel's answer that arrives when the page
   follows another job is shown there (`use-job-watch.ts:118`); the model has a
   page per job and sees it only after a clear.
8. *Summary.* An engine whose one-node command has no `--tp`
   (`engines/tensorfold.py:57`) looks the same alone and with ranks: a left-over
   rank on a worker is painted as its worker, against `cluster.py:764`
   (`SummaryIsTrue` with `SaysTp = {}`). A docker inspect that does not answer
   does the same to every engine.
9. *Serving.* With `stop_first` false (a field of the API that the page never sets
   to false, `routes.py:95`) two serves of different engines or shapes share a node,
   and ranks started next to a serve of the same engine may be reported ready by the
   old server's answer; `OneModelPerNode` and `ReadyIsOwn` leave these requests out.
   A `docker run` that times out may start its container after the
   clean-up; a state file a racing stop removes is not written again; `stop_all`
   reports success when `docker ps` fails (`serve.py:611`). A download cannot be
   cancelled; the cancel is seen at its end.
10. *Sampler.* A container replaced within one tick by one of its name keeps the
    old version for good (`StatusSampler` with `QuickSwap`); a slow tick that
    publishes while a moved fast tick waits shows the new URL over the old probe.
11. *Tab.* A tab that returns while `connect()` waits for a refresh opens two
    streams; a late refresh after a 401 clears the token banner with nothing
    running; if the sampler stops, a new subscriber gets no first event.
12. *Usage.* Overlapping passes would count a counter twice, and so does an
    engine that states no start time under another URL.
13. *Planning.* The page keeps a tensor-parallel size from before
    (`page.tsx:339`); the weight gate passes when the Hub does not answer;
    utilisation is rounded by up to half a percent of memory; on nodes above
    150 GiB the cap of 0.90 does not hold the window it sized, and on nodes
    below 30 GiB its floor of 0.50 reaches into the reserve; the guards on MoE
    backends look in the local cache only, so a first Start judges blind; an
    answer that arrives after an engine switch fills the other engine's form;
    Stop under way does not disable Start.
14. *Lab.* A first publish that is cut leaves a slug no run names, which neither
    unpublish nor the next site build removes (`LAB_SITE.md:82`); a cut write of
    `meta.json` makes the run vanish from the gallery while its share stays.

## 6. Not modelled, and why

- *Stream arithmetic*: statistics over floating-point samples, prompts, parsing:
  pure functions with unit tests of their own.
- *Proxies and application, development scripts*: wiring, settings, pass-through.
- *Engine adapters*: which engine takes which form is in `ServePage`; the text of
  command lines and of metrics is not. Image tags that float, GGUF without
  geometry, user overlays, KV dtypes that prose or
  `config.json` suggests, parsers, environment and extra flags are left out of
  the recipes, as is memory that differs between nodes.
- *Web interface*: the Server page, the job watch, the stream view and the live
  status are modelled; the other pages render what these serve.
- *Cluster client*: peer threads, discovery and fabric links. In `ClusterView`
  all nodes are listed at one instant; what a probe misses between two nodes
  is gone at the next tick, as nothing is kept.
- *Sampler*: the peer streams, the telemetry overlay, the wait for the first
  sample, two publishes in one millisecond.
- *Tab*: history of the charts, the unreachable notice. The hub's linger is
  part of `HubWindsDown`.
- *Lab*: allow-lists and headers of the file routes, filters and comparison of
  the gallery, artifacts edited on disk.
- *Serving*: containers launched by hand (`_stoppable`), downloads in detail.
- *Schema and settings* of `db.py`: single statements.
