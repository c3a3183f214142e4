----------------------------- MODULE ServeProofs -----------------------------
(***************************************************************************)
(* For any number of serves, stops, nodes and engines:                     *)
(*                                                                         *)
(* That models never share a node and that a serve is told ready only by   *)
(* its own server, as long as no docker or ssh command fails and the       *)
(* process goes on.  Serves work one at a time; while one runs stop_all,   *)
(* every container that still runs is on a node it has yet to list or on   *)
(* its list of removals (Swept); so that when it launches only its own     *)
(* containers run, and only its own can answer on the port.                *)
(*                                                                         *)
(* That a load which ended holds no memory and a stop reaches every load   *)
(* that was accepted before it, whatever fails, for the jobs no failure    *)
(* touched: a stage tells which containers of its serve may still run      *)
(* (Held), and what a stop found is on its way to its end (Settled).       *)
(*                                                                         *)
(* That the cluster summary is true of the containers there are, whatever  *)
(* fails: a serve that launches its ranks has removed those of the serves  *)
(* before it, except what docker still owes to one that gave up (Owned).   *)
(***************************************************************************)
EXTENDS ClusterView, FiniteSetTheorems, TLAPS

\* A serve that has been through its stop_all.
Alone == {"clear", "run"} \cup Launching \cup Waiting \cup Cleaning

\* What stop_all has yet to do about container b when thread t runs it: list its
\* node, or remove it.
Listed(t, b) ==
  /\ stage[t] = "remote" =>
       b.node = Host \/ b.node \in visit[t] \/ <<b.node, b.name>> \in todo[t]
  /\ stage[t] = "host" => <<b.node, b.name>> \in todo[t]

Swept(j) ==
  \A b \in box : Up(b) => Listed(j, b) /\ (stage[j] \in Alone /\ ask[j].stop_first => b.owner = j)

\* docker refused a single node's container unless its port was free.
PortOwn(j) ==
  stage[j] \in Waiting /\ ~ask[j].multi =>
    \A b \in box : b.node = Host /\ b.name[1] = ask[j].engine /\ Up(b) => b.owner = j

OneAtATime == \A i, j \in Serve : Working(i) /\ Working(j) => i = j
OneOwner ==
  \A b, c \in box : Up(b) /\ Up(c) /\ b.owner # c.owner
    => ~(ask[b.owner].stop_first /\ ask[c.owner].stop_first)

Unshared ==
  troubles = 0 => late = {} /\ OneAtATime /\ OneOwner /\ \A j \in Serve : Swept(j) /\ PortOwn(j)

Named == \A b \in box \cup late : b.name = NameOf(b.owner)
-----------------------------------------------------------------------------
USE ServeAssumption DEF LaunchOf, luck, jobVars, threadVars, dockerVars, Goto, Thread, Node, Name, Kind

\* The types the theorems need.
Threads ==
  /\ stage \in [Thread -> Stage]
  /\ todo \in [Thread -> SUBSET (Node \X Name)]
  /\ visit \in [Thread -> SUBSET Worker]
  /\ end \in [Serve -> Outcome]
  /\ file \in Serve \cup {NoServe}
Boxes ==
  /\ ask \in [Serve -> [engine : Engine, multi : BOOLEAN, stop_first : BOOLEAN]]
  /\ box \subseteq Box /\ late \subseteq Box
  /\ troubles \in Nat
ServeTyped == Threads /\ Boxes

LEMMA ServeInit == Init => ServeTyped /\ Unshared /\ Named
<1>. SUFFICES ASSUME Init PROVE ServeTyped /\ Unshared /\ Named
  OBVIOUS
<1>1. ServeTyped
  BY AsksAssumption DEF Init, ServeTyped, Threads, Boxes, Stage, Outcome, Request
<1>2. Unshared
  BY DEF Init, Unshared, OneAtATime, OneOwner, Swept, PortOwn, Listed, Working, Live
<1>3. Named
  BY DEF Init, Named
<1>. QED
  BY <1>1, <1>2, <1>3

LEMMA NamesTyped ==
  ASSUME ServeTyped
  PROVE  /\ \A j \in Serve : NameOf(j) \in Name /\ RanksOf(j) \subseteq Node \X Name
         /\ \A n \in Node : NamesOn(n) \subseteq Node \X Name
BY DEF ServeTyped, Boxes, NameOf, RanksOf, NamesOn, Box

LEMMA StopTypes ==
  ASSUME ServeTyped, NEW t \in Thread, StopAll(t)
  PROVE  Threads'
<1>. USE NamesTyped DEF ServeTyped, Threads, Stage, Stopping, Launching, Preparing, Over, Outcome
<1>1. CASE ReadState(t)
  BY <1>1 DEF ReadState
<1>2. CASE RemoveRank(t) \/ RemoveHead(t) \/ RemoveRemote(t) \/ RemoveLocal(t)
  BY <1>2 DEF RemoveRank, RemoveHead, RemoveRemote, RemoveLocal, Remove, Skip
<1>3. CASE HeadHangs(t) \/ Unlink(t) \/ LocalHangs(t) \/ StopReturns(t)
  BY <1>3 DEF HeadHangs, Unlink, LocalHangs, StopReturns
<1>4. ASSUME NEW w \in Worker, ListRemote(t, w) PROVE Threads'
  BY <1>4 DEF ListRemote
<1>5. CASE ListHost(t)
  BY <1>5 DEF ListHost
<1>. QED
  BY <1>1, <1>2, <1>3, <1>4, <1>5 DEF StopAll

LEMMA UndoTypes ==
  ASSUME ServeTyped, NEW j \in Serve, NEW outcome \in Outcome, Undo(j, outcome) \/ Abandon(j, outcome),
         file' = file
  PROVE  Threads'
BY SMTT(30), NamesTyped DEF ServeTyped, Threads, Stage, Cleaning, Undo, Abandon

LEMMA ServeModelTypes ==
  ASSUME ServeTyped, NEW j \in Serve, ServeModel(j)
  PROVE  Threads'
<1>. USE DEF ServeTyped, Threads, Stage, Stopping, Launching, Waiting, Cleaning, Preparing, Over, Outcome
<1>1. CASE GetReady(j) \/ StopFirst(j)
  BY <1>1 DEF GetReady, Work, CacheNotWritable, DownloadFails, Downloaded, Refuse, StartPulls,
     EnsureImage, ImagesThere, PullFails, PullCancelled, EndPull, CancelBefore, Prepare, StopFirst
<1>2. CASE Launch(j)
  <2>1. CASE Clear(j) \/ ClearHangs(j) \/ RunSolo(j)
    BY <2>1 DEF Clear, ClearHangs, RunSolo, RunStarts, RunRefused, RunHangs
  <2>2. CASE Record(j) \/ RemoveStale(j) \/ StaleGone(j)
    BY <2>2, NamesTyped DEF Record, RemoveStale, StaleGone, Remove
  <2>3. CASE StaleHangs(j)
    BY <2>3, UndoTypes DEF StaleHangs
  <2>4. ASSUME NEW w \in Worker, RunWorker(j, w) PROVE Threads'
    BY <2>4, UndoTypes DEF RunWorker, RunStarts, RunRefused, RunHangs
  <2>5. CASE RunHead(j)
    BY <2>5, UndoTypes DEF RunHead, RunStarts, RunRefused, RunHangs
  <2>. QED
    BY <1>2, <2>1, <2>2, <2>3, <2>4, <2>5 DEF Launch
<1>3. CASE WaitReady(j)
  <2>1. CASE WaitCancelled(j) \/ WaitTimesOut(j)
    BY <2>1, UndoTypes DEF WaitCancelled, WaitTimesOut
  <2>2. CASE InspectDead(j)
    BY <2>2, UndoTypes DEF InspectDead
  <2>3. CASE WaitOn(j) \/ InspectAlive(j) \/ Ready(j) \/ PollAgain(j)
    BY <2>3 DEF WaitOn, InspectAlive, Ready, PollAgain
  <2>. QED
    BY <1>3, <2>1, <2>2, <2>3 DEF WaitReady
<1>4. CASE CleanUp(j)
  BY <1>4 DEF CleanUp, UndoWorker, UndoWorkersDone, UndoHead, UndoHeadHangs, Forget, Remove, Skip
<1>. QED
  BY <1>1, <1>2, <1>3, <1>4 DEF ServeModel

LEMMA ThreadTypes ==
  ASSUME ServeTyped, [Next]_vars
  PROVE  Threads'
<1>. USE DEF ServeTyped, Threads, Stage, Preparing, Stopping, Over, Outcome
<1>1. ASSUME NEW j \in Serve, AcceptServe(j) \/ Cancel(j) \/ Begin(j) PROVE Threads'
  BY <1>1 DEF AcceptServe, Cancel, Begin
<1>2. ASSUME NEW k \in Stop, AcceptStop(k) \/ BeginStop(k) PROVE Threads'
  BY <1>2 DEF AcceptStop, BeginStop
<1>3. CASE Docker
  BY <1>3 DEF Docker, Load, Exit, StartLate
<1>4. CASE Crash
  BY <1>4 DEF Crash
<1>5. CASE UNCHANGED vars
  BY <1>5 DEF vars
<1>. QED
  BY <1>1, <1>2, <1>3, <1>4, <1>5, StopTypes, ServeModelTypes DEF Next
-----------------------------------------------------------------------------
(* What a step does to the containers.                                     *)

Counts == ask' = ask /\ troubles' \in {troubles, troubles + 1}
Fewer == box' \subseteq box /\ late' = late /\ Counts

LEMMA StopBoxes ==
  ASSUME NEW t \in Thread, StopAll(t)
  PROVE  Fewer
<1>. USE DEF Fewer, Counts, Trouble
<1>1. CASE RemoveRank(t) \/ RemoveHead(t) \/ RemoveRemote(t) \/ RemoveLocal(t)
  BY <1>1 DEF RemoveRank, RemoveHead, RemoveRemote, RemoveLocal, Remove, Skip
<1>2. CASE ReadState(t) \/ HeadHangs(t) \/ Unlink(t) \/ LocalHangs(t) \/ StopReturns(t) \/ ListHost(t)
  BY <1>2 DEF ReadState, HeadHangs, Unlink, LocalHangs, StopReturns, ListHost
<1>3. ASSUME NEW w \in Worker, ListRemote(t, w) PROVE Fewer
  BY <1>3 DEF ListRemote
<1>. QED
  BY <1>1, <1>2, <1>3 DEF StopAll

\* docker run: nothing but the container it is for, and on time only if it is told so.
Runs(j, node) ==
  /\ Counts /\ late' \subseteq late \cup {NewBox(j, node, "loading")}
  /\ box' \subseteq box \cup {NewBox(j, node, "loading"), NewBox(j, node, "exited")}
  /\ troubles' = troubles => late' = late

LEMMA RunBoxes ==
  ASSUME NEW j \in Serve, NEW node \in Node, ServeTyped, ask' = ask,
         RunStarts(j, node) \/ RunRefused(j, node) \/ RunHangs(j, node)
  PROVE  Runs(j, node)
BY DEF ServeTyped, Boxes, RunStarts, RunRefused, RunHangs, Runs, Counts, Trouble

LEMMA ServeModelBoxes ==
  ASSUME ServeTyped, NEW j \in Serve, ServeModel(j)
  PROVE  \/ Fewer
         \/ stage[j] = "run" /\ Runs(j, Host)
         \/ stage[j] = "workers" /\ \E node \in Node : Runs(j, node)
<1>. USE DEF Fewer, Counts, Trouble
<1>1. CASE GetReady(j) \/ StopFirst(j)
  BY <1>1 DEF GetReady, Work, CacheNotWritable, DownloadFails, Downloaded, Refuse, StartPulls,
     EnsureImage, ImagesThere, PullFails, PullCancelled, EndPull, CancelBefore, Prepare, StopFirst
<1>2. CASE Launch(j)
  <2>1. CASE Clear(j) \/ ClearHangs(j) \/ Record(j) \/ RemoveStale(j) \/ StaleGone(j) \/ StaleHangs(j)
    BY <2>1 DEF Clear, ClearHangs, Record, RemoveStale, StaleGone, StaleHangs, Remove, Undo
  <2>2. CASE RunSolo(j)
    <3>1. stage[j] = "run" /\ ask' = ask /\ (RunStarts(j, Host) \/ RunRefused(j, Host) \/ RunHangs(j, Host))
      BY <2>2 DEF RunSolo
    <3>. QED
      BY <3>1, RunBoxes
  <2>3. ASSUME NEW w \in Worker, RunWorker(j, w)
        PROVE  stage[j] = "workers" /\ Runs(j, w)
    <3>1. stage[j] = "workers" /\ ask' = ask /\ (RunStarts(j, w) \/ RunRefused(j, w) \/ RunHangs(j, w))
      BY <2>3 DEF RunWorker, Undo
    <3>. QED
      BY <3>1, RunBoxes
  <2>4. CASE RunHead(j)
    <3>1. stage[j] = "workers" /\ ask' = ask /\ (RunStarts(j, Host) \/ RunRefused(j, Host) \/ RunHangs(j, Host))
      BY <2>4 DEF RunHead, Undo
    <3>. QED
      BY <3>1, RunBoxes
  <2>. QED
    BY <1>2, <2>1, <2>2, <2>3, <2>4 DEF Launch
<1>3. CASE WaitReady(j)
  BY <1>3 DEF WaitReady, WaitCancelled, WaitOn, InspectDead, InspectAlive, Ready, PollAgain, WaitTimesOut,
     Abandon, Undo
<1>4. CASE CleanUp(j)
  BY <1>4 DEF CleanUp, UndoWorker, UndoWorkersDone, UndoHead, UndoHeadHangs, Forget, Remove, Skip
<1>. QED
  BY <1>1, <1>2, <1>3, <1>4 DEF ServeModel

LEMMA FewerKeeps ==
  ASSUME ServeTyped, Named, Fewer
  PROVE  Boxes' /\ Named'
BY DEF ServeTyped, Boxes, Named, Fewer, Counts, NameOf

LEMMA RunsKeeps ==
  ASSUME ServeTyped, Named, NEW j \in Serve, NEW node \in Node, Runs(j, node)
  PROVE  Boxes' /\ Named'
<1>1. NameOf(j) \in Name /\ \A b \in box' \cup late' : NameOf(b.owner)' = NameOf(b.owner)
  BY NamesTyped DEF Runs, Counts, NameOf
<1>2. \A x \in {"loading", "exited"} : NewBox(j, node, x) \in Box /\ NewBox(j, node, x).name = NameOf(NewBox(j, node, x).owner)
  BY <1>1 DEF NewBox, Box
<1>. QED
  BY <1>1, <1>2 DEF ServeTyped, Boxes, Named, Runs, Counts

LEMMA BoxStep ==
  ASSUME ServeTyped, Named, [Next]_vars
  PROVE  Boxes' /\ Named' /\ (troubles' = 0 => troubles = 0)
<1>1. ASSUME NEW t \in Thread, StopAll(t) PROVE Fewer
  BY <1>1, StopBoxes
<1>2. ASSUME NEW j \in Serve, AcceptServe(j) \/ Cancel(j) \/ Begin(j) PROVE Fewer
  BY <1>2 DEF AcceptServe, Cancel, Begin, Fewer, Counts
<1>3. ASSUME NEW k \in Stop, AcceptStop(k) \/ BeginStop(k) PROVE Fewer
  BY <1>3 DEF AcceptStop, BeginStop, Fewer, Counts
<1>4. CASE Crash \/ UNCHANGED vars
  <2>1. Fewer
    BY <1>4 DEF Crash, Trouble, vars, Fewer, Counts
  <2>. QED
    BY <2>1, FewerKeeps DEF ServeTyped, Boxes, Fewer, Counts
<1>5. ASSUME NEW b \in box \cup late, Load(b) \/ Exit(b) \/ StartLate(b)
      PROVE  Boxes' /\ Named' /\ troubles' = troubles
  <2>1. \A st \in {"ready", "exited"} : b \in Box =>
          /\ [b EXCEPT !.state = st] \in Box /\ [b EXCEPT !.state = st].name = b.name
          /\ [b EXCEPT !.state = st].owner = b.owner
    BY DEF Box
  <2>2. ask' = ask /\ troubles' = troubles
    BY <1>5 DEF Load, Exit, StartLate
  <2>3. CASE Load(b)
    BY ZenonT(40), <2>1, <2>2, <2>3 DEF Load, ServeTyped, Boxes, Named, NameOf
  <2>4. CASE Exit(b)
    BY <2>1, <2>2, <2>4 DEF Exit, ServeTyped, Boxes, Named, NameOf
  <2>5. CASE StartLate(b)
    BY <2>2, <2>5 DEF StartLate, ServeTyped, Boxes, Named, NameOf
  <2>. QED
    BY <1>5, <2>3, <2>4, <2>5
<1>6. Fewer => (troubles' = 0 => troubles = 0)
  BY DEF ServeTyped, Boxes, Fewer, Counts
<1>7. ASSUME NEW j \in Serve, NEW node \in Node, Runs(j, node)
      PROVE  Boxes' /\ Named' /\ (troubles' = 0 => troubles = 0)
  BY <1>7, RunsKeeps DEF ServeTyped, Boxes, Runs, Counts
<1>8. ASSUME NEW j \in Serve, ServeModel(j) PROVE Boxes' /\ Named' /\ (troubles' = 0 => troubles = 0)
  BY <1>6, <1>7, <1>8, ServeModelBoxes, FewerKeeps
<1>. QED
  BY <1>1, <1>2, <1>3, <1>4, <1>5, <1>6, <1>8, FewerKeeps DEF Next, Docker
-----------------------------------------------------------------------------
(* What goes wrong marks every job that is under way.                      *)

Luck == UNCHANGED luck \/ \E f \in Faults : Trouble(f)

LEMMA LuckStep == ASSUME [Next]_vars PROVE Luck
<1>. USE DEF Luck
<1>1. ASSUME NEW j \in Serve, GetReady(j) \/ StopFirst(j) PROVE Luck
  BY <1>1 DEF GetReady, Work, CacheNotWritable, DownloadFails, Downloaded, Refuse, StartPulls,
     EnsureImage, ImagesThere, PullFails, PullCancelled, EndPull, CancelBefore, Prepare, StopFirst
<1>2. ASSUME NEW j \in Serve, Launch(j) PROVE Luck
  BY <1>2 DEF Launch, Clear, ClearHangs, RunSolo, RunStarts, RunRefused, RunHangs, Record, RemoveStale,
     StaleHangs, StaleGone, RunWorker, RunHead, Remove, Trouble
<1>3. ASSUME NEW j \in Serve, WaitReady(j) \/ CleanUp(j) PROVE Luck
  BY <1>3 DEF WaitReady, WaitCancelled, WaitOn, InspectDead, InspectAlive, Ready, PollAgain, WaitTimesOut,
     CleanUp, UndoWorker, UndoWorkersDone, UndoHead, UndoHeadHangs, Forget, Remove, Skip, Trouble
<1>4. ASSUME NEW t \in Thread, StopAll(t) PROVE Luck
  BY <1>4 DEF StopAll, ReadState, RemoveRank, RemoveHead, HeadHangs, Unlink, ListRemote, RemoveRemote,
     ListHost, RemoveLocal, LocalHangs, StopReturns, Remove, Skip, Trouble
<1>5. ASSUME NEW j \in Serve, AcceptServe(j) \/ Cancel(j) \/ Begin(j) PROVE Luck
  BY <1>5 DEF AcceptServe, Cancel, Begin
<1>6. ASSUME NEW k \in Stop, AcceptStop(k) \/ BeginStop(k) PROVE Luck
  BY <1>6 DEF AcceptStop, BeginStop
<1>7. CASE Docker
  BY <1>7 DEF Docker, Load, Exit, StartLate
<1>8. CASE Crash \/ UNCHANGED vars
  BY <1>8 DEF Crash, Trouble, vars
<1>. QED
  BY <1>1, <1>2, <1>3, <1>4, <1>5, <1>6, <1>7, <1>8 DEF Next, ServeModel

-----------------------------------------------------------------------------
(* Who moves, and where.                                                   *)

Alike(t) == \A u \in Thread \ {t} : stage'[u] = stage[u] /\ todo'[u] = todo[u] /\ visit'[u] = visit[u]

\* A step of a thread that starts no container.
LEMMA OneMoves ==
  ASSUME ServeTyped, ServeTyped', Unshared, troubles = 0, Fewer, NEW t \in Thread, Alike(t),
         t \in Serve /\ Working(t)' => Working(t) \/ \A i \in Serve : ~Working(i),
         t \in Serve => Swept(t)' /\ PortOwn(t)'
  PROVE  Unshared'
<1>1. late' = {} /\ OneOwner'
  BY DEF Unshared, Fewer, Counts, OneOwner
<1>2. ASSUME NEW i \in Serve, i # t PROVE (Working(i)' <=> Working(i)) /\ Swept(i)' /\ PortOwn(i)'
  <2>1. stage'[i] = stage[i] /\ todo'[i] = todo[i] /\ visit'[i] = visit[i]
    BY <1>2 DEF Alike
  <2>. QED
    BY <2>1 DEF Working, Live, Swept, PortOwn, Listed, Unshared, Fewer, Counts
<1>3. OneAtATime'
  BY <1>2 DEF Unshared, OneAtATime
<1>4. \A i \in Serve : Swept(i)' /\ PortOwn(i)'
  BY <1>2
<1>. QED
  BY <1>1, <1>3, <1>4 DEF Unshared

\* A step of a serve that launches.
LEMMA OneRuns ==
  ASSUME ServeTyped, ServeTyped', Unshared, troubles = 0, troubles' = 0, NEW j \in Serve, Alike(j),
         stage[j] \in {"run", "workers"}, NEW node \in Node, Runs(j, node),
         stage'[j] \notin {"remote", "host"},
         stage'[j] \in Waiting => ask[j].multi \/ ~PortTaken(j)
  PROVE  Unshared'
<1>1. late' = {} /\ ask' = ask
  BY DEF Unshared, Runs, Counts
<1>2. ask[j].stop_first => \A b \in box : Up(b) => b.owner = j
  BY DEF Unshared, Swept, Listed, Alone, Launching
<1>3. \A x \in {"loading", "exited"} : NewBox(j, node, x).owner = j
  BY DEF NewBox
<1>4. \A b \in box' : b \in box \/ b.owner = j
  BY <1>3 DEF Runs
<1>5. Working(j)
  BY DEF Working, Live, Over, Outcome
<1>6. ASSUME NEW i \in Serve, i # j PROVE ~Working(i)' /\ Swept(i)' /\ PortOwn(i)'
  <2>1. stage'[i] = stage[i] /\ ~Working(i)
    BY <1>5, <1>6 DEF Alike, Unshared, OneAtATime
  <2>. QED
    BY <2>1 DEF Working, Live, Over, Outcome, Swept, PortOwn, Listed, Alone, Launching, Waiting, Cleaning
<1>7. Swept(j)'
  BY <1>1, <1>2, <1>4 DEF Swept, Listed
<1>8. PortOwn(j)'
  BY <1>1, <1>4 DEF PortOwn, PortTaken
<1>9. \A i \in Serve : Swept(i)' /\ PortOwn(i)'
  BY <1>6, <1>7, <1>8
<1>10. OneAtATime'
  BY <1>6 DEF OneAtATime
<1>11. OneOwner'
  BY <1>1, <1>2, <1>4 DEF Unshared, OneOwner
<1>. QED
  BY <1>1, <1>9, <1>10, <1>11 DEF Unshared

LEMMA ServeModelMoves ==
  ASSUME ServeTyped, NEW j \in Serve, ServeModel(j)
  PROVE  /\ Alike(j) /\ Working(j)
         /\ stage'[j] \notin {"remote", "host"}
         /\ stage'[j] \in Alone => stage[j] \in Alone \/ ~ask[j].stop_first
         /\ stage'[j] \in Waiting => \/ stage[j] \in Waiting
                                     \/ stage[j] \in {"run", "workers"} /\ (ask[j].multi \/ ~PortTaken(j))
<1>. USE DEF ServeTyped, Threads, Alike, Working, Live, Over, Outcome, Alone, Launching, Waiting, Cleaning
<1>1. CASE GetReady(j) \/ StopFirst(j)
  BY <1>1 DEF GetReady, Work, CacheNotWritable, DownloadFails, Downloaded, Refuse, StartPulls,
     EnsureImage, ImagesThere, PullFails, PullCancelled, EndPull, CancelBefore, Prepare, StopFirst
<1>2. CASE Launch(j)
  BY <1>2 DEF Launch, Clear, ClearHangs, RunSolo, RunStarts, RunRefused, RunHangs, Record, RemoveStale,
     StaleHangs, StaleGone, RunWorker, RunHead, Remove, Undo
<1>3. CASE WaitReady(j)
  BY <1>3 DEF WaitReady, WaitCancelled, WaitOn, InspectDead, InspectAlive, Ready, PollAgain, WaitTimesOut,
     Abandon, Undo
<1>4. CASE CleanUp(j)
  BY <1>4 DEF CleanUp, UndoWorker, UndoWorkersDone, UndoHead, UndoHeadHangs, Forget, Remove, Skip
<1>. QED
  BY <1>1, <1>2, <1>3, <1>4 DEF ServeModel

LEMMA StopMoves ==
  ASSUME ServeTyped, NEW t \in Thread, StopAll(t)
  PROVE  Alike(t) /\ (t \in Serve => Working(t))
<1>. USE DEF ServeTyped, Threads, Alike, Working, Live, Over, Outcome
<1>1. CASE RemoveRank(t) \/ RemoveHead(t) \/ RemoveRemote(t) \/ RemoveLocal(t)
  BY <1>1 DEF RemoveRank, RemoveHead, RemoveRemote, RemoveLocal, Remove, Skip
<1>2. CASE ReadState(t) \/ HeadHangs(t) \/ Unlink(t) \/ LocalHangs(t) \/ StopReturns(t) \/ ListHost(t)
  BY <1>2 DEF ReadState, HeadHangs, Unlink, LocalHangs, StopReturns, ListHost
<1>3. ASSUME NEW w \in Worker, ListRemote(t, w) PROVE Alike(t) /\ (t \in Serve => Working(t))
  BY <1>3 DEF ListRemote
<1>. QED
  BY <1>1, <1>2, <1>3 DEF StopAll

\* Whoever runs stop_all, a container that it has not removed is on its list or on a
\* node that it has yet to list; so when it returns it has removed them all.
LEMMA StopLists ==
  ASSUME ServeTyped, NEW t \in Thread, StopAll(t), UNCHANGED luck,
         NEW b \in box, b \in box', Listed(t, b)
  PROVE  Listed(t, b)' /\ stage'[t] \notin Alone \cup {"stopped"}
<1>. USE DEF ServeTyped, Threads, Boxes, Listed, Alone, Launching, Waiting, Cleaning
<1>1. b.node \in Node /\ b.name \in Name /\ <<b.node, b.name>> \in NamesOn(b.node)
  BY DEF Box, NamesOn
<1>2. CASE ReadState(t) \/ Unlink(t)
  <2>1. \/ stage'[t] = "remote" /\ visit'[t] = Worker
        \/ stage'[t] = "ranks"
    BY <1>2 DEF ReadState, Unlink
  <2>. QED
    BY <1>1, <2>1
<1>3. CASE RemoveRank(t) \/ RemoveHead(t)
  <2>1. stage'[t] \in {"ranks", "unlink"}
    BY <1>3 DEF RemoveRank, RemoveHead
  <2>. QED
    BY <2>1
<1>4. ASSUME NEW w \in Worker, ListRemote(t, w)
      PROVE  Listed(t, b)' /\ stage'[t] \notin Alone \cup {"stopped"}
  <2>1. /\ stage[t] = "remote" /\ stage' = stage /\ todo[t] = {}
        /\ visit'[t] = visit[t] \ {w}
    BY <1>4 DEF ListRemote
  <2>2. todo'[t] = NamesOn(w)
    BY <1>4 DEF ListRemote, Trouble
  <2>. QED
    BY <1>1, <2>1, <2>2
<1>5. CASE RemoveRemote(t) \/ RemoveLocal(t)
  <2>1. PICK x \in todo[t] :
          /\ stage[t] \in {"remote", "host"} /\ stage' = stage /\ visit' = visit
          /\ todo'[t] = todo[t] \ {x} /\ box' = box \ At(x[1], x[2])
    BY <1>5 DEF RemoveRemote, RemoveLocal, Remove, Skip, Trouble
  <2>2. <<b.node, b.name>> # x
    BY <2>1 DEF At
  <2>. QED
    BY <2>1, <2>2
<1>6. CASE ListHost(t)
  <2>1. stage[t] = "remote" /\ stage'[t] = "host" /\ visit[t] = {} /\ todo[t] = {}
    BY <1>6 DEF ListHost
  <2>2. todo'[t] = NamesOn(Host)
    BY <1>6 DEF ListHost, Trouble
  <2>. QED
    BY <1>1, <2>1, <2>2
<1>7. ~StopReturns(t)
  BY DEF StopReturns
<1>8. ~HeadHangs(t) /\ ~LocalHangs(t)
  BY DEF HeadHangs, LocalHangs, Trouble
<1>. QED
  BY <1>2, <1>3, <1>4, <1>5, <1>6, <1>7, <1>8 DEF StopAll

\* While a serve stops what runs, each container is removed, on its list, or on a node
\* it has yet to list.
LEMMA StopSweeps ==
  ASSUME ServeTyped, NEW t \in Serve, StopAll(t), Swept(t), UNCHANGED luck
  PROVE  Swept(t)' /\ PortOwn(t)'
<1>1. ASSUME NEW b \in box', Up(b) PROVE Listed(t, b)' /\ stage'[t] \notin Alone
  BY <1>1, StopBoxes, StopLists DEF Fewer, Swept
<1>. QED
  BY <1>1 DEF Swept, PortOwn, Alone, Up

\* docker: a container changes its state.
LEMMA DockerKeeps ==
  ASSUME ServeTyped, ServeTyped', Unshared, Docker, troubles = 0
  PROVE  Unshared'
<1>1. PICK b \in box \cup late : Load(b) \/ Exit(b) \/ StartLate(b)
  BY DEF Docker
<1>2. late = {} /\ b \in box
  BY DEF Unshared
<1>3. PICK st \in {"ready", "exited"} :
        /\ box' = (box \ {b}) \cup {[b EXCEPT !.state = st]} /\ late' = late /\ Up(b)
        /\ UNCHANGED <<stage, todo, visit, ask>>
  BY <1>1, <1>2 DEF Load, Exit, StartLate, Up
<1>4. \A c \in box' : Up(c) => \E d \in box :
        Up(d) /\ c.node = d.node /\ c.name = d.name /\ c.owner = d.owner
  <2>1. LET c == [b EXCEPT !.state = st] IN b.node = c.node /\ b.name = c.name /\ b.owner = c.owner
    BY <1>2 DEF ServeTyped, Boxes, Box
  <2>. QED
    BY <1>2, <1>3, <2>1
<1>5. OneAtATime' /\ OneOwner' /\ \A j \in Serve : Swept(j)' /\ PortOwn(j)'
  BY <1>3, <1>4 DEF Unshared, OneAtATime, OneOwner, Working, Live, Swept, PortOwn, Listed
<1>. QED
  BY <1>2, <1>3, <1>5 DEF Unshared
-----------------------------------------------------------------------------
LEMMA UnsharedStep ==
  ASSUME ServeTyped, ServeTyped', Named, Unshared, [Next]_vars
  PROVE  Unshared'
<1>1. SUFFICES ASSUME troubles = 0, troubles' = 0 PROVE Unshared'
  BY BoxStep DEF Unshared
<1>2. ASSUME NEW j \in Serve, AcceptServe(j) \/ Cancel(j) \/ Begin(j) PROVE Unshared'
  <2>1. Fewer /\ UNCHANGED <<todo, visit, box, ask>>
    BY <1>2 DEF AcceptServe, Cancel, Begin, Fewer, Counts
  <2>2. /\ Alike(j) /\ (Working(j)' => Working(j) \/ \A i \in Serve : ~Working(i))
        /\ stage'[j] = stage[j] \/ stage'[j] \in {"queued", "cancelled", "called"}
    BY <1>2 DEF AcceptServe, Cancel, Begin, Alike, Working, Live, ServeTyped, Threads
  <2>3. Swept(j)' /\ PortOwn(j)'
    BY <1>1, <2>1, <2>2 DEF Unshared, Swept, PortOwn, Listed, Alone, Launching, Waiting, Cleaning
  <2>. QED
    BY <1>1, <2>1, <2>2, <2>3, OneMoves
<1>3. ASSUME NEW k \in Stop, AcceptStop(k) \/ BeginStop(k) PROVE Unshared'
  <2>1. Fewer /\ Alike(k) /\ k \notin Serve
    BY <1>3 DEF AcceptStop, BeginStop, Fewer, Counts, Alike, ServeTyped, Threads
  <2>. QED
    BY <1>1, <2>1, OneMoves
<1>4. ASSUME NEW t \in Thread, StopAll(t) PROVE Unshared'
  <2>1. UNCHANGED luck
    BY <1>1, LuckStep DEF Luck, Trouble
  <2>2. t \in Serve => Swept(t)' /\ PortOwn(t)'
    BY <1>1, <1>4, <2>1, StopSweeps DEF Unshared
  <2>. QED
    BY <1>1, <1>4, <2>2, StopBoxes, StopMoves, OneMoves
<1>5. ASSUME NEW j \in Serve, ServeModel(j) PROVE Unshared'
  <2>1. CASE Fewer /\ stage[j] \notin {"run", "workers"}
    <3>1. ask' = ask
      BY <2>1 DEF Fewer, Counts
    <3>2. Swept(j)'
      BY <1>1, <1>5, <2>1, <3>1, ServeModelMoves DEF Unshared, Swept, Listed, Fewer
    <3>3. PortOwn(j)'
      BY <1>1, <1>5, <2>1, <3>1, ServeModelMoves DEF Unshared, PortOwn, Fewer
    <3>. QED
      BY <1>1, <1>5, <2>1, <3>2, <3>3, ServeModelMoves, OneMoves
  <2>2. CASE stage[j] \in {"run", "workers"} /\ \E node \in Node : Runs(j, node)
    <3>1. /\ Alike(j) /\ stage'[j] \notin {"remote", "host"}
          /\ stage'[j] \in Waiting => ask[j].multi \/ ~PortTaken(j)
      BY <1>5, <2>2, ServeModelMoves DEF Waiting
    <3>. QED
      BY <1>1, <2>2, <3>1, OneRuns
  <2>3. Fewer => Runs(j, Host)
    BY DEF Fewer, Runs
  <2>. QED
    BY <1>5, <2>1, <2>2, <2>3, ServeModelBoxes
<1>6. CASE Docker
  BY <1>1, <1>6, DockerKeeps
<1>7. ~Crash
  BY <1>1 DEF Crash, Trouble
<1>8. CASE UNCHANGED vars
  BY <1>8 DEF vars, Unshared, OneAtATime, OneOwner, Working, Live, Swept, PortOwn, Listed
<1>. QED
  BY <1>2, <1>3, <1>4, <1>5, <1>6, <1>7, <1>8 DEF Next

LEMMA ServeInvariant == Spec => [](ServeTyped /\ Unshared /\ Named)
<1>1. ServeTyped /\ Unshared /\ Named /\ [Next]_vars => (ServeTyped /\ Unshared /\ Named)'
  BY ThreadTypes, BoxStep, UnsharedStep DEF ServeTyped
<1>. QED
  BY <1>1, ServeInit, PTL DEF Spec

\* While nothing fails, two serves with stop_first never run on one node, whatever
\* stops and whatever serves without stop_first run next to the launches (serve_model,
\* stop_all, _launch_multi_node).
THEOREM NodesNotShared == Spec => []OneModelPerNode
<1>1. Unshared => OneModelPerNode
  BY DEF Unshared, OneOwner, OneModelPerNode
<1>. QED
  BY <1>1, ServeInvariant, PTL

\* A serve is told ready by its wait alone.
LEMMA OnlyReady ==
  ASSUME ServeTyped, [Next]_vars, NEW j \in Serve, stage[j] = "asking", stage'[j] = "completed"
  PROVE  Ready(j)
<1>1. ASSUME NEW i \in Serve, ServeModel(i) PROVE Ready(j)
  <2>1. i = j
    BY <1>1, ServeModelMoves DEF Alike
  <2>2. ~GetReady(j) /\ ~StopFirst(j) /\ ~CleanUp(j)
    BY DEF GetReady, Work, CacheNotWritable, DownloadFails, Downloaded, Refuse, StartPulls,
       EnsureImage, ImagesThere, PullFails, PullCancelled, EndPull, CancelBefore, Prepare, StopFirst,
       CleanUp, UndoWorker, UndoWorkersDone, UndoHead, UndoHeadHangs, Forget
  <2>3. ~Launch(j)
    BY DEF Launch, Clear, ClearHangs, RunSolo, Record, RemoveStale, StaleHangs, StaleGone, RunWorker, RunHead
  <2>4. ~WaitCancelled(j) /\ ~WaitOn(j) /\ ~InspectDead(j) /\ ~InspectAlive(j)
    BY DEF WaitCancelled, WaitOn, InspectDead, InspectAlive
  <2>5. ~PollAgain(j) /\ ~WaitTimesOut(j)
    BY DEF PollAgain, WaitTimesOut, Abandon, Undo, ServeTyped, Threads
  <2>. QED
    BY <1>1, <2>1, <2>2, <2>3, <2>4, <2>5 DEF ServeModel, WaitReady
<1>2. ASSUME NEW t \in Thread, StopAll(t) PROVE FALSE
  <2>1. t = j
    BY <1>2, StopMoves DEF Alike
  <2>. QED
    BY <1>2, <2>1 DEF StopAll, ReadState, RemoveRank, RemoveHead, HeadHangs, Unlink, ListRemote, RemoveRemote,
       ListHost, RemoveLocal, LocalHangs, StopReturns
<1>3. ASSUME NEW i \in Serve, AcceptServe(i) \/ Cancel(i) \/ Begin(i) PROVE FALSE
  BY <1>3 DEF AcceptServe, Cancel, Begin, ServeTyped, Threads
<1>4. ASSUME NEW k \in Stop, AcceptStop(k) \/ BeginStop(k) PROVE FALSE
  BY <1>4 DEF AcceptStop, BeginStop, ServeTyped, Threads
<1>5. ~Docker /\ ~Crash /\ ~UNCHANGED vars
  BY DEF Docker, Load, Exit, StartLate, Crash, vars, ServeTyped, Threads
<1>. QED
  BY <1>1, <1>2, <1>3, <1>4, <1>5 DEF Next

\* While nothing fails, wait_ready is answered by the server it waits for: a port that
\* another server holds cannot pass for it, neither on one node nor, if what ran was
\* stopped first, across them.
THEOREM ReadyAlwaysOwn == Spec => ReadyIsOwn
<1>1. ASSUME ServeTyped, Unshared, Named, [Next]_vars, NEW j \in Serve,
             stage[j] = "asking", stage'[j] = "completed", troubles = 0,
             ask[j].stop_first \/ ~ask[j].multi
      PROVE  \E b \in HeadOf(j) : b.owner = j /\ b.state = "ready"
  <2>1. Ready(j)
    BY <1>1, OnlyReady
  <2>2. PICK b \in box : b.node = Host /\ b.name[1] = ask[j].engine /\ b.state = "ready"
    BY <2>1 DEF Ready, Answers
  <2>3. Up(b) /\ Swept(j) /\ PortOwn(j)
    BY <1>1, <2>2 DEF Up, Unshared
  <2>4. b.owner = j
    BY <1>1, <2>2, <2>3 DEF Swept, PortOwn, Alone, Waiting
  <2>5. b \in HeadOf(j)
    BY <2>2, <2>3, <2>4, <1>1 DEF Named, HeadOf, At
  <2>. QED
    BY <2>2, <2>4, <2>5
<1>2. ServeTyped /\ Unshared /\ Named /\ [Next]_vars =>
        [\A j \in Serve : /\ stage[j] = "asking" /\ stage'[j] = "completed" /\ troubles = 0
                          /\ ask[j].stop_first \/ ~ask[j].multi
           => \E b \in HeadOf(j) : b.owner = j /\ b.state = "ready"]_vars
  BY <1>1
<1>. QED
  BY <1>2, ServeInvariant, PTL DEF Spec, ReadyIsOwn
-----------------------------------------------------------------------------
(* When docker, ssh or the process fail: what nothing went wrong for       *)

\* Where a serve has containers that run: from docker run to the end of its own
\* clean-up, or for good once it is reported ready.
Holding == {"workers", "undo", "undoHead", "completed"} \cup Waiting

Held(j) ==
  \A b \in box : b.owner = j /\ Up(b) =>
    /\ stage[j] \in Holding
    /\ stage[j] = "undo" => b.node = Host \/ <<b.node, b.name>> \in todo[j]
    /\ stage[j] = "undoHead" \/ ~ask[j].multi => b.node = Host

\* The launch of one node and the launch of all are different paths.
Shaped(j) ==
  /\ stage[j] \in {"record", "stale", "workers", "undo", "forget"} => ask[j].multi
  /\ stage[j] \in {"clear", "run"} => ~ask[j].multi

\* docker owes no container to a serve that nothing went wrong for.
LateMarred == \A b \in late : b.owner \in marred

Tidy == LateMarred /\ \A j \in Serve \ marred : Shaped(j) /\ Held(j)

NotLate(j) == \A b \in late : b.owner # j

\* No container of j starts to run.
Keeps(j) ==
  \A b \in box' : b.owner = j /\ Up(b) =>
    \E c \in box : c.owner = j /\ c.node = b.node /\ c.name = b.name /\ Up(c)

\* Only j's own docker run, or docker itself coming to a late one, starts a container
\* of j.
LEMMA BoxesKeep ==
  ASSUME ServeTyped, [Next]_vars, NEW j \in Serve, NotLate(j)
  PROVE  \/ Keeps(j) /\ NotLate(j)'
         \/ ServeModel(j) /\ stage[j] \in {"run", "workers"}
<1>1. Fewer => Keeps(j) /\ NotLate(j)'
  BY DEF Fewer, Keeps, NotLate
<1>2. ASSUME NEW i \in Serve \ {j}, NEW node \in Node, Runs(i, node)
      PROVE  Keeps(j) /\ NotLate(j)'
  <2>1. \A x \in {"loading", "exited"} : NewBox(i, node, x).owner # j
    BY <1>2 DEF NewBox
  <2>. QED
    BY <1>2, <2>1 DEF Runs, Keeps, NotLate
<1>3. ASSUME NEW i \in Serve, ServeModel(i)
      PROVE  \/ Keeps(j) /\ NotLate(j)'
             \/ ServeModel(j) /\ stage[j] \in {"run", "workers"}
  BY <1>1, <1>2, <1>3, ServeModelBoxes
<1>4. ASSUME NEW t \in Thread, StopAll(t) PROVE Keeps(j) /\ NotLate(j)'
  BY <1>1, <1>4, StopBoxes
<1>5. ASSUME NEW i \in Serve, AcceptServe(i) \/ Cancel(i) \/ Begin(i) PROVE Keeps(j) /\ NotLate(j)'
  BY <1>5 DEF AcceptServe, Cancel, Begin, Keeps, NotLate
<1>6. ASSUME NEW k \in Stop, AcceptStop(k) \/ BeginStop(k) PROVE Keeps(j) /\ NotLate(j)'
  BY <1>6 DEF AcceptStop, BeginStop, Keeps, NotLate
<1>7. ASSUME NEW b \in box \cup late, Load(b) \/ Exit(b) \/ StartLate(b)
      PROVE  Keeps(j) /\ NotLate(j)'
  <2>1. b \in Box
    BY DEF ServeTyped, Boxes
  <2>2. \A x \in {"ready", "exited"} :
          LET c == [b EXCEPT !.state = x] IN b.node = c.node /\ b.name = c.name /\ b.owner = c.owner
    BY <2>1 DEF Box
  <2>3. CASE Load(b)
    BY <2>2, <2>3 DEF Load, Keeps, NotLate, Up
  <2>4. CASE Exit(b)
    BY <2>2, <2>4 DEF Exit, Keeps, NotLate, Up
  <2>5. CASE StartLate(b)
    BY <2>5 DEF StartLate, Keeps, NotLate
  <2>. QED
    BY <1>7, <2>3, <2>4, <2>5
<1>8. CASE Crash \/ UNCHANGED vars
  BY <1>8 DEF Crash, vars, Keeps, NotLate
<1>. QED
  BY <1>3, <1>4, <1>5, <1>6, <1>7, <1>8 DEF Next, Docker

LEMMA LateStep ==
  ASSUME ServeTyped, LateMarred, [Next]_vars
  PROVE  LateMarred'
<1>1. marred \subseteq marred'
  BY LuckStep DEF Luck, Trouble
<1>2. Fewer => LateMarred'
  BY <1>1 DEF Fewer, LateMarred
<1>3. ASSUME NEW j \in Serve, NEW node \in Node, stage[j] \in {"run", "workers"}, Runs(j, node)
      PROVE  LateMarred'
  <2>1. CASE late' = late
    BY <1>1, <2>1 DEF LateMarred
  <2>2. CASE troubles' # troubles
    <3>1. j \in marred'
      BY <1>3, <2>2, LuckStep DEF Luck, Trouble, Live, Over, Outcome
    <3>2. NewBox(j, node, "loading").owner = j
      BY DEF NewBox
    <3>. QED
      BY <1>1, <1>3, <3>1, <3>2 DEF Runs, LateMarred
  <2>. QED
    BY <1>3, <2>1, <2>2 DEF Runs
<1>4. ASSUME NEW j \in Serve, ServeModel(j) PROVE LateMarred'
  BY <1>2, <1>3, <1>4, ServeModelBoxes
<1>5. ASSUME NEW t \in Thread, StopAll(t) PROVE LateMarred'
  BY <1>2, <1>5, StopBoxes
<1>6. ASSUME late' \subseteq late PROVE LateMarred'
  BY <1>1, <1>6 DEF LateMarred
<1>7. \/ \E j \in Serve : ServeModel(j)
      \/ \E t \in Thread : StopAll(t)
      \/ late' \subseteq late
  BY DEF Next, AcceptServe, Cancel, Begin, AcceptStop, BeginStop, Docker, Load, Exit, StartLate, Crash, vars
<1>. QED
  BY <1>4, <1>5, <1>6, <1>7

\* A serve's own launch, wait and clean-up.
LEMMA OwnStep ==
  ASSUME ServeTyped, Named, NEW j \in Serve, ServeModel(j), Shaped(j), Held(j), j \notin marred'
  PROVE  Shaped(j)' /\ Held(j)'
<1>. USE DEF ServeTyped, Threads, Boxes, Shaped, Held, Holding, Waiting, Runs, Up
<1>0. /\ ask' = ask /\ Working(j) /\ ~(\E f \in Faults : Trouble(f))
      /\ NameOf(j) = <<ask[j].engine, IF ask[j].multi THEN "rank" ELSE "solo">>
      /\ \A b \in box : b.owner = j => b.name = NameOf(j) /\ b.node \in Node
  <2>1. ask' = ask /\ Working(j)
    BY ServeModelBoxes, ServeModelMoves DEF Fewer, Counts
  <2>2. ~(\E f \in Faults : Trouble(f))
    BY <2>1 DEF Trouble, Working
  <2>. QED
    BY <2>1, <2>2 DEF Named, NameOf, Box
<1>1. CASE GetReady(j) \/ StopFirst(j)
  <2>1. CASE GetReady(j)
    <3>1. box' = box /\ stage[j] \in Preparing /\ stage'[j] \in Preparing \cup {"failed", "cancelled"}
      BY <2>1 DEF GetReady, Work, CacheNotWritable, DownloadFails, Downloaded, Refuse, StartPulls,
         EnsureImage, ImagesThere, PullFails, PullCancelled, EndPull, CancelBefore, Prepare, Preparing
    <3>. QED
      BY <3>1 DEF Preparing
  <2>2. CASE StopFirst(j)
    <3>1. box' = box /\ stage[j] = "pulled" /\ (stage'[j] = "file" \/ stage'[j] = LaunchOf(j))
      BY <2>2 DEF StopFirst
    <3>2. \A b \in box : ~(b.owner = j /\ Up(b))
      BY <3>1
    <3>. QED
      BY <1>0, <3>1, <3>2
  <2>. QED
    BY <1>1, <2>1, <2>2
<1>2. CASE Launch(j)
  <2>1. CASE Clear(j) \/ Record(j) \/ RemoveStale(j) \/ StaleGone(j)
    BY <1>0, <2>1 DEF Clear, Record, RemoveStale, StaleGone, Remove
  <2>2. ~ClearHangs(j) /\ ~StaleHangs(j)
    BY <1>0 DEF ClearHangs, StaleHangs, Trouble
  <2>3. CASE RunSolo(j)
    BY <1>0, <2>3 DEF RunSolo, RunStarts, RunRefused, RunHangs, NewBox, Trouble
  <2>4. ASSUME NEW w \in Worker, RunWorker(j, w) PROVE Shaped(j)' /\ Held(j)'
    <3>1. ~RunHangs(j, w) /\ ask[j].multi /\ stage[j] = "workers"
      BY <1>0, <2>4 DEF RunHangs, Trouble, RunWorker
    <3>2. CASE RunStarts(j, w) /\ stage' = stage
      BY <1>0, <3>1, <3>2 DEF RunStarts, NewBox
    <3>3. CASE RunRefused(j, w) /\ Undo(j, "failed")
      <4>1. box' = box /\ stage'[j] = "undo" /\ todo'[j] = {x \in RanksOf(j) : x[1] # Host}
        BY <3>1, <3>3 DEF RunRefused, Undo
      <4>2. \A b \in box : b.owner = j /\ b.node # Host => <<b.node, b.name>> \in todo'[j]
        BY <1>0, <3>1, <4>1 DEF RanksOf
      <4>. QED
        BY <1>0, <3>1, <4>1, <4>2
    <3>. QED
      BY <2>4, <3>1, <3>2, <3>3 DEF RunWorker
  <2>5. CASE RunHead(j)
    <3>1. ~RunHangs(j, Host) /\ ask[j].multi
      BY <1>0, <2>5 DEF RunHangs, Trouble, RunHead
    <3>2. CASE RunStarts(j, Host) /\ Goto(j, "waiting") /\ UNCHANGED <<threadVars, jobVars>>
      BY <1>0, <3>1, <3>2 DEF RunStarts, NewBox
    <3>3. CASE RunRefused(j, Host) /\ Undo(j, "failed")
      <4>1. box' = box /\ stage'[j] = "undo" /\ todo'[j] = {x \in RanksOf(j) : x[1] # Host}
        BY <3>1, <3>3 DEF RunRefused, Undo
      <4>2. \A b \in box : b.owner = j /\ b.node # Host => <<b.node, b.name>> \in todo'[j]
        BY <1>0, <3>1, <4>1 DEF RanksOf
      <4>. QED
        BY <1>0, <3>1, <4>1, <4>2
    <3>. QED
      BY <2>5, <3>1, <3>2, <3>3 DEF RunHead
  <2>. QED
    BY <1>2, <2>1, <2>2, <2>3, <2>4, <2>5 DEF Launch
<1>3. CASE WaitReady(j)
  <2>1. box' = box /\ ask' = ask
    BY <1>3, <1>0 DEF WaitReady, WaitCancelled, WaitOn, InspectDead, InspectAlive, Ready, PollAgain, WaitTimesOut
  <2>2. CASE WaitCancelled(j) \/ WaitTimesOut(j)
    BY <1>0, <2>1, <2>2 DEF WaitCancelled, WaitTimesOut, Abandon, Undo, RanksOf
  <2>3. CASE InspectDead(j)
    BY <1>0, <2>1, <2>3 DEF InspectDead, Undo, RanksOf, HeadOf, At
  <2>4. CASE WaitOn(j) \/ InspectAlive(j) \/ Ready(j) \/ PollAgain(j)
    BY <2>1, <2>4 DEF WaitOn, InspectAlive, Ready, PollAgain
  <2>. QED
    BY <1>3, <2>2, <2>3, <2>4 DEF WaitReady
<1>4. CASE CleanUp(j)
  <2>1. CASE UndoWorker(j)
    BY <1>0, <2>1 DEF UndoWorker, Remove, Skip, Trouble, At
  <2>2. CASE UndoWorkersDone(j)
    BY <1>0, <2>2 DEF UndoWorkersDone
  <2>3. CASE UndoHead(j)
    BY <1>0, <2>3 DEF UndoHead, At, Outcome
  <2>4. ~UndoHeadHangs(j)
    BY <1>0 DEF UndoHeadHangs, Trouble
  <2>5. CASE Forget(j)
    BY <1>0, <2>5 DEF Forget, Outcome
  <2>. QED
    BY <1>4, <2>1, <2>2, <2>3, <2>4, <2>5 DEF CleanUp
<1>. QED
  BY <1>1, <1>2, <1>3, <1>4 DEF ServeModel

\* stop_all, run by the serve itself before its launch: it has no container yet.
LEMMA OwnStopStep ==
  ASSUME ServeTyped, NEW j \in Serve, StopAll(j), Shaped(j), Held(j)
  PROVE  Shaped(j)' /\ Held(j)'
<1>1. stage[j] \in Stopping /\ ask' = ask
  BY StopBoxes DEF StopAll, ReadState, RemoveRank, RemoveHead, HeadHangs, Unlink, ListRemote, RemoveRemote,
     ListHost, RemoveLocal, LocalHangs, StopReturns, Stopping, Fewer, Counts
<1>2. \A b \in box' : b.owner = j => ~Up(b)
  BY <1>1, StopBoxes DEF Fewer, Held, Holding, Waiting, Stopping
<1>3. Shaped(j)'
  BY <1>1 DEF StopAll, ReadState, RemoveRank, RemoveHead, HeadHangs, Unlink, ListRemote, RemoveRemote,
     ListHost, RemoveLocal, LocalHangs, StopReturns, Stopping, Shaped, ServeTyped, Threads
<1>. QED
  BY <1>2, <1>3 DEF Held

\* A step of anybody else.
LEMMA OtherStep ==
  ASSUME ServeTyped, NEW j \in Serve, Shaped(j), Held(j), Keeps(j), ask' = ask,
         stage'[j] = stage[j], todo'[j] = todo[j]
  PROVE  Shaped(j)' /\ Held(j)'
BY DEF Shaped, Held, Keeps

\* Who moves a thread.
Moves(t) ==
  \/ t \in Serve /\ (ServeModel(t) \/ AcceptServe(t) \/ Begin(t))
  \/ t \in Stop /\ (AcceptStop(t) \/ BeginStop(t))
  \/ StopAll(t)
  \/ Crash

LEMMA WhoMoves ==
  ASSUME ServeTyped, [Next]_vars, NEW t \in Thread, ~Moves(t)
  PROVE  stage'[t] = stage[t] /\ todo'[t] = todo[t] /\ visit'[t] = visit[t]
<1>. USE DEF ServeTyped, Threads, Moves, Alike
<1>1. ASSUME NEW j \in Serve, AcceptServe(j) \/ Cancel(j) \/ Begin(j) PROVE Alike(j) \/ j = t
  BY <1>1 DEF AcceptServe, Cancel, Begin
<1>2. ASSUME NEW k \in Stop, AcceptStop(k) \/ BeginStop(k) PROVE Alike(k) \/ k = t
  BY <1>2 DEF AcceptStop, BeginStop
<1>3. UNCHANGED vars \/ Docker => UNCHANGED <<stage, todo, visit>>
  BY DEF vars, Docker, Load, Exit, StartLate
<1>4. ASSUME NEW j \in Serve, Cancel(j) PROVE UNCHANGED <<stage, todo, visit>>
  BY <1>4 DEF Cancel
<1>. QED
  BY <1>1, <1>2, <1>3, <1>4, ServeModelMoves, StopMoves DEF Next

LEMMA AskStays == ASSUME ServeTyped, [Next]_vars PROVE ask' = ask
<1>1. \/ \E j \in Serve : ServeModel(j)
      \/ \E t \in Thread : StopAll(t)
      \/ ask' = ask
  BY DEF Next, AcceptServe, Cancel, Begin, AcceptStop, BeginStop, Docker, Load, Exit, StartLate, Crash, vars
<1>. QED
  BY <1>1, ServeModelBoxes, StopBoxes DEF Fewer, Runs, Counts

\* The executor's queue holds serves that wait, each once.
Lined ==
  /\ line \in Seq(Serve)
  /\ \A i \in 1..Len(line) :
       stage[line[i]] = "queued" /\ \A k \in 1..Len(line) : line[k] = line[i] => k = i

LEMMA LineStep ==
  ASSUME ServeTyped, Lined, [Next]_vars
  PROVE  Lined'
<1>. USE DEF ServeTyped, Threads, Lined
<1>1. ASSUME NEW j \in Serve, AcceptServe(j) PROVE Lined'
  <2>1. /\ line' \in Seq(Serve) /\ Len(line') = Len(line) + 1 /\ line'[Len(line) + 1] = j
        /\ \A i \in 1..Len(line) : line'[i] = line[i]
    BY <1>1 DEF AcceptServe
  <2>2. stage[j] = "idle" /\ stage'[j] = "queued" /\ \A i \in Serve \ {j} : stage'[i] = stage[i]
    BY <1>1 DEF AcceptServe
  <2>3. \A i \in 1..Len(line) : line[i] \in Serve \ {j}
    BY <2>2
  <2>4. \A i \in 1..Len(line') : i \in 1..Len(line) \/ i = Len(line) + 1
    BY <2>1
  <2>. QED
    BY SMTT(60), <2>1, <2>2, <2>3, <2>4
<1>2. ASSUME NEW j \in Serve, Begin(j) PROVE Lined'
  <2>1. /\ line # <<>> /\ line[1] = j /\ line' = Tail(line)
        /\ \A i \in Serve \ {j} : stage'[i] = stage[i]
    BY <1>2 DEF Begin
  <2>2. /\ Tail(line) \in Seq(Serve) /\ Len(Tail(line)) = Len(line) - 1
        /\ \A i \in 1..Len(Tail(line)) : Tail(line)[i] = line[i + 1]
    BY <2>1
  <2>3. ASSUME NEW i \in 1..Len(line')
        PROVE  i + 1 \in 1..Len(line) /\ line'[i] = line[i + 1] /\ line[i + 1] \in Serve \ {j}
    <3>1. 1 \in 1..Len(line) /\ i + 1 \in 1..Len(line) /\ i + 1 # 1 /\ line'[i] = line[i + 1]
      BY <2>1, <2>2
    <3>2. line[i + 1] # line[1]
      BY ZenonT(40), <3>1
    <3>. QED
      BY <2>1, <3>1, <3>2
  <2>4. \A i \in 1..Len(line') : stage'[line'[i]] = "queued"
    BY <2>1, <2>3
  <2>5. ASSUME NEW i \in 1..Len(line'), NEW k \in 1..Len(line'), line'[k] = line'[i] PROVE k = i
    <3>1. k + 1 = i + 1
      BY <2>3, <2>5
    <3>2. k \in Nat /\ i \in Nat
      OBVIOUS
    <3>. QED
      BY <3>1, <3>2
  <2>. QED
    BY <2>1, <2>2, <2>4, <2>5
<1>3. CASE Crash
  BY <1>3 DEF Crash
<1>4. ASSUME line' = line, \A j \in Serve : stage[j] = "queued" => stage'[j] = "queued"
      PROVE  Lined'
  BY <1>4
<1>5. line' = line \/ Crash \/ \E j \in Serve : AcceptServe(j) \/ Begin(j)
  <2>1. \A j \in Serve : ServeModel(j) => line' = line
    BY DEF ServeModel, GetReady, Work, CacheNotWritable, DownloadFails, Downloaded, Refuse, StartPulls,
     EnsureImage, ImagesThere, PullFails, PullCancelled, EndPull, CancelBefore, Prepare, StopFirst,
     Launch, Clear, ClearHangs, RunSolo, Record, RemoveStale, StaleHangs, StaleGone, RunWorker, RunHead, Undo,
     WaitReady, WaitCancelled, WaitOn, InspectDead, InspectAlive, Ready, PollAgain, WaitTimesOut, Abandon,
     CleanUp, UndoWorker, UndoWorkersDone, UndoHead, UndoHeadHangs, Forget
  <2>2. \A t \in Thread : StopAll(t) => line' = line
    BY DEF StopAll, ReadState, RemoveRank, RemoveHead, HeadHangs, Unlink, ListRemote, RemoveRemote,
     ListHost, RemoveLocal, LocalHangs, StopReturns
  <2>. QED
    BY <2>1, <2>2 DEF Next, Cancel, AcceptStop, BeginStop, Docker, Load, Exit, StartLate, vars
<1>6. ASSUME NEW j \in Serve, stage[j] = "queued", ~Crash, ~AcceptServe(j), ~Begin(j)
      PROVE  stage'[j] = "queued"
  <2>1. ~ServeModel(j) /\ ~StopAll(j)
    BY <1>6, ServeModelMoves, StopMoves DEF Working
  <2>. QED
    BY <1>6, <2>1, WhoMoves DEF Moves
<1>. QED
  BY <1>1, <1>2, <1>3, <1>4, <1>5, <1>6

LEMMA TidyStep ==
  ASSUME ServeTyped, Named, Lined, Tidy, [Next]_vars
  PROVE  Tidy'
<1>. SUFFICES ASSUME NEW j \in Serve, j \notin marred'
              PROVE  Shaped(j)' /\ Held(j)'
  BY LateStep DEF Tidy
<1>1. j \notin marred /\ (marred' = marred \/ ~Live(j))
  BY LuckStep DEF Luck, Trouble
<1>2. Shaped(j) /\ Held(j) /\ NotLate(j)
  BY <1>1 DEF Tidy, LateMarred, NotLate
<1>3. CASE ServeModel(j) \/ StopAll(j)
  BY <1>2, <1>3, OwnStep, OwnStopStep
<1>4. CASE AcceptServe(j) \/ Begin(j)
  <2>1. /\ stage[j] \in {"idle", "queued"} /\ stage'[j] \in {"queued", "cancelled", "called"}
        /\ box' = box
    BY <1>4 DEF AcceptServe, Begin, Lined, ServeTyped, Threads
  <2>. QED
    BY <1>2, <2>1 DEF Shaped, Held, Holding, Waiting
<1>5. CASE Crash
  <2>1. ~Live(j)
    BY <1>5 DEF Crash, Trouble
  <2>2. box' = box /\ ask' = ask /\ stage'[j] = stage[j]
    BY <1>5, <2>1 DEF Crash, ServeTyped, Threads
  <2>. QED
    BY <1>2, <2>1, <2>2 DEF Shaped, Held, Live, Over, Outcome
<1>6. CASE ~Moves(j)
  <2>1. stage'[j] = stage[j] /\ todo'[j] = todo[j] /\ Keeps(j)
    BY <1>2, <1>6, WhoMoves, BoxesKeep DEF Moves
  <2>. QED
    BY <1>2, <2>1, AskStays, OtherStep
<1>. QED
  BY <1>3, <1>4, <1>5, <1>6 DEF Moves

\* While docker owes it nothing and it does not launch, what stop k has yet to remove
\* of serve j's containers is on k's list or on a node k has yet to list.
SweptBy(k, j) ==
  \A b \in box : b.owner = j /\ Up(b) => Listed(k, b) /\ stage[k] # "stopped"

LEMMA SweepStep ==
  ASSUME ServeTyped, [Next]_vars, NEW k \in Stop \ marred', NEW j \in Serve,
         SweptBy(k, j), Keeps(j)
  PROVE  SweptBy(k, j)'
<1>1. UNCHANGED luck \/ ~Live(k)
  BY LuckStep DEF Luck, Trouble
<1>2. CASE StopAll(k)
  <2>1. UNCHANGED luck
    BY <1>1, <1>2 DEF Live, Over, Outcome, StopAll, ReadState, RemoveRank, RemoveHead, HeadHangs, Unlink,
       ListRemote, RemoveRemote, ListHost, RemoveLocal, LocalHangs, StopReturns
  <2>2. ASSUME NEW b \in box', b.owner = j, Up(b) PROVE Listed(k, b)' /\ stage'[k] # "stopped"
    BY <1>2, <2>1, <2>2, StopBoxes, StopLists DEF Fewer, SweptBy
  <2>. QED
    BY <2>2 DEF SweptBy, Up
<1>3. CASE AcceptStop(k) \/ BeginStop(k)
  <2>1. stage'[k] \in {"queued", "file"}
    BY <1>3 DEF AcceptStop, BeginStop, ServeTyped, Threads
  <2>. QED
    BY <2>1 DEF SweptBy, Listed
<1>4. CASE Crash
  <2>1. stage'[k] = stage[k] /\ stage[k] \notin {"remote", "host"}
    BY <1>4 DEF Crash, Trouble, Live, Over, Outcome, ServeTyped, Threads
  <2>. QED
    BY <2>1 DEF SweptBy, Listed, Keeps
<1>5. CASE ~Moves(k)
  <2>1. stage'[k] = stage[k] /\ todo'[k] = todo[k] /\ visit'[k] = visit[k]
    BY <1>5, WhoMoves
  <2>. QED
    BY <2>1 DEF SweptBy, Listed, Keeps
<1>. QED
  BY <1>2, <1>3, <1>4, <1>5 DEF Moves

\* A job that is over stays over.
LEMMA OverStays ==
  ASSUME ServeTyped, Lined, [Next]_vars, NEW t \in Thread
  PROVE  /\ stage[t] \in Over => stage'[t] = stage[t]
         /\ stage[t] # "idle" => stage'[t] # "idle"
<1>. USE DEF ServeTyped, Threads
<1>1. CASE t \in Serve /\ ServeModel(t)
  <2>1. Working(t)
    BY <1>1, ServeModelMoves
  <2>2. stage'[t] # "idle"
    BY <1>1 DEF ServeModel, GetReady, Work, CacheNotWritable, DownloadFails, Downloaded, Refuse, StartPulls,
     EnsureImage, ImagesThere, PullFails, PullCancelled, EndPull, CancelBefore, Prepare, StopFirst,
     Launch, Clear, ClearHangs, RunSolo, Record, RemoveStale, StaleHangs, StaleGone, RunWorker, RunHead, Undo,
     WaitReady, WaitCancelled, WaitOn, InspectDead, InspectAlive, Ready, PollAgain, WaitTimesOut, Abandon,
     CleanUp, UndoWorker, UndoWorkersDone, UndoHead, UndoHeadHangs, Forget, Outcome
  <2>. QED
    BY <2>1, <2>2 DEF Working, Live
<1>2. CASE StopAll(t)
  BY <1>2 DEF StopAll, ReadState, RemoveRank, RemoveHead, HeadHangs, Unlink, ListRemote, RemoveRemote,
     ListHost, RemoveLocal, LocalHangs, StopReturns, Over, Outcome
<1>3. CASE t \in Serve /\ (AcceptServe(t) \/ Begin(t))
  BY <1>3 DEF AcceptServe, Begin, Lined, Over, Outcome
<1>4. CASE t \in Stop /\ (AcceptStop(t) \/ BeginStop(t))
  BY <1>4 DEF AcceptStop, BeginStop, Over, Outcome
<1>5. CASE Crash
  BY <1>5 DEF Crash, Live
<1>6. CASE ~Moves(t)
  BY <1>6, WhoMoves
<1>. QED
  BY <1>1, <1>2, <1>3, <1>4, <1>5, <1>6 DEF Moves

\* A serve whose wait has passed its look at the cancel event.
Settled == {"inspecting", "asking", "completed"}

\* What an accepted stop knows of the serves before it, if nothing goes wrong for it.
Reached(k) ==
  \A j \in Serve :
    /\ j \in before[k].over => stage[j] \in Over /\ NotLate(j) /\ SweptBy(k, j)
    /\ j \in before[k].live /\ j \notin marred =>
         /\ stage[j] # "idle"
         /\ Live(j) => j \in flagged
         /\ stage[j] \in Settled => SweptBy(k, j)

Answered ==
  /\ before \in [Stop -> [live : SUBSET Serve, over : SUBSET Serve]]
  /\ \A k \in Stop \ marred : Reached(k)

\* A clean-up never ends in a serve that is reported ready.
Undone == end \in [Serve -> {"cancelled", "failed"}]

LEMMA UndoneStep ==
  ASSUME Undone, [Next]_vars
  PROVE  Undone'
<1>. USE DEF Undone
<1>1. ASSUME NEW j \in Serve, ServeModel(j) PROVE Undone'
  BY <1>1 DEF ServeModel, GetReady, Work, CacheNotWritable, DownloadFails, Downloaded, Refuse, StartPulls,
   EnsureImage, ImagesThere, PullFails, PullCancelled, EndPull, CancelBefore, Prepare, StopFirst,
   Launch, Clear, ClearHangs, RunSolo, Record, RemoveStale, StaleHangs, StaleGone, RunWorker, RunHead, Undo,
   WaitReady, WaitCancelled, WaitOn, InspectDead, InspectAlive, Ready, PollAgain, WaitTimesOut, Abandon,
   CleanUp, UndoWorker, UndoWorkersDone, UndoHead, UndoHeadHangs, Forget
<1>2. ASSUME NEW t \in Thread, StopAll(t) PROVE Undone'
  BY <1>2 DEF StopAll, ReadState, RemoveRank, RemoveHead, HeadHangs, Unlink, ListRemote, RemoveRemote,
   ListHost, RemoveLocal, LocalHangs, StopReturns
<1>. QED
  BY <1>1, <1>2 DEF Next, AcceptServe, Cancel, Begin, AcceptStop, BeginStop, Docker, Load, Exit, StartLate,
     Crash, vars

\* Only a wait that looked at its cancel event and found it clear gets that far.
LEMMA SettledStep ==
  ASSUME ServeTyped, Undone, [Next]_vars, NEW j \in Serve, stage'[j] \in Settled, j \in flagged
  PROVE  stage[j] \in Settled
<1>. USE DEF ServeTyped, Threads, Settled
<1>1. CASE ServeModel(j)
  <2>1. ~(GetReady(j) \/ StopFirst(j))
    BY DEF GetReady, Work, CacheNotWritable, DownloadFails, Downloaded, Refuse, StartPulls,
     EnsureImage, ImagesThere, PullFails, PullCancelled, EndPull, CancelBefore, Prepare, StopFirst
  <2>2. ~Launch(j)
    BY DEF Launch, Clear, ClearHangs, RunSolo, Record, RemoveStale, StaleHangs, StaleGone, RunWorker, RunHead, Undo
  <2>3. CASE WaitReady(j)
    BY <2>3 DEF WaitReady, WaitCancelled, WaitOn, InspectDead, InspectAlive, Ready, PollAgain, WaitTimesOut,
       Abandon, Undo
  <2>4. ~CleanUp(j)
    BY DEF CleanUp, UndoWorker, UndoWorkersDone, UndoHead, UndoHeadHangs, Forget, Undone
  <2>. QED
    BY <1>1, <2>1, <2>2, <2>3, <2>4 DEF ServeModel
<1>2. CASE StopAll(j)
  BY <1>2 DEF StopAll, ReadState, RemoveRank, RemoveHead, HeadHangs, Unlink, ListRemote, RemoveRemote,
     ListHost, RemoveLocal, LocalHangs, StopReturns
<1>3. CASE AcceptServe(j) \/ Begin(j)
  BY <1>3 DEF AcceptServe, Begin
<1>4. CASE Crash
  BY <1>4 DEF Crash
<1>5. CASE ~Moves(j)
  BY <1>5, WhoMoves
<1>. QED
  BY <1>1, <1>2, <1>3, <1>4, <1>5 DEF Moves

\* A cancel event, once set, stays set until its job is over.
LEMMA FlagStays ==
  ASSUME ServeTyped, [Next]_vars
  PROVE  \/ flagged \subseteq flagged'
         \/ \A j \in Serve : Live(j) => j \in marred'
<1>1. \A j \in Serve : ServeModel(j) => flagged' = flagged
  BY DEF ServeModel, GetReady, Work, CacheNotWritable, DownloadFails, Downloaded, Refuse, StartPulls,
   EnsureImage, ImagesThere, PullFails, PullCancelled, EndPull, CancelBefore, Prepare, StopFirst,
   Launch, Clear, ClearHangs, RunSolo, Record, RemoveStale, StaleHangs, StaleGone, RunWorker, RunHead, Undo,
   WaitReady, WaitCancelled, WaitOn, InspectDead, InspectAlive, Ready, PollAgain, WaitTimesOut, Abandon,
   CleanUp, UndoWorker, UndoWorkersDone, UndoHead, UndoHeadHangs, Forget
<1>2. \A t \in Thread : StopAll(t) => flagged' = flagged
  BY DEF StopAll, ReadState, RemoveRank, RemoveHead, HeadHangs, Unlink, ListRemote, RemoveRemote,
   ListHost, RemoveLocal, LocalHangs, StopReturns
<1>3. Crash => \A j \in Serve : Live(j) => j \in marred'
  BY DEF Crash, Trouble
<1>. QED
  BY <1>1, <1>2, <1>3 DEF Next, AcceptServe, Cancel, Begin, AcceptStop, BeginStop, Docker, Load, Exit,
     StartLate, vars

\* Nobody but the acceptance of a stop writes what it found.
LEMMA BeforeStays ==
  ASSUME ServeTyped, [Next]_vars
  PROVE  before' = before \/ \E k \in Stop : AcceptStop(k)
<1>1. \A j \in Serve : ServeModel(j) => before' = before
  BY DEF ServeModel, GetReady, Work, CacheNotWritable, DownloadFails, Downloaded, Refuse, StartPulls,
   EnsureImage, ImagesThere, PullFails, PullCancelled, EndPull, CancelBefore, Prepare, StopFirst,
   Launch, Clear, ClearHangs, RunSolo, Record, RemoveStale, StaleHangs, StaleGone, RunWorker, RunHead, Undo,
   WaitReady, WaitCancelled, WaitOn, InspectDead, InspectAlive, Ready, PollAgain, WaitTimesOut, Abandon,
   CleanUp, UndoWorker, UndoWorkersDone, UndoHead, UndoHeadHangs, Forget
<1>2. \A t \in Thread : StopAll(t) => before' = before
  BY DEF StopAll, ReadState, RemoveRank, RemoveHead, HeadHangs, Unlink, ListRemote, RemoveRemote,
   ListHost, RemoveLocal, LocalHangs, StopReturns
<1>. QED
  BY <1>1, <1>2 DEF Next, AcceptServe, Cancel, Begin, BeginStop, Docker, Load, Exit, StartLate, Crash, vars

LEMMA ReachedStep ==
  ASSUME ServeTyped, Lined, Undone, LateMarred, [Next]_vars, NEW k \in Stop \ marred', Reached(k),
         before'[k] = before[k]
  PROVE  Reached(k)'
<1>0. marred \subseteq marred'
  BY LuckStep DEF Luck, Trouble
<1>. SUFFICES ASSUME NEW j \in Serve
     PROVE  /\ j \in before[k].over => stage'[j] \in Over /\ NotLate(j)' /\ SweptBy(k, j)'
            /\ j \in before[k].live /\ j \notin marred' =>
                 /\ stage'[j] # "idle"
                 /\ Live(j)' => j \in flagged'
                 /\ stage'[j] \in Settled => SweptBy(k, j)'
  BY DEF Reached
<1>1. ASSUME j \in before[k].over
      PROVE  stage'[j] \in Over /\ NotLate(j)' /\ SweptBy(k, j)'
  <2>1. stage[j] \in Over /\ NotLate(j) /\ SweptBy(k, j)
    BY <1>1 DEF Reached
  <2>2. stage[j] \notin {"run", "workers"}
    BY <2>1 DEF Over, Outcome
  <2>. QED
    BY <2>1, <2>2, BoxesKeep, OverStays, SweepStep
<1>2. ASSUME j \in before[k].live, j \notin marred'
      PROVE  /\ stage'[j] # "idle"
             /\ Live(j)' => j \in flagged'
             /\ stage'[j] \in Settled => SweptBy(k, j)'
  <2>1. /\ stage[j] # "idle" /\ NotLate(j)
        /\ Live(j) => j \in flagged
        /\ stage[j] \in Settled => SweptBy(k, j)
    BY <1>0, <1>2 DEF Reached, LateMarred, NotLate
  <2>2. stage'[j] # "idle" /\ (Live(j)' => Live(j))
    BY <2>1, OverStays DEF Live
  <2>3. Live(j) => j \in flagged'
    BY <1>2, <2>1, FlagStays
  <2>4. ASSUME stage'[j] \in Settled PROVE SweptBy(k, j)'
    <3>1. stage[j] \in Settled
      <4>1. CASE Live(j)
        BY <2>1, <2>4, <4>1, SettledStep
      <4>2. CASE ~Live(j)
        BY <2>1, <2>4, <4>2, OverStays DEF Live
      <4>. QED
        BY <4>1, <4>2
    <3>2. Keeps(j)
      BY <2>1, <3>1, BoxesKeep DEF Settled
    <3>. QED
      BY <2>1, <3>1, <3>2, SweepStep
  <2>. QED
    BY <2>2, <2>3, <2>4
<1>. QED
  BY <1>1, <1>2

LEMMA AnsweredStep ==
  ASSUME ServeTyped, Lined, Undone, LateMarred, Answered, [Next]_vars
  PROVE  Answered'
<1>1. marred \subseteq marred'
  BY LuckStep DEF Luck, Trouble
<1>2. ASSUME NEW k \in Stop, AcceptStop(k)
      PROVE  /\ before' \in [Stop -> [live : SUBSET Serve, over : SUBSET Serve]]
             /\ \A i \in Stop \ {k} : before'[i] = before[i]
             /\ Reached(k)'
  <2>1. /\ before' = [before EXCEPT ![k] = Accepted] /\ box' = box /\ late' = late
        /\ stage' = [stage EXCEPT ![k] = "queued"]
        /\ flagged' = flagged \cup {j \in Serve : Live(j)}
    BY <1>2 DEF AcceptStop
  <2>2. /\ before'[k] = Accepted /\ stage'[k] = "queued"
        /\ \A j \in Serve : stage'[j] = stage[j]
    BY <2>1 DEF Answered, ServeTyped, Threads
  <2>3. \A j \in Serve : SweptBy(k, j)'
    BY <2>2 DEF SweptBy, Listed
  <2>4. Reached(k)'
    BY <2>1, <2>2, <2>3 DEF Reached, Accepted, NotLate, Live
  <2>. QED
    BY <2>1, <2>4 DEF Answered, Accepted
<1>3. CASE before' = before
  BY <1>1, <1>3, ReachedStep DEF Answered
<1>. QED
  BY <1>1, <1>2, <1>3, BeforeStays, ReachedStep DEF Answered

LEMMA TroubledInvariant == Spec => [](Lined /\ Undone /\ Tidy /\ Answered)
<1>1. Init => Lined /\ Undone /\ Tidy /\ Answered
  <2>. SUFFICES ASSUME Init PROVE Lined /\ Undone /\ Tidy /\ Answered
    OBVIOUS
  <2>1. Lined /\ Undone
    BY DEF Init, Lined, Undone
  <2>2. Tidy
    BY DEF Init, Tidy, LateMarred, Shaped, Held
  <2>3. Answered
    BY DEF Init, Answered, Reached
  <2>. QED
    BY <2>1, <2>2, <2>3
<1>2. ServeTyped /\ Named /\ Lined /\ Undone /\ Tidy /\ Answered /\ [Next]_vars
        => (Lined /\ Undone /\ Tidy /\ Answered)'
  BY LineStep, UndoneStep, TidyStep, AnsweredStep DEF Tidy
<1>. QED
  BY <1>1, <1>2, ServeInvariant, PTL DEF Spec

\* Whatever fails elsewhere, a serve that nothing went wrong for and that ended
\* cancelled or failed has no container running on any node, on whatever path it
\* ended (the clean-ups of serve_model, _launch_multi_node and wait_ready).
THEOREM EndedLoadsHoldNothing == Spec => []EndedLoadFreesMemory
<1>1. Tidy => EndedLoadFreesMemory
  BY DEF Tidy, Held, Holding, Waiting, EndedLoadFreesMemory, RunningOf
<1>. QED
  BY <1>1, TroubledInvariant, PTL

\* Whatever fails elsewhere, a stop that nothing went wrong for leaves nothing
\* running of the serves accepted before it, however far each of them had come.
THEOREM StopsReachEveryLoad == Spec => []StopReachesEveryLoad
<1>1. ServeTyped /\ Tidy /\ Answered => StopReachesEveryLoad
  <2>. SUFFICES ASSUME ServeTyped, Tidy, Answered,
                       NEW k \in Stop, stage[k] = "stopped", k \notin marred, NEW j \in Serve,
                       \/ j \in before[k].over
                       \/ j \in before[k].live /\ stage[j] \in Over /\ j \notin marred
                PROVE  RunningOf(j) = {}
    BY DEF StopReachesEveryLoad
  <2>1. CASE SweptBy(k, j)
    BY <2>1 DEF SweptBy, RunningOf
  <2>2. CASE j \notin marred /\ stage[j] \in Over \ {"completed"}
    BY <2>2 DEF Tidy, Held, Holding, Waiting, RunningOf, Over, Outcome
  <2>3. SweptBy(k, j) \/ (j \notin marred /\ stage[j] \in Over \ {"completed"})
    BY DEF Answered, Reached, Settled
  <2>. QED
    BY <2>1, <2>2, <2>3
<1>. QED
  BY <1>1, ServeInvariant, TroubledInvariant, PTL
-----------------------------------------------------------------------------
(* Whose containers there are, whatever fails.                             *)

AllShaped == \A j \in Serve : Shaped(j)

\* Whatever docker still owes is owed to a serve that gave up.
LateOver == \A b \in late : stage[b.owner] \in Cleaning \cup {"cancelled", "failed"}

Unique == \A b, c \in box : b.node = c.node /\ b.name = c.name => b = c
AtHome == \A b \in box \cup late : b.name[2] = "solo" => b.node = Host

\* While j launches its ranks, it has removed or is about to remove those of the
\* serves before it.
Cleared(j) ==
  stage[j] \in {"stale", "workers"} =>
    \A b \in box : b.name = NameOf(j) /\ b.owner # j =>
      Ghost(b.owner) \/ (stage[j] = "stale" /\ <<b.node, b.name>> \in todo[j])

\* The ranks of an engine are those of one serve.
NotMixed ==
  \A b, c \in box \cup late :
    b.name = c.name /\ b.name[2] = "rank" /\ b.owner # c.owner => Ghost(b.owner) \/ Ghost(c.owner)

Owned ==
  /\ OneAtATime /\ AllShaped /\ LateOver /\ Unique /\ AtHome /\ NotMixed
  /\ \A j \in Serve : Cleared(j)

LEMMA ShapedStep ==
  ASSUME ServeTyped, AllShaped, [Next]_vars
  PROVE  AllShaped'
<1>. SUFFICES ASSUME NEW j \in Serve PROVE Shaped(j)'
  BY DEF AllShaped
<1>. USE DEF ServeTyped, Threads, Shaped
<1>1. Shaped(j) /\ ask' = ask
  BY AskStays DEF AllShaped
<1>2. CASE ServeModel(j)
  <2>1. CASE GetReady(j) \/ StopFirst(j)
    BY <1>1, <2>1 DEF GetReady, Work, CacheNotWritable, DownloadFails, Downloaded, Refuse, StartPulls,
     EnsureImage, ImagesThere, PullFails, PullCancelled, EndPull, CancelBefore, Prepare, StopFirst
  <2>2. CASE Launch(j)
    BY <1>1, <2>2 DEF Launch, Clear, ClearHangs, RunSolo, Record, RemoveStale, StaleHangs, StaleGone, RunWorker,
     RunHead, Undo
  <2>3. CASE WaitReady(j)
    BY <1>1, <2>3 DEF WaitReady, WaitCancelled, WaitOn, InspectDead, InspectAlive, Ready, PollAgain, WaitTimesOut,
     Abandon, Undo
  <2>4. CASE CleanUp(j)
    BY <1>1, <2>4 DEF CleanUp, UndoWorker, UndoWorkersDone, UndoHead, UndoHeadHangs, Forget, Outcome
  <2>. QED
    BY <1>2, <2>1, <2>2, <2>3, <2>4 DEF ServeModel
<1>3. CASE StopAll(j)
  BY <1>1, <1>3 DEF StopAll, ReadState, RemoveRank, RemoveHead, HeadHangs, Unlink, ListRemote, RemoveRemote,
     ListHost, RemoveLocal, LocalHangs, StopReturns
<1>4. CASE AcceptServe(j) \/ Begin(j)
  BY <1>1, <1>4 DEF AcceptServe, Begin
<1>5. CASE Crash
  BY <1>1, <1>5 DEF Crash
<1>6. CASE ~Moves(j)
  BY <1>1, <1>6, WhoMoves
<1>. QED
  BY <1>2, <1>3, <1>4, <1>5, <1>6 DEF Moves

LEMMA OneStep ==
  ASSUME ServeTyped, OneAtATime, [Next]_vars
  PROVE  OneAtATime'
<1>. USE DEF ServeTyped, Threads, OneAtATime
<1>1. ASSUME NEW t \in Thread, Alike(t), t \in Serve /\ Working(t)' => Working(t) \/ \A i \in Serve : ~Working(i)
      PROVE  OneAtATime'
  <2>1. \A i \in Serve \ {t} : Working(i)' <=> Working(i)
    BY <1>1 DEF Alike, Working, Live
  <2>. QED
    BY <1>1, <2>1
<1>2. ASSUME NEW j \in Serve, AcceptServe(j) \/ Cancel(j) \/ Begin(j) PROVE OneAtATime'
  <2>1. Alike(j) /\ (Working(j)' => Working(j) \/ \A i \in Serve : ~Working(i))
    BY <1>2 DEF AcceptServe, Cancel, Begin, Alike, Working, Live, Over, Outcome
  <2>. QED
    BY <1>1, <2>1
<1>3. ASSUME NEW k \in Stop, AcceptStop(k) \/ BeginStop(k) PROVE OneAtATime'
  <2>1. Alike(k) /\ k \notin Serve
    BY <1>3 DEF AcceptStop, BeginStop, Alike
  <2>. QED
    BY <1>1, <2>1
<1>4. CASE Crash
  BY <1>4 DEF Crash, Working, Live, Over, Outcome
<1>5. CASE Docker \/ UNCHANGED vars
  BY <1>5 DEF Docker, Load, Exit, StartLate, vars, Working, Live
<1>. QED
  BY <1>1, <1>2, <1>3, <1>4, <1>5, ServeModelMoves, StopMoves DEF Next

LEMMA GhostStays ==
  ASSUME ServeTyped, Lined, [Next]_vars, NEW j \in Serve, Ghost(j)
  PROVE  Ghost(j)'
<1>1. marred \subseteq marred'
  BY LuckStep DEF Luck, Trouble
<1>. QED
  BY <1>1, OverStays DEF Ghost, Over, Outcome

\* Where the containers of the next state come from.
Same(b, c) == b.node = c.node /\ b.name = c.name /\ b.owner = c.owner

Launched(b, j) ==
  /\ ServeModel(j) /\ b.owner = j /\ b.name = NameOf(j)
  /\ (stage[j] = "run" /\ b.node = Host) \/ stage[j] = "workers"

LEMMA LaunchedOnes ==
  ASSUME ServeTyped, NEW j \in Serve, ServeModel(j)
  PROVE  /\ \A b \in box' : b \in box \/ Launched(b, j)
         /\ \A b \in late' : b \in late \/ Launched(b, j)
<1>1. Fewer => box' \subseteq box /\ late' = late
  BY DEF Fewer
<1>2. ASSUME NEW node \in Node, Runs(j, node), (stage[j] = "run" /\ node = Host) \/ stage[j] = "workers"
      PROVE  /\ \A b \in box' : b \in box \/ Launched(b, j)
             /\ \A b \in late' : b \in late \/ Launched(b, j)
  <2>1. \A x \in {"loading", "exited"} : Launched(NewBox(j, node, x), j)
    BY <1>2 DEF NewBox, Launched
  <2>. QED
    BY <1>2, <2>1 DEF Runs
<1>. QED
  BY <1>1, <1>2, ServeModelBoxes

LEMMA Sources ==
  ASSUME ServeTyped, [Next]_vars
  PROVE  /\ \A b \in box' : (\E c \in box \cup late : Same(b, c)) \/ \E j \in Serve : Launched(b, j)
         /\ \A b \in late' : b \in late \/ \E j \in Serve : Launched(b, j)
<1>. USE DEF Same
<1>1. ASSUME box' \subseteq box, late' \subseteq late
      PROVE  (\A b \in box' : \E c \in box : Same(b, c)) /\ \A b \in late' : b \in late
  BY <1>1
<1>2. ASSUME NEW b \in box \cup late, Load(b) \/ Exit(b) \/ StartLate(b)
      PROVE  (\A c \in box' : \E d \in box \cup late : Same(c, d)) /\ late' \subseteq late
  <2>1. b \in Box
    BY DEF ServeTyped, Boxes
  <2>2. \A x \in {"ready", "exited"} : Same([b EXCEPT !.state = x], b)
    BY <2>1 DEF Box
  <2>3. CASE Load(b)
    BY <2>2, <2>3 DEF Load
  <2>4. CASE Exit(b)
    BY <2>2, <2>4 DEF Exit
  <2>5. CASE StartLate(b)
    BY <2>5 DEF StartLate
  <2>. QED
    BY <1>2, <2>3, <2>4, <2>5
<1>3. \A t \in Thread : StopAll(t) => box' \subseteq box /\ late' = late
  BY StopBoxes DEF Fewer
<1>4. \/ box' \subseteq box /\ late' \subseteq late
      \/ \E j \in Serve : ServeModel(j)
      \/ \E b \in box \cup late : Load(b) \/ Exit(b) \/ StartLate(b)
  BY <1>3 DEF Next, AcceptServe, Cancel, Begin, AcceptStop, BeginStop, Docker, Crash, vars
<1>. QED
  BY <1>1, <1>2, <1>4, LaunchedOnes

LEMMA LaunchGivesUp ==
  ASSUME ServeTyped, NEW j \in Serve, ServeModel(j)
  PROVE  /\ late' # late => stage'[j] \in {"undo", "failed"}
         /\ stage[j] \in Cleaning /\ Undone => stage'[j] \in Cleaning \cup {"cancelled", "failed"}
         /\ \/ box' \subseteq box
            \/ \E b : box' = box \cup {b} /\ At(b.node, b.name) = {}
<1>. USE DEF ServeTyped, Threads, Cleaning, Undone
<1>1. CASE GetReady(j) \/ StopFirst(j)
  BY <1>1 DEF GetReady, Work, CacheNotWritable, DownloadFails, Downloaded, Refuse, StartPulls,
     EnsureImage, ImagesThere, PullFails, PullCancelled, EndPull, CancelBefore, Prepare, StopFirst
<1>2. CASE Launch(j)
  <2>1. CASE Clear(j) \/ ClearHangs(j) \/ Record(j) \/ RemoveStale(j) \/ StaleHangs(j) \/ StaleGone(j)
    BY <2>1 DEF Clear, ClearHangs, Record, RemoveStale, StaleHangs, StaleGone, Remove, Undo
  <2>2. ASSUME NEW node \in Node,
               \/ RunStarts(j, node)
               \/ (RunRefused(j, node) \/ RunHangs(j, node)) /\ stage'[j] \in {"undo", "failed"}
        PROVE  /\ late' # late => stage'[j] \in {"undo", "failed"}
               /\ box' \subseteq box \/ \E b : box' = box \cup {b} /\ At(b.node, b.name) = {}
    <3>1. \A x : NewBox(j, node, x).node = node /\ NewBox(j, node, x).name = NameOf(j)
      BY DEF NewBox
    <3>. QED
      BY <2>2, <3>1 DEF RunStarts, RunRefused, RunHangs
  <2>3. CASE RunSolo(j)
    BY <2>2, <2>3 DEF RunSolo
  <2>4. ASSUME NEW w \in Worker, RunWorker(j, w)
        PROVE  /\ late' # late => stage'[j] \in {"undo", "failed"}
               /\ box' \subseteq box \/ \E b : box' = box \cup {b} /\ At(b.node, b.name) = {}
               /\ stage[j] = "workers"
    BY <2>2, <2>4 DEF RunWorker, Undo
  <2>5. CASE RunHead(j)
    BY <2>2, <2>5 DEF RunHead, Undo
  <2>. QED
    BY <1>2, <2>1, <2>3, <2>4, <2>5 DEF Launch
<1>3. CASE WaitReady(j)
  BY <1>3 DEF WaitReady, WaitCancelled, WaitOn, InspectDead, InspectAlive, Ready, PollAgain, WaitTimesOut,
     Abandon, Undo
<1>4. CASE CleanUp(j)
  BY <1>4 DEF CleanUp, UndoWorker, UndoWorkersDone, UndoHead, UndoHeadHangs, Forget, Remove, Skip
<1>. QED
  BY <1>1, <1>2, <1>3, <1>4 DEF ServeModel

LEMMA LateOverStep ==
  ASSUME ServeTyped, Lined, Undone, LateOver, [Next]_vars
  PROVE  LateOver'
<1>. USE DEF ServeTyped, Threads, LateOver
<1>1. ASSUME NEW b \in late PROVE stage'[b.owner] \in Cleaning \cup {"cancelled", "failed"}
  <2>. DEFINE i == b.owner
  <2>1. i \in Serve /\ stage[i] \in Cleaning \cup {"cancelled", "failed"}
    BY DEF Boxes, Box
  <2>. HIDE DEF i
  <2>2. stage[i] \in {"cancelled", "failed"} => stage'[i] = stage[i]
    BY <2>1, OverStays DEF Over, Outcome
  <2>3. ~StopAll(i) /\ ~AcceptServe(i) /\ ~Begin(i)
    BY <2>1 DEF StopAll, ReadState, RemoveRank, RemoveHead, HeadHangs, Unlink, ListRemote, RemoveRemote,
       ListHost, RemoveLocal, LocalHangs, StopReturns, AcceptServe, Begin, Lined, Cleaning
  <2>4. Crash /\ stage[i] \in Cleaning => stage'[i] = "failed"
    BY <2>1 DEF Crash, Live, Over, Outcome, Cleaning
  <2>5. ~Moves(i) => stage'[i] = stage[i]
    BY <2>1, WhoMoves
  <2>. QED
    BY <2>1, <2>2, <2>3, <2>4, <2>5, LaunchGivesUp DEF Moves, i
<1>2. ASSUME NEW b \in late', b \notin late PROVE stage'[b.owner] \in Cleaning \cup {"cancelled", "failed"}
  BY <1>2, Sources, LaunchGivesUp DEF Launched, Cleaning
<1>. QED
  BY <1>1, <1>2

LEMMA UniqueStep ==
  ASSUME ServeTyped, Unique, [Next]_vars
  PROVE  Unique'
<1>. USE DEF Unique
<1>1. ASSUME box' \subseteq box PROVE Unique'
  BY <1>1
<1>2. ASSUME NEW b, box' = box \cup {b}, At(b.node, b.name) = {} PROVE Unique'
  BY <1>2 DEF At
<1>3. ASSUME NEW b \in box, NEW c, Same(c, b), box' = (box \ {b}) \cup {c} PROVE Unique'
  BY <1>3 DEF Same
<1>4. ASSUME NEW b \in box \cup late, Load(b) \/ Exit(b) \/ StartLate(b) PROVE Unique'
  <2>1. b \in Box
    BY DEF ServeTyped, Boxes
  <2>2. \A x \in {"ready", "exited"} : Same([b EXCEPT !.state = x], b)
    BY <2>1 DEF Box, Same
  <2>3. CASE Load(b)
    BY <1>3, <2>2, <2>3 DEF Load
  <2>4. CASE Exit(b)
    BY <1>3, <2>2, <2>4 DEF Exit
  <2>5. CASE StartLate(b)
    BY <1>1, <1>2, <2>5 DEF StartLate
  <2>. QED
    BY <1>4, <2>3, <2>4, <2>5
<1>5. \A t \in Thread : StopAll(t) => box' \subseteq box
  BY StopBoxes DEF Fewer
<1>6. \A j \in Serve : ServeModel(j) => Unique'
  BY <1>1, <1>2, LaunchGivesUp
<1>7. \/ box' \subseteq box
      \/ \E j \in Serve : ServeModel(j)
      \/ \E b \in box \cup late : Load(b) \/ Exit(b) \/ StartLate(b)
  BY <1>5 DEF Next, AcceptServe, Cancel, Begin, AcceptStop, BeginStop, Docker, Crash, vars
<1>. QED
  BY <1>1, <1>4, <1>6, <1>7

LEMMA AtHomeStep ==
  ASSUME ServeTyped, AllShaped, AtHome, [Next]_vars
  PROVE  AtHome'
<1>1. ASSUME NEW b, NEW j \in Serve, Launched(b, j), b.name[2] = "solo" PROVE b.node = Host
  <2>1. stage[j] # "workers"
    BY <1>1 DEF Launched, NameOf, AllShaped, Shaped
  <2>. QED
    BY <1>1, <2>1 DEF Launched
<1>2. ASSUME NEW b \in box' \cup late', b.name[2] = "solo" PROVE b.node = Host
  BY <1>1, <1>2, Sources DEF AtHome, Same
<1>. QED
  BY <1>2 DEF AtHome

\* What docker owes to somebody other than the serve that works.
LEMMA LateGhost ==
  ASSUME ServeTyped, OneAtATime, LateMarred, LateOver, NEW j \in Serve, Working(j),
         NEW b \in late, b.owner # j
  PROVE  Ghost(b.owner)
<1>1. b.owner \in Serve
  BY DEF ServeTyped, Boxes, Box
<1>2. ~Working(b.owner)
  BY <1>1 DEF OneAtATime
<1>. QED
  BY <1>2 DEF LateMarred, LateOver, Working, Live, Over, Outcome, Cleaning, Ghost

LEMMA ClearedStep ==
  ASSUME ServeTyped, Lined, OneAtATime, AllShaped, LateMarred, LateOver, [Next]_vars,
         NEW j \in Serve, Cleared(j)
  PROVE  Cleared(j)'
<1>. USE DEF ServeTyped, Threads
<1>0. ask' = ask /\ NameOf(j)' = NameOf(j)
  BY AskStays DEF NameOf
<1>. SUFFICES ASSUME stage'[j] \in {"stale", "workers"}, NEW b \in box', b.name = NameOf(j), b.owner # j
     PROVE  Ghost(b.owner)' \/ (stage'[j] = "stale" /\ <<b.node, b.name>> \in todo'[j])
  BY <1>0 DEF Cleared
<1>1. PICK c \in box \cup late : Same(b, c)
  <2>1. ASSUME NEW i \in Serve, Launched(b, i) PROVE FALSE
    <3>1. i # j /\ ServeModel(i) /\ Working(i)
      BY <2>1, ServeModelMoves DEF Launched
    <3>2. stage'[j] = stage[j]
      BY <3>1, ServeModelMoves DEF Alike
    <3>3. Working(j)
      BY <3>2 DEF Working, Live, Over, Outcome
    <3>. QED
      BY <3>1, <3>3 DEF OneAtATime
  <2>. QED
    BY <2>1, Sources
<1>2. c.owner = b.owner /\ c.name = b.name /\ c.node = b.node /\ c.owner \in Serve /\ c.node \in Node
  BY <1>1 DEF Same, Boxes, Box
<1>3. CASE Ghost(c.owner)
  BY <1>2, <1>3, GhostStays
<1>4. CASE ~Ghost(c.owner)
  <2>1. Working(j)
    <3>1. ~AcceptServe(j) /\ ~Begin(j) /\ ~Crash
      BY DEF AcceptServe, Begin, Crash, Live, Over, Outcome
    <3>. QED
      BY <3>1, ServeModelMoves, StopMoves, WhoMoves DEF Moves, Working, Live, Over, Outcome
  <2>2. c \in box
    BY <1>2, <1>4, <2>1, LateGhost
  <2>3. Cleared(j) /\ stage[j] \in {"stale", "workers"} => stage[j] = "stale" /\ <<c.node, c.name>> \in todo[j]
    BY <1>2, <1>4, <2>2 DEF Cleared
  <2>4. CASE ServeModel(j)
    <3>1. CASE Record(j)
      BY <1>0, <1>2, <3>1 DEF Record, RanksOf, NameOf, AllShaped, Shaped
    <3>2. CASE RemoveStale(j)
      <4>1. PICK x \in todo[j] : /\ stage[j] = "stale" /\ stage'[j] = "stale"
                                 /\ todo'[j] = todo[j] \ {x} /\ box' = box \ At(x[1], x[2])
        BY <3>2 DEF RemoveStale, Remove
      <4>2. <<b.node, b.name>> # x
        BY <4>1 DEF At
      <4>. QED
        BY <1>2, <2>3, <4>1, <4>2
    <3>3. CASE StaleGone(j)
      BY <2>3, <3>3 DEF StaleGone
    <3>4. ASSUME stage[j] = "workers" PROVE FALSE
      BY <2>3, <3>4
    <3>5. ~GetReady(j) /\ ~StopFirst(j) /\ ~WaitReady(j) /\ ~CleanUp(j)
      BY DEF GetReady, Work, CacheNotWritable, DownloadFails, Downloaded, Refuse, StartPulls,
     EnsureImage, ImagesThere, PullFails, PullCancelled, EndPull, CancelBefore, Prepare, StopFirst,
     WaitReady, WaitCancelled, WaitOn, InspectDead, InspectAlive, Ready, PollAgain, WaitTimesOut,
     Abandon, Undo, CleanUp, UndoWorker, UndoWorkersDone, UndoHead, UndoHeadHangs, Forget, Outcome
    <3>6. ~Clear(j) /\ ~ClearHangs(j) /\ ~RunSolo(j) /\ ~StaleHangs(j)
      BY DEF Clear, ClearHangs, RunSolo, StaleHangs, Undo
    <3>. QED
      BY <2>4, <3>1, <3>2, <3>3, <3>4, <3>5, <3>6 DEF ServeModel, Launch, RunWorker, RunHead
  <2>5. CASE StopAll(j)
    BY <2>5 DEF StopAll, ReadState, RemoveRank, RemoveHead, HeadHangs, Unlink, ListRemote, RemoveRemote,
       ListHost, RemoveLocal, LocalHangs, StopReturns
  <2>6. ~AcceptServe(j) /\ ~Begin(j) /\ ~Crash
    BY DEF AcceptServe, Begin, Crash, Live, Over, Outcome
  <2>7. CASE ~Moves(j)
    BY <1>2, <2>3, <2>7, WhoMoves
  <2>. QED
    BY <2>4, <2>5, <2>6, <2>7 DEF Moves
<1>. QED
  BY <1>3, <1>4

LEMMA NotMixedStep ==
  ASSUME ServeTyped, Lined, OneAtATime, AllShaped, LateMarred, LateOver, NotMixed,
         \A j \in Serve : Cleared(j), [Next]_vars
  PROVE  NotMixed'
<1>1. ASSUME NEW b, NEW c \in box \cup late, NEW j \in Serve, Launched(b, j),
             b.name = c.name, b.name[2] = "rank", c.owner # j
      PROVE  Ghost(c.owner)'
  <2>1. stage[j] = "workers" /\ Working(j)
    BY <1>1, ServeModelMoves DEF Launched, NameOf, AllShaped, Shaped
  <2>2. Ghost(c.owner)
    BY <1>1, <2>1, LateGhost DEF Cleared, Launched
  <2>. QED
    BY <2>2, GhostStays DEF ServeTyped, Boxes, Box
<1>2. ASSUME NEW b, NEW c, NEW i \in Serve, NEW j \in Serve, Launched(b, i), Launched(c, j)
      PROVE  b.owner = c.owner
  BY <1>2, ServeModelMoves DEF Launched, OneAtATime
<1>3. ASSUME NEW b \in box \cup late, NEW c \in box \cup late,
             b.name = c.name, b.name[2] = "rank", b.owner # c.owner
      PROVE  Ghost(b.owner)' \/ Ghost(c.owner)'
  <2>1. Ghost(b.owner) \/ Ghost(c.owner)
    BY <1>3 DEF NotMixed
  <2>2. b.owner \in Serve /\ c.owner \in Serve
    BY DEF ServeTyped, Boxes, Box
  <2>. QED
    BY <2>1, <2>2, GhostStays
<1>. SUFFICES ASSUME NEW b \in box' \cup late', NEW c \in box' \cup late',
                     b.name = c.name, b.name[2] = "rank", b.owner # c.owner
              PROVE  Ghost(b.owner)' \/ Ghost(c.owner)'
  BY DEF NotMixed
<1>4. /\ (\E d \in box \cup late : Same(b, d)) \/ \E j \in Serve : Launched(b, j)
      /\ (\E d \in box \cup late : Same(c, d)) \/ \E j \in Serve : Launched(c, j)
  BY Sources DEF Same
<1>5. ASSUME NEW d \in box \cup late, Same(b, d), NEW e \in box \cup late, Same(c, e)
      PROVE  Ghost(b.owner)' \/ Ghost(c.owner)'
  BY <1>3, <1>5 DEF Same
<1>6. ASSUME NEW d \in box \cup late, Same(b, d), NEW j \in Serve, Launched(c, j)
      PROVE  Ghost(b.owner)'
  BY <1>1, <1>6 DEF Same, Launched
<1>7. ASSUME NEW d \in box \cup late, Same(c, d), NEW j \in Serve, Launched(b, j)
      PROVE  Ghost(c.owner)'
  BY <1>1, <1>7 DEF Same, Launched
<1>. QED
  BY <1>2, <1>4, <1>5, <1>6, <1>7

LEMMA OwnedInvariant == Spec => []Owned
<1>1. Init => Owned
  <2>. SUFFICES ASSUME Init PROVE Owned
    OBVIOUS
  <2>1. OneAtATime /\ AllShaped /\ \A j \in Serve : Cleared(j)
    BY DEF Init, OneAtATime, Working, Live, AllShaped, Shaped, Cleared
  <2>2. LateOver /\ Unique /\ AtHome /\ NotMixed
    BY DEF Init, LateOver, Unique, AtHome, NotMixed
  <2>. QED
    BY <2>1, <2>2 DEF Owned
<1>2. ServeTyped /\ Lined /\ Undone /\ Tidy /\ Owned /\ [Next]_vars => Owned'
  <2>. SUFFICES ASSUME ServeTyped, Lined, Undone, Tidy, Owned, [Next]_vars PROVE Owned'
    OBVIOUS
  <2>1. OneAtATime' /\ AllShaped' /\ Unique' /\ AtHome'
    BY OneStep, ShapedStep, UniqueStep, AtHomeStep DEF Owned
  <2>2. LateOver' /\ NotMixed'
    BY LateOverStep, NotMixedStep DEF Owned, Tidy
  <2>3. \A j \in Serve : Cleared(j)'
    BY ClearedStep DEF Owned, Tidy
  <2>. QED
    BY <2>1, <2>2, <2>3 DEF Owned
<1>. QED
  BY <1>1, <1>2, ServeInvariant, TroubledInvariant, PTL DEF Spec
-----------------------------------------------------------------------------
(* What the summary makes of them.                                         *)

LEMMA RankOnIs ==
  /\ Cardinality(Worker) \in Nat /\ Cardinality(Node) = Cardinality(Worker) + 1 /\ IsFiniteSet(Node)
  /\ RankOn[Host] = 0
  /\ \A w \in Worker : RankOn[w] \in Nat /\ RankOn[w] >= 1 /\ RankOn[w] < Cardinality(Node)
<1>. DEFINE N == Cardinality(Worker)
            Ranks(f) == f[Host] = 0 /\ \A m, n \in Node : f[m] = f[n] => m = n
<1>1. N \in Nat /\ \E g : g \in Bijection(1..N, Worker)
  BY ViewAssumption, FS_CardinalityType DEF ExistsBijection
<1>2. Cardinality(Node) = N + 1 /\ IsFiniteSet(Node)
  BY ViewAssumption, FS_AddElement
<1>. HIDE DEF N
<1>3. PICK g \in [1..N -> Worker] : \A w \in Worker : \E i \in 1..N : g[i] = w
  BY <1>1 DEF Bijection, Injection, Surjection
<1>. DEFINE f == [n \in Node |-> IF n = Host THEN 0 ELSE CHOOSE i \in 1..N : g[i] = n]
<1>4. \A w \in Worker : f[w] \in 1..N /\ g[f[w]] = w
  <2>. TAKE w \in Worker
  <2>1. w # Host /\ f[w] = CHOOSE i \in 1..N : g[i] = w
    OBVIOUS
  <2>. HIDE DEF f
  <2>. QED
    BY <1>3, <2>1
<1>5. f[Host] = 0 /\ f \in [Node -> 0..N]
  <2>1. \A n \in Node : f[n] \in 0..N
    BY <1>1, <1>4
  <2>. QED
    BY <2>1
<1>. HIDE DEF f
<1>6. Ranks(f)
  BY <1>1, <1>4, <1>5
<1>7. RankOn = CHOOSE r \in [Node -> 0..N] : Ranks(r)
  BY DEF RankOn, N
<1>. HIDE DEF Ranks
<1>8. RankOn \in [Node -> 0..N] /\ Ranks(RankOn)
  BY <1>5, <1>6, <1>7
<1>9. \A w \in Worker : RankOn[w] \in 0..N /\ RankOn[w] # RankOn[Host]
  BY <1>8 DEF Ranks
<1>10. RankOn[Host] = 0 /\ \A w \in Worker : RankOn[w] \in Nat /\ RankOn[w] >= 1 /\ RankOn[w] < N + 1
  BY <1>1, <1>8, <1>9 DEF Ranks
<1>. QED
  BY <1>1, <1>2, <1>10 DEF N

LEMMA TwoNodes == ASSUME Worker # {} PROVE Cardinality(Node) >= 2
<1>1. PICK w \in Worker : TRUE
  OBVIOUS
<1>2. RankOn[w] \in Nat /\ RankOn[w] >= 1 /\ RankOn[w] < Cardinality(Node) /\ Cardinality(Node) \in Nat
  BY RankOnIs
<1>. QED
  BY <1>2

LEMMA TheOne == \A x : The({x}) = x
BY DEF The

\* What is listed of one container.
LEMMA OneContainer ==
  ASSUME ServeTyped, AtHome, Engine \subseteq SaysTp, NEW b \in box
  PROVE  /\ b.node \in Node /\ b.owner \in Serve /\ b.name = <<b.name[1], b.name[2]>>
         /\ enrich_containers(b).up = Up(b) /\ enrich_containers(b).name.stem = b.name[1]
         /\ enrich_containers(b).headless = Headless(b)
         /\ enrich_containers(b).node_rank = rank_from_container_name(enrich_containers(b).name)
         /\ \/ /\ b.name[2] = "rank" /\ TpSize(b) = {Cardinality(Node)}
               /\ rank_from_container_name(enrich_containers(b).name) = {RankOn[b.node]}
               /\ Headless(b) <=> b.node # Host
            \/ /\ b.name[2] = "solo" /\ b.node = Host /\ TpSize(b) = {1} /\ ~Headless(b)
               /\ rank_from_container_name(enrich_containers(b).name) = {}
<1>1. b.node \in Node /\ b.owner \in Serve /\ b.name \in Engine \X {"solo", "rank"}
  BY DEF ServeTyped, Boxes, Box
<1>2. /\ ListedName(b) = [stem |-> b.name[1], rank |-> IF b.name[2] = "rank" THEN {RankOn[b.node]} ELSE {}]
      /\ enrich_containers(b).name = ListedName(b)
  BY DEF ListedName, enrich_containers, None
<1>3. CASE b.name[2] = "rank"
  <2>1. rank_from_container_name(ListedName(b)) = {RankOn[b.node]}
    BY <1>2, <1>3 DEF rank_from_container_name
  <2>2. Headless(b) <=> b.node # Host
    BY <1>1, <2>1, RankOnIs DEF Headless
  <2>. QED
    BY <1>1, <1>2, <1>3, <2>1, <2>2 DEF TpSize, enrich_containers
<1>4. CASE b.name[2] = "solo"
  <2>1. rank_from_container_name(ListedName(b)) = {}
    BY <1>2, <1>4 DEF rank_from_container_name
  <2>2. ~Headless(b) /\ b.node = Host
    BY <1>4, <2>1 DEF Headless, AtHome
  <2>. QED
    BY <1>1, <1>2, <1>4, <2>1, <2>2 DEF TpSize, enrich_containers
<1>. QED
  BY <1>1, <1>3, <1>4

LEMMA ServersAreAtHome ==
  ASSUME ServeTyped, AtHome, Engine \subseteq SaysTp, NEW w \in Worker
  PROVE  probe_models(w) = {}
BY OneContainer DEF probe_models

LEMMA AnyOne ==
  /\ \A s, m : s = {} /\ m \in AnyOf(s) => m = {}
  /\ \A s, m, x : s = {x} /\ m \in AnyOf(s) => m = {x}
<1>1. ASSUME NEW m, NEW s, s = {}, m \in AnyOf(s) PROVE m = {}
  BY <1>1 DEF AnyOf, None
<1>2. ASSUME NEW m, NEW s, NEW x, s = {x}, m \in AnyOf(s) PROVE m = {x}
  <2>1. s # {}
    BY <1>2
  <2>2. m \in {{y} : y \in s}
    BY <1>2, <2>1 DEF AnyOf
  <2>. QED
    BY <1>2, <2>2
<1>. QED
  BY <1>1, <1>2

\* One node that answers.
IdsOn(n) == {b.owner : b \in probe_models(n)}
SizesOn(n) == UNION {TpSize(b) : b \in {b \in box : b.node = n}}
ListingOf(n) == {enrich_containers(b) : b \in {b \in box : b.node = n}}

LEMMA Inventory ==
  ASSUME NEW n, NEW young, NEW v \in inventory(n, young)
  PROVE  /\ v.online /\ v.ping /\ v.young = young /\ v.containers = ListingOf(n)
         /\ v.model_id \in AnyOf(IdsOn(n)) /\ v.tp \in AnyOf(SizesOn(n))
BY DEF inventory, IdsOn, SizesOn, ListingOf

LEMMA EmptyNode ==
  ASSUME NEW n, NEW young, NEW v \in inventory(n, young), \A b \in box : b.node # n
  PROVE  v.model_id = {} /\ v.tp = {} /\ node_state(v) = "idle"
<1>1. IdsOn(n) = {} /\ SizesOn(n) = {} /\ ListingOf(n) = {}
  <2>1. {b \in box : b.node = n} = {} /\ probe_models(n) = {}
    BY DEF probe_models
  <2>. QED
    BY <2>1 DEF IdsOn, SizesOn, ListingOf
<1>2. v.model_id = {} /\ v.tp = {} /\ v.containers = {} /\ v.online
  <2>1. v.model_id \in AnyOf(IdsOn(n)) /\ v.tp \in AnyOf(SizesOn(n))
    BY Inventory
  <2>2. v.containers = {} /\ v.online
    BY <1>1, Inventory
  <2>. QED
    BY <1>1, <2>1, <2>2, AnyOne
<1>3. UpOf(v) = {} /\ multinode_worker_rank(v) = {}
  BY <1>2 DEF UpOf, multinode_worker_rank, None
<1>. QED
  BY <1>2, <1>3 DEF node_state, None

LEMMA SilentNode ==
  ASSUME NEW answer
  PROVE  LET v == ProbeFails(answer) IN
         v.model_id = {} /\ v.tp = {} /\ node_state(v) \in {"unreachable", "offline"}
BY DEF ProbeFails, node_state, None

\* A node with one container, which runs.
LEMMA OneOnNode ==
  ASSUME ServeTyped, AtHome, Engine \subseteq SaysTp, NEW b \in box, Up(b), NEW young,
         \A c \in box : c.node = b.node => c = b, NEW v \in inventory(b.node, young)
  PROVE  /\ v.tp = TpSize(b) /\ v.online /\ v.young = young
         /\ b.state = "ready" /\ ~Headless(b) => \A x : x \in v.model_id <=> x = b.owner
         /\ b.state # "ready" \/ Headless(b) => v.model_id = {}
         /\ \A x : x \in node_serve_families(v) <=> x = b.name[1]
         /\ b.name[2] = "rank" /\ b.node # Host =>
              \A x : x \in multinode_worker_rank(v) <=> x = RankOn[b.node]
         /\ b.name[2] # "rank" \/ b.node = Host => multinode_worker_rank(v) = {}
         /\ UpOf(v) # {}
<1>. DEFINE e == enrich_containers(b)
            r == IF b.name[2] = "rank" THEN {RankOn[b.node]} ELSE {}
<1>1. /\ e.up /\ e.name.stem = b.name[1] /\ e.headless = Headless(b) /\ e.node_rank = r
      /\ rank_from_container_name(e.name) = r
  BY OneContainer
<1>2. {c \in box : c.node = b.node} = {b}
  OBVIOUS
<1>3. v.containers = {e} /\ v.online /\ v.young = young
  <2>1. ListingOf(b.node) = {e}
    BY <1>2 DEF ListingOf
  <2>. QED
    BY <2>1, Inventory
<1>4. v.tp = TpSize(b)
  <2>1. \E s : TpSize(b) = {s}
    BY OneContainer
  <2>2. SizesOn(b.node) = TpSize(b)
    BY <1>2 DEF SizesOn
  <2>3. v.tp \in AnyOf(SizesOn(b.node))
    BY Inventory
  <2>. QED
    BY <2>1, <2>2, <2>3, AnyOne
<1>5. v.model_id = IF b.state = "ready" /\ ~Headless(b) THEN {b.owner} ELSE {}
  <2>1. probe_models(b.node) = IF b.state = "ready" /\ ~Headless(b) THEN {b} ELSE {}
    BY DEF probe_models
  <2>2. IdsOn(b.node) = IF b.state = "ready" /\ ~Headless(b) THEN {b.owner} ELSE {}
    BY <2>1 DEF IdsOn
  <2>3. v.model_id \in AnyOf(IdsOn(b.node))
    BY Inventory
  <2>. QED
    BY <2>2, <2>3, AnyOne
<1>. HIDE DEF e
<1>6. UpOf(v) = {e}
  BY <1>1, <1>3 DEF UpOf
<1>7. \A x : x \in node_serve_families(v) <=> x = b.name[1]
  BY <1>1, <1>6 DEF node_serve_families, container_serve_family
<1>8. multinode_worker_rank(v) = IF b.name[2] = "rank" /\ b.node # Host THEN {RankOn[b.node]} ELSE {}
  <2>. DEFINE named == {x \in UNION {rank_from_container_name(c.name) : c \in UpOf(v)} : x >= 1}
              headless == {x \in UNION {c.node_rank : c \in {c \in UpOf(v) : c.headless}} : x >= 1}
  <2>1. named = {x \in r : x >= 1}
    BY <1>1, <1>6
  <2>2. headless \subseteq {x \in r : x >= 1}
    BY <1>1, <1>6
  <2>3. {x \in r : x >= 1} = IF b.name[2] = "rank" /\ b.node # Host THEN {RankOn[b.node]} ELSE {}
    BY RankOnIs, OneContainer
  <2>4. multinode_worker_rank(v) = IF named # {} THEN {The(named)} ELSE IF headless # {} THEN {The(headless)} ELSE {}
    BY DEF multinode_worker_rank, None
  <2>. HIDE DEF named, headless, r
  <2>. QED
    BY <2>1, <2>2, <2>3, <2>4, TheOne
<1>. QED
  BY <1>3, <1>4, <1>5, <1>6, <1>7, <1>8

LEMMA Viewed ==
  ASSUME NEW young, NEW silent, NEW answer, NEW view \in collect_cluster(young, silent, answer)
  PROVE  /\ view[Host] \in inventory(Host, young)
         /\ \A w \in Worker : w \in silent => view[w] = ProbeFails(answer)
         /\ \A w \in Worker : w \notin silent => view[w] \in inventory(w, young)
BY DEF collect_cluster, probe_local, probe_remote_ssh

LEMMA OneHead ==
  ASSUME ServeTyped, AtHome, Engine \subseteq SaysTp, NEW young, NEW silent, NEW answer,
         NEW view \in collect_cluster(young, silent, answer)
  PROVE  /\ \A w \in Worker : view[w].model_id = {}
         /\ Heads(view) \subseteq {Host}
<1>1. ASSUME NEW w \in Worker PROVE view[w].model_id = {}
  <2>1. CASE w \in silent
    BY <2>1, Viewed, SilentNode
  <2>2. CASE w \notin silent
    <3>1. view[w] \in inventory(w, young)
      BY <2>2, Viewed
    <3>2. view[w].model_id \in AnyOf(IdsOn(w))
      BY <3>1, Inventory
    <3>3. IdsOn(w) = {}
      BY ServersAreAtHome DEF IdsOn
    <3>. QED
      BY <3>2, <3>3, AnyOne
  <2>. QED
    BY <2>1, <2>2
<1>2. ASSUME NEW w \in Worker PROVE node_state(view[w]) # "serving"
  BY <1>1 DEF node_state, loading_or_stray, None
<1>. QED
  BY <1>1, <1>2 DEF Heads

\* The state of a node with one container, which runs.
LEMMA StateOfOne ==
  ASSUME ServeTyped, AtHome, Engine \subseteq SaysTp, NEW b \in box, Up(b), NEW young,
         \A c \in box : c.node = b.node => c = b, NEW v \in inventory(b.node, young)
  PROVE  node_state(v) =
           IF b.state = "ready" /\ ~Headless(b) THEN "serving"
           ELSE IF b.name[2] = "rank" /\ b.node # Host THEN "serving_worker"
           ELSE IF young THEN "loading" ELSE "stray"
<1>1. /\ v.online /\ v.young = young /\ UpOf(v) # {}
      /\ v.model_id = {} <=> b.state # "ready" \/ Headless(b)
      /\ multinode_worker_rank(v) = {} <=> b.name[2] # "rank" \/ b.node = Host
  BY OneOnNode
<1>. QED
  BY <1>1 DEF node_state, loading_or_stray, None

\* A rank that another serve left does not pass for one of the serve on this host.
LEMMA NotPassedOff ==
  ASSUME ServeTyped, AtHome, NotMixed, Engine \subseteq SaysTp,
         NEW b \in probe_models(Host), NEW c \in box, c.node # Host, Up(c), b.owner # c.owner,
         OnePerNode, ~Ghost(b.owner), ~Ghost(c.owner),
         NEW young, NEW answer, NEW view \in collect_cluster(young, {}, answer)
  PROVE  ShownModel(view, c.node) # {b.owner}
<1>1. /\ b \in box /\ b.node = Host /\ Up(b) /\ c.node \in Worker
      /\ \A d \in box : (d.node = Host => d = b) /\ (d.node = c.node => d = c)
  BY DEF probe_models, OnePerNode, Up, ServeTyped, Boxes, Box
<1>2. view[Host].tp = TpSize(b) /\ \A x : x \in node_serve_families(view[Host]) <=> x = b.name[1]
  <2>1. view[Host] \in inventory(b.node, young)
    BY <1>1, Viewed
  <2>2. b \in box /\ Up(b) /\ \A d \in box : d.node = b.node => d = b
    BY <1>1
  <2>. QED
    BY <2>1, <2>2, OneOnNode
<1>3. c.name[2] = "rank"
  BY <1>1, OneContainer
<1>4. /\ \A x : x \in node_serve_families(view[c.node]) <=> x = c.name[1]
      /\ \A x : x \in multinode_worker_rank(view[c.node]) <=> x = RankOn[c.node]
  <2>1. view[c.node] \in inventory(c.node, young)
    BY <1>1, Viewed
  <2>2. \A d \in box : d.node = c.node => d = c
    BY <1>1
  <2>. QED
    BY <1>3, <2>1, <2>2, OneOnNode
<1>5. ~ worker_aligned_with_head(view[c.node], view[Host], RankOn[c.node])
  <2>. SUFFICES ASSUME \A tp \in TpSize(b) : RankOn[c.node] < tp, b.name[1] = c.name[1]
                PROVE  FALSE
    BY <1>2, <1>4 DEF worker_aligned_with_head
  <2>1. CASE b.name[2] = "solo"
    <3>1. TpSize(b) = {1}
      BY <1>1, <2>1, OneContainer
    <3>. QED
      BY <1>1, <3>1, RankOnIs
  <2>2. CASE b.name[2] = "rank"
    <3>1. b.name = c.name
      BY <1>1, <1>3, <2>2, OneContainer
    <3>. QED
      BY <1>1, <2>2, <3>1 DEF NotMixed
  <2>. QED
    BY <1>1, <2>1, <2>2, OneContainer
<1>6. Heads(view) = {} \/ c.node \notin Workers(view)
  <2>1. Heads(view) \subseteq {Host}
    BY OneHead
  <2>. QED
    BY <1>4, <1>5, <2>1 DEF Workers
<1>7. ShownModel(view, c.node) = {}
  BY <1>1, <1>6, OneHead DEF ShownModel
<1>. QED
  BY <1>7

\* A serve of one node that is alone.
LEMMA AloneOnHost ==
  ASSUME ServeTyped, Named, AtHome, Unique, Engine \subseteq SaysTp, NEW j \in Serve, ~ask[j].multi,
         box = RunningOf(j), HasAll(j), NEW young \in BOOLEAN, NEW silent \in SUBSET Worker,
         NEW answer, NEW view \in collect_cluster(young, silent, answer)
  PROVE  Mode(view) = Truth(j, young, silent)
<1>1. PICK b \in box : b.node = Host
  BY DEF HasAll
<1>2. \A c \in box : c.node = Host /\ c.name = NameOf(j) /\ Up(c)
  BY DEF HasAll, RunningOf, Named
<1>3. box = {b} /\ Up(b) /\ b.name[2] = "solo" /\ TpSize(b) = {1} /\ ~Headless(b)
  <2>1. box = {b} /\ Up(b)
    BY <1>1, <1>2 DEF Unique
  <2>2. b.name[2] = "solo"
    BY <1>2 DEF NameOf
  <2>. QED
    BY <2>1, <2>2, OneContainer
<1>4. /\ view[Host].tp = {1}
      /\ node_state(view[Host]) = IF b.state = "ready" THEN "serving" ELSE IF young THEN "loading" ELSE "stray"
  <2>1. view[Host] \in inventory(b.node, young)
    BY <1>1, Viewed
  <2>. QED
    BY <1>1, <1>3, <2>1, OneOnNode, StateOfOne
<1>5. ASSUME NEW w \in Worker
      PROVE  view[w].tp = {} /\ node_state(view[w]) \in {"idle", "unreachable", "offline"}
  <2>1. CASE w \in silent
    BY <2>1, Viewed, SilentNode
  <2>2. CASE w \notin silent
    <3>1. view[w] \in inventory(w, young) /\ \A c \in box : c.node # w
      BY <1>2, <2>2, Viewed
    <3>. QED
      BY <3>1, EmptyNode
  <2>. QED
    BY <2>1, <2>2
<1>6. Workers(view) = {} /\ Heads(view) = IF b.state = "ready" THEN {Host} ELSE {}
  <2>1. \A n \in Node : node_state(view[n]) # "serving_worker"
    BY <1>4, <1>5
  <2>2. \A w \in Worker : node_state(view[w]) # "serving"
    BY <1>5
  <2>. QED
    BY <1>4, <2>1, <2>2 DEF Workers, Heads
<1>7. probe_models(Host) = IF b.state = "ready" THEN {b} ELSE {}
  BY <1>1, <1>3 DEF probe_models
<1>8. CASE b.state = "ready"
  <2>1. tensor_parallel_hint(view) \subseteq {0, 1}
    BY <1>4, <1>5, <1>6 DEF tensor_parallel_hint
  <2>2. Cardinality({Host}) = 1
    BY FS_Singleton
  <2>3. Heads(view) \cup Workers(view) = {Host} /\ ~(\E hint \in tensor_parallel_hint(view) : hint >= 2)
    BY <1>6, <1>8, <2>1
  <2>. QED
    BY <1>7, <1>8, <2>2, <2>3 DEF Mode, Truth
<1>9. CASE b.state # "ready"
  <2>1. Heads(view) \cup Workers(view) = {}
    BY <1>6, <1>9
  <2>2. (\E n \in Node : node_state(view[n]) = "loading") <=> young
    BY <1>4, <1>5, <1>9
  <2>. QED
    BY <1>7, <1>9, <2>1, <2>2 DEF Mode, Truth
<1>. QED
  BY <1>8, <1>9

\* A serve across the nodes that is alone and complete.
LEMMA AloneOnAll ==
  ASSUME ServeTyped, Named, AtHome, Unique, Engine \subseteq SaysTp, Worker # {}, NEW j \in Serve, ask[j].multi,
         box = RunningOf(j), HasAll(j), probe_models(Host) # {}, NEW young \in BOOLEAN,
         NEW silent \in SUBSET Worker, NEW answer, NEW view \in collect_cluster(young, silent, answer)
  PROVE  Mode(view) = Truth(j, young, silent)
<1>1. \A b \in box : /\ b.owner = j /\ Up(b) /\ b.name = NameOf(j) /\ b.name[2] = "rank"
                     /\ TpSize(b) = {Cardinality(Node)} /\ \A c \in box : c.node = b.node => c = b
  <2>1. \A b \in box : b.owner = j /\ Up(b) /\ b.name = NameOf(j)
    BY DEF RunningOf, Named
  <2>2. \A b \in box : b.name[2] = "rank"
    BY <2>1 DEF NameOf
  <2>3. \A b \in box : TpSize(b) = {Cardinality(Node)}
    BY <2>2, OneContainer
  <2>4. \A b, c \in box : c.node = b.node => c = b
    BY <2>1 DEF Unique
  <2>. QED
    BY <2>1, <2>2, <2>3, <2>4
<1>2. \A n \in Node : \E b \in box : b.node = n
  BY DEF HasAll
<1>3. PICK b \in box : b.node = Host /\ b.state = "ready" /\ ~Headless(b)
  BY DEF probe_models
<1>4. /\ view[Host].tp = {Cardinality(Node)} /\ view[Host].model_id = {j}
      /\ node_state(view[Host]) = "serving" /\ \A x : x \in node_serve_families(view[Host]) <=> x = NameOf(j)[1]
  <2>1. view[Host] \in inventory(b.node, young)
    BY <1>3, Viewed
  <2>2. b.owner = j /\ Up(b) /\ b.name = NameOf(j) /\ TpSize(b) = {Cardinality(Node)}
    BY <1>1
  <2>3. \A c \in box : c.node = b.node => c = b
    BY <1>1
  <2>4. view[Host].tp = TpSize(b) /\ \A x : x \in node_serve_families(view[Host]) <=> x = b.name[1]
    BY <2>1, <2>2, <2>3, OneOnNode
  <2>5. \A x : x \in view[Host].model_id <=> x = b.owner
    BY <1>3, <2>1, <2>2, <2>3, OneOnNode
  <2>6. node_state(view[Host]) = "serving"
    BY <1>3, <2>1, <2>2, <2>3, StateOfOne
  <2>. QED
    BY <1>3, <2>2, <2>4, <2>5, <2>6
<1>5. Heads(view) = {Host}
  BY <1>4, OneHead DEF Heads
<1>6. ASSUME NEW w \in silent PROVE w \notin Workers(view)
  BY Viewed, SilentNode DEF Workers
<1>7. ASSUME NEW w \in Worker \ silent PROVE w \in Workers(view)
  <2>1. PICK c \in box : c.node = w
    BY <1>2
  <2>2. view[w] \in inventory(c.node, young) /\ c.node # Host
    BY <1>7, <2>1, Viewed
  <2>3. /\ \A x : x \in node_serve_families(view[w]) <=> x = NameOf(j)[1]
        /\ \A x : x \in multinode_worker_rank(view[w]) <=> x = RankOn[w]
    <3>1. Up(c) /\ c.name = NameOf(j) /\ c.name[2] = "rank"
      BY <1>1
    <3>2. \A d \in box : d.node = c.node => d = c
      BY <1>1
    <3>. QED
      BY <2>1, <2>2, <3>1, <3>2, OneOnNode
  <2>4. node_state(view[w]) = "serving_worker"
    BY <1>1, <2>1, <2>2, StateOfOne, OneContainer
  <2>5. worker_aligned_with_head(view[w], view[Host], RankOn[w])
    BY <1>4, <2>3, RankOnIs DEF worker_aligned_with_head
  <2>. QED
    BY <1>5, <2>3, <2>4, <2>5 DEF Workers
<1>8. Workers(view) = Worker \ silent
  <2>1. Host \notin Workers(view)
    BY <1>4 DEF Workers
  <2>. QED
    BY <1>6, <1>7, <2>1 DEF Workers
<1>. DEFINE serving == Heads(view) \cup Workers(view)
<1>9. CASE silent = Worker
  <2>1. serving = {Host} /\ Workers(view) = {}
    BY <1>5, <1>8, <1>9
  <2>2. Cardinality({Host}) = 1
    BY FS_Singleton
  <2>3. Cardinality(Node) \in tensor_parallel_hint(view)
    BY <1>4 DEF tensor_parallel_hint
  <2>4. Cardinality(Node) >= 2
    BY TwoNodes
  <2>. QED
    BY <1>9, <2>1, <2>2, <2>3, <2>4 DEF Mode, Truth
<1>10. CASE silent # Worker
  <2>1. PICK w \in Worker : w \notin silent
    BY <1>10
  <2>2. Host \in serving /\ w \in serving /\ serving \subseteq Node
    BY <1>5, <1>8, <2>1
  <2>3. serving # {} /\ Cardinality(serving) # 1
    <3>1. IsFiniteSet(serving)
      BY <2>2, RankOnIs, FS_Subset
    <3>2. ~(\E x : serving = {x})
      BY <2>1, <2>2
    <3>. HIDE DEF serving
    <3>. QED
      BY <2>2, <3>1, <3>2, FS_Singleton
  <2>4. \A n \in serving : ShownModel(view, n) = {j}
    BY <1>4, <1>5, <1>8 DEF ShownModel
  <2>5. UNION {ShownModel(view, n) : n \in serving} = {j}
    <3>. HIDE DEF serving
    <3>. QED
      BY <2>2, <2>4
  <2>6. Cardinality({j}) = 1
    BY FS_Singleton
  <2>. QED
    BY <1>10, <2>3, <2>5, <2>6 DEF Mode, Truth
<1>. QED
  BY <1>9, <1>10

\* Where the command for one node names its size and a cluster has a worker, the summary
\* never shows a rank that another serve left with the model served on this host, and tells
\* a serve that runs alone and complete as what it is, whoever answers (node_probe.py,
\* cluster.py).  Without the size it does neither.
THEOREM SummariesAreTrue == ASSUME Engine \subseteq SaysTp, Worker # {} PROVE Spec => []SummaryIsTrue
<1>1. ServeTyped /\ Named /\ Owned => SummaryIsTrue
  <2>. SUFFICES ASSUME ServeTyped, Named, Owned PROVE SummaryIsTrue
    OBVIOUS
  <2>1. ASSUME NEW b \in probe_models(Host), NEW c \in {c \in box : c.node # Host /\ Up(c)},
               b.owner # c.owner, OnePerNode, ~Ghost(b.owner), ~Ghost(c.owner),
               NEW view \in collect_cluster(TRUE, {}, "ping")
        PROVE  ShownModel(view, c.node) # {b.owner}
    BY <2>1, NotPassedOff DEF Owned
  <2>2. ASSUME NEW j \in Serve, box = RunningOf(j), HasAll(j), ask[j].multi => probe_models(Host) # {},
               NEW young \in BOOLEAN, NEW silent \in SUBSET Worker, NEW answer \in Silence,
               NEW view \in collect_cluster(young, silent, answer)
        PROVE  Mode(view) = Truth(j, young, silent)
    BY <2>2, AloneOnHost, AloneOnAll DEF Owned
  <2>. QED
    BY <2>1, <2>2 DEF SummaryIsTrue
<1>. QED
  BY <1>1, ServeInvariant, OwnedInvariant, PTL
=============================================================================
