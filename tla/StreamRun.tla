----------------------------- MODULE StreamRun -----------------------------
(***************************************************************************)
(* The life of the streams runs of one controller: createRun, execute,     *)
(* finish, fail, stop and the idle timer of StreamsEngine                  *)
(* (packages/backend/src/streams/engine.ts).                               *)
(*                                                                         *)
(* JavaScript runs one handler at a time: a step is what happens between   *)
(* two awaits, and everything else may happen at an await.  phase[r] is    *)
(* the await the code of run r is at.  The events a run emits are module   *)
(* FanOut's, the other side of its lease is module BenchExclusion's.       *)
(***************************************************************************)
EXTENDS Naturals, Sequences, FiniteSets

CONSTANTS
  Run,         \* ids of the calls of createRun, one run each
  Base,        \* base_urls
  Mode,        \* the modes asked for: "load", "bench-decode", "bench-prefill"
  Strand,      \* the strands of a run
  Plan,        \* Plan[l][w]: the strands of wave w of level l
  TooLong,     \* levels whose prompt does not fit max_model_len
  RecentKeep   \* RECENT_KEEP

ASSUME StreamRunAssumption ==
  /\ Mode \subseteq {"load", "bench-decode", "bench-prefill"}
  /\ Plan \in Seq(Seq(SUBSET Strand)) /\ Plan # <<>>
  /\ \A s \in Strand : \E l \in DOMAIN Plan : \E w \in DOMAIN Plan[l] : s \in Plan[l][w]
  /\ \A l \in DOMAIN Plan : Plan[l] # <<>>
  /\ RecentKeep \in Nat \ {0}

VARIABLES
  phase,      \* phase[r]: where the code of run r stands
  mode, base, \* of each call's request
  status,     \* status[r]: run.status, "none" before the run exists
  aborted,    \* aborted[r]: run.ctrl.signal.aborted
  cancelled,  \* cancelled[r]: the local of finish()
  lease,      \* lease[r]: createRun's `lease`, then run.lease
  strand,     \* strand[r][s]: s.state
  level,      \* level[r], wave[r]: of the bench loops
  wave,
  okArm,      \* okArm[r]: some arm has an ok strand
  order,      \* this.order: the ids of this.runs, oldest first
  watched,    \* watched[r]: run.subscribers is not empty
  idle        \* idle[r]: run.idleTimer is armed

askVars == <<mode, base>>
loopVars == <<level, wave, okArm>>
watchVars == <<watched, idle>>
vars == <<phase, askVars, status, aborted, cancelled, lease, strand, loopVars,
          order, watchVars>>

Creating == {"resolving", "leasing", "probing"}
Executing == {"warmup", "begin", "wave", "end", "reading", "importing"}
Phase == {"idle", "refused", "over"} \cup Creating \cup Executing
Open == {"prefill", "decode"}
Ended == {"done", "error", "cancelled"}

Running == {r \in Run : status[r] = "running"}
\* activeFor(base_url)
Active(b) == \E r \in Running : base[r] = b
IsBench(r) == mode[r] # "load"

Init ==
  /\ phase = [r \in Run |-> "idle"]
  /\ mode \in [Run -> Mode] /\ base \in [Run -> Base]
  /\ status = [r \in Run |-> "none"]
  /\ aborted = [r \in Run |-> FALSE]
  /\ cancelled = [r \in Run |-> FALSE]
  /\ lease = [r \in Run |-> FALSE]
  /\ strand = [r \in Run |-> [s \in Strand |-> "waiting"]]
  /\ level = [r \in Run |-> 1]
  /\ wave = [r \in Run |-> 1]
  /\ okArm = [r \in Run |-> FALSE]
  /\ order = <<>>
  /\ watched = [r \in Run |-> FALSE]
  /\ idle = [r \in Run |-> FALSE]

Goto(r, p) == phase' = [phase EXCEPT ![r] = p]
-----------------------------------------------------------------------------
(* createRun                                                               *)

\* Any of its throws.
Refuse(r) ==
  /\ Goto(r, "refused")
  /\ lease' = [lease EXCEPT ![r] = FALSE]
  /\ UNCHANGED <<askVars, status, aborted, cancelled, strand, loopVars, order,
                 watchVars>>

Continue(r, p) ==
  /\ Goto(r, p)
  /\ UNCHANGED <<askVars, status, aborted, cancelled, lease, strand, loopVars,
                 order, watchVars>>

\* The first conflict(), after withServingBase found the base_url.
Call(r) ==
  /\ phase[r] = "idle"
  /\ IF Active(base[r]) THEN Refuse(r) ELSE Continue(r, "resolving")

\* evict(): of the runs that are over, the oldest, until RecentKeep are left.
Victims ==
  LET over == {i \in DOMAIN order : status[order[i]] # "running"}
  IN  {order[i] : i \in {i \in over :
         RecentKeep + Cardinality({j \in over : j <= i}) <= Len(order) + 1}}

\* runWave: an aborted run cancels a strand instead of starting it.
Started(r, now) ==
  [s \in Strand |-> IF s \notin now THEN strand[r][s]
                    ELSE IF aborted[r] THEN "cancelled" ELSE "prefill"]

\* The run is registered, others are evicted, execute() is entered: a load
\* run's first arrivals start.  A load run gets its idle timer.
Create(r) ==
  /\ status' = [status EXCEPT ![r] = "running"]
  /\ Goto(r, IF IsBench(r) THEN "warmup" ELSE "wave")
  /\ \E now \in SUBSET Strand :
       /\ IsBench(r) <=> now = {}
       /\ strand' = [strand EXCEPT ![r] = Started(r, now)]
  /\ LET Kept(q) == q \notin Victims IN order' = Append(SelectSeq(order, Kept), r)
  /\ idle' = [idle EXCEPT ![r] = ~IsBench(r)]
  /\ UNCHANGED <<askVars, aborted, cancelled, lease, loopVars, watched>>

\* The second conflict(), after resolveModel.
Resolve(r) ==
  /\ phase[r] = "resolving"
  /\ IF Active(base[r]) THEN Refuse(r)
     ELSE IF IsBench(r) THEN Continue(r, "leasing")
     ELSE Create(r)

\* resolveModel or acquireBenchLease made createRun throw.
CreateFails(r) ==
  /\ phase[r] \in {"resolving", "leasing"}
  /\ Refuse(r)

\* acquireBenchLease: granted, or no serve-engine answered.
LeaseAnswered(r, got) ==
  /\ phase[r] = "leasing"
  /\ Goto(r, "probing")
  /\ lease' = [lease EXCEPT ![r] = got]
  /\ UNCHANGED <<askVars, status, aborted, cancelled, strand, loopVars, order,
                 watchVars>>

\* Mistake: no conflict() after the lease.
ProbeUnchecked(r) == phase[r] = "probing" /\ Create(r)

\* After readServeStatus: the third conflict().
Probe(r) ==
  /\ phase[r] = "probing"
  /\ IF Active(base[r]) THEN Refuse(r) ELSE Create(r)
-----------------------------------------------------------------------------
(* The end of a run                                                        *)

\* In these, st are the run's strands as the step leaves them.

\* Mistake: fail() does not stop the timers, which release the lease.
FailKeepingLease(r, st) ==
  /\ Goto(r, "over")
  /\ status' = [status EXCEPT ![r] = "error"]
  /\ aborted' = [aborted EXCEPT ![r] = TRUE]
  /\ strand' = [strand EXCEPT ![r] = st]
  /\ UNCHANGED <<askVars, cancelled, lease, loopVars, order, watchVars>>

\* fail(): stopTimers, abort, status.
Fail(r, st) ==
  /\ Goto(r, "over")
  /\ status' = [status EXCEPT ![r] = "error"]
  /\ aborted' = [aborted EXCEPT ![r] = TRUE]
  /\ lease' = [lease EXCEPT ![r] = FALSE]
  /\ idle' = [idle EXCEPT ![r] = FALSE]
  /\ strand' = [strand EXCEPT ![r] = st]
  /\ UNCHANGED <<askVars, cancelled, loopVars, order, watched>>

CancelWaiting(st) ==
  [s \in Strand |-> IF st[s] = "waiting" THEN "cancelled" ELSE st[s]]

\* The end of finish(): `done` is emitted.
Conclude(r, outcome) ==
  /\ Goto(r, "over")
  /\ status' = [status EXCEPT ![r] = outcome]
  /\ lease' = [lease EXCEPT ![r] = FALSE]
  /\ idle' = [idle EXCEPT ![r] = FALSE]
  /\ UNCHANGED <<askVars, aborted, loopVars, order, watched>>

\* finish() up to its first await.  A bench without an ok arm has failed.
Finish(r, ok, st) ==
  \/ IsBench(r) /\ ~aborted[r] /\ ~ok /\ Fail(r, st)
  \/ /\ IsBench(r) /\ (aborted[r] \/ ok)
     /\ Goto(r, "reading")
     /\ cancelled' = [cancelled EXCEPT ![r] = aborted[r]]
     /\ strand' = [strand EXCEPT ![r] = st]
     /\ UNCHANGED <<askVars, status, aborted, lease, loopVars, order, watchVars>>
  \/ /\ ~IsBench(r)
     /\ cancelled' = [cancelled EXCEPT ![r] = aborted[r]]
     /\ strand' = [strand EXCEPT ![r] = IF aborted[r] THEN CancelWaiting(st) ELSE st]
     /\ Conclude(r, IF aborted[r] THEN "cancelled" ELSE "done")

\* readServeStatus answered: the timers stop, the lease goes; a cancelled run
\* ends, the result of the others is imported.
ReadDone(r) ==
  /\ phase[r] = "reading"
  /\ \/ /\ cancelled[r]
        /\ strand' = [strand EXCEPT ![r] = CancelWaiting(@)]
        /\ Conclude(r, "cancelled")
        /\ UNCHANGED cancelled
     \/ /\ ~cancelled[r]
        /\ Goto(r, "importing")
        /\ lease' = [lease EXCEPT ![r] = FALSE]
        /\ UNCHANGED <<askVars, status, aborted, cancelled, strand, loopVars,
                       order, watchVars>>

\* importEnvelope answered, or failed, or timed out.
ImportDone(r) ==
  /\ phase[r] = "importing"
  /\ Conclude(r, "done")
  /\ UNCHANGED <<cancelled, strand>>
-----------------------------------------------------------------------------
(* execute                                                                 *)

\* warmup(): its request was answered, failed, or was aborted.
Warmup(r) ==
  /\ phase[r] = "warmup"
  /\ \/ Continue(r, "begin")
     \/ ~aborted[r] /\ Fail(r, strand[r])
     \/ aborted[r] /\ Finish(r, okArm[r], strand[r])

WaveOf(l, w) == Plan[l][w]
LevelOf(l) == UNION {Plan[l][w] : w \in DOMAIN Plan[l]}
Wave(r) == IF IsBench(r) THEN WaveOf(level[r], wave[r]) ELSE Strand

\* beginLevel (a prefill bench: buildPrefillPrompt too) is over: the burst.
BeginWave(r) ==
  /\ phase[r] = "begin" /\ ~aborted[r]
  /\ ~(mode[r] = "bench-prefill" /\ level[r] \in TooLong)
  /\ Goto(r, "wave")
  /\ strand' = [strand EXCEPT ![r] = Started(r, Wave(r))]
  /\ UNCHANGED <<askVars, status, aborted, cancelled, lease, loopVars, order,
                 watchVars>>

\* Mistake: an aborted sleep does not end.
ArriveUnaborted(r, s) ==
  /\ phase[r] = "wave" /\ ~IsBench(r) /\ strand[r][s] = "waiting" /\ ~aborted[r]
  /\ strand' = [strand EXCEPT ![r][s] = "prefill"]
  /\ UNCHANGED <<phase, askVars, status, aborted, cancelled, lease, loopVars,
                 order, watchVars>>

\* A strand of a load run whose arrival delay is over (or cut by the abort).
Arrive(r, s) ==
  /\ phase[r] = "wave" /\ ~IsBench(r) /\ strand[r][s] = "waiting"
  /\ strand' = [strand EXCEPT ![r][s] = IF aborted[r] THEN "cancelled" ELSE "prefill"]
  /\ UNCHANGED <<phase, askVars, status, aborted, cancelled, lease, loopVars,
                 order, watchVars>>

FirstToken(r, s) ==
  /\ strand[r][s] = "prefill"
  /\ strand' = [strand EXCEPT ![r][s] = "decode"]
  /\ UNCHANGED <<phase, askVars, status, aborted, cancelled, lease, loopVars,
                 order, watchVars>>

\* The upstream ends the stream, breaks it, or the abort does.
StrandEnds(r, s) ==
  /\ strand[r][s] \in Open
  /\ \E st \in Ended : /\ st = "cancelled" => aborted[r]
                       /\ st = "done" => strand[r][s] = "decode"
                       /\ strand' = [strand EXCEPT ![r][s] = st]
  /\ UNCHANGED <<phase, askVars, status, aborted, cancelled, lease, loopVars,
                 order, watchVars>>

\* Mistake: Promise.race.
WaveEndsEarly(r) ==
  /\ phase[r] = "wave" /\ ~IsBench(r)
  /\ \E s \in Wave(r) : strand[r][s] \in Ended
  /\ Finish(r, TRUE, strand[r])

\* Promise.all: the wave is over when all its strands are.  A load run has only
\* one; a decode bench goes on to the next at once, a prefill bench first
\* builds the next prompt.
WaveEnds(r) ==
  /\ phase[r] = "wave"
  /\ \A s \in Wave(r) : strand[r][s] \in Ended
  /\ \/ ~IsBench(r) /\ Finish(r, TRUE, strand[r])
     \/ /\ IsBench(r)
        /\ LET more == wave[r] < Len(Plan[level[r]]) /\ ~aborted[r]
               burst == more /\ mode[r] = "bench-decode"
           IN  /\ Goto(r, IF burst THEN "wave" ELSE IF more THEN "begin" ELSE "end")
               /\ wave' = [wave EXCEPT ![r] = IF more THEN @ + 1 ELSE @]
               /\ strand' = [strand EXCEPT ![r] =
                    IF burst THEN Started(r, WaveOf(level[r], wave[r] + 1)) ELSE @]
        /\ UNCHANGED <<askVars, status, aborted, cancelled, lease, level, okArm,
                       order, watchVars>>

\* An arm is pushed; then the next level, or finish().
Advance(r, ok, st) ==
  IF level[r] < Len(Plan)
    THEN /\ Goto(r, "begin")
         /\ level' = [level EXCEPT ![r] = @ + 1]
         /\ wave' = [wave EXCEPT ![r] = 1]
         /\ okArm' = [okArm EXCEPT ![r] = ok]
         /\ strand' = [strand EXCEPT ![r] = st]
         /\ UNCHANGED <<askVars, status, aborted, cancelled, lease, order, watchVars>>
    ELSE Finish(r, ok, st)

\* endLevel's scrape answered (an aborted run makes none).
LevelEnds(r) ==
  LET ok == \E s \in LevelOf(level[r]) : strand[r][s] = "done" IN
  /\ phase[r] = "end"
  /\ IF aborted[r] THEN Finish(r, okArm[r], strand[r])
                   ELSE Advance(r, okArm[r] \/ ok, strand[r])

\* The loops' `if (aborted) break`.
Break(r) ==
  /\ phase[r] = "begin" /\ aborted[r]
  /\ Finish(r, okArm[r], strand[r])

\* A prefill size that does not fit: its strands are cancelled, no wave runs.
SkipLevel(r) ==
  /\ phase[r] = "begin" /\ ~aborted[r]
  /\ mode[r] = "bench-prefill" /\ level[r] \in TooLong
  /\ Advance(r, okArm[r], [s \in Strand |-> IF s \in LevelOf(level[r])
                                               THEN "cancelled" ELSE strand[r][s]])
-----------------------------------------------------------------------------
(* What the viewers do, and the idle timer                                 *)

Abort(r) == aborted' = [aborted EXCEPT ![r] = TRUE]

Stop(r) ==
  /\ status[r] = "running" /\ ~aborted[r]
  /\ Abort(r)
  /\ UNCHANGED <<phase, askVars, status, cancelled, lease, strand, loopVars,
                 order, watchVars>>

\* subscribe(): the idle timer is disarmed.
Attach(r) ==
  /\ status[r] = "running" /\ ~watched[r]
  /\ watched' = [watched EXCEPT ![r] = TRUE]
  /\ idle' = [idle EXCEPT ![r] = FALSE]
  /\ UNCHANGED <<phase, askVars, status, aborted, cancelled, lease, strand,
                 loopVars, order>>

\* Mistake: the timer is armed for the first viewer only.
DetachUntimed(r) ==
  /\ watched[r]
  /\ watched' = [watched EXCEPT ![r] = FALSE]
  /\ UNCHANGED <<phase, askVars, status, aborted, cancelled, lease, strand,
                 loopVars, order, idle>>

\* unsubscribe() of the last subscriber, and armIdle().
Detach(r) ==
  /\ watched[r]
  /\ watched' = [watched EXCEPT ![r] = FALSE]
  /\ idle' = [idle EXCEPT ![r] = @ \/ (~IsBench(r) /\ status[r] = "running")]
  /\ UNCHANGED <<phase, askVars, status, aborted, cancelled, lease, strand,
                 loopVars, order>>

IdleFires(r) ==
  /\ idle[r]
  /\ idle' = [idle EXCEPT ![r] = FALSE]
  /\ IF status[r] = "running" /\ ~watched[r] THEN Abort(r) ELSE UNCHANGED aborted
  /\ UNCHANGED <<phase, askVars, status, cancelled, lease, strand, loopVars,
                 order, watched>>
-----------------------------------------------------------------------------
CreateRun(r) == \/ Call(r) \/ Resolve(r) \/ CreateFails(r) \/ Probe(r)
                \/ \E got \in BOOLEAN : LeaseAnswered(r, got)

Execute(r) == \/ Warmup(r) \/ BeginWave(r) \/ WaveEnds(r) \/ LevelEnds(r)
              \/ Break(r) \/ SkipLevel(r) \/ ReadDone(r) \/ ImportDone(r)

StrandStep(r, s) == Arrive(r, s) \/ FirstToken(r, s) \/ StrandEnds(r, s)

Viewer(r) == Stop(r) \/ Attach(r) \/ Detach(r) \/ IdleFires(r)

Next == \E r \in Run : \/ CreateRun(r) \/ Execute(r) \/ Viewer(r)
                       \/ \E s \in Strand : StrandStep(r, s)

Spec == Init /\ [][Next]_vars

\* What the code awaits is answered or times out, a timer fires, and an abort
\* ends the requests it belongs to.  Nothing makes the upstream end a stream.
\* The fair steps are named by what they change: no other action changes these
\* variables that way.
Proceeds(r) ==
  /\ phase[r] \in Executing
  /\ phase[r] = "wave" => \A s \in Wave(r) : strand[r][s] \in Ended
  /\ \E p \in Phase, l \in DOMAIN Plan, w \in 1..Cardinality(Strand) :
       /\ phase' = [phase EXCEPT ![r] = p]
       /\ level' = [level EXCEPT ![r] = l]
       /\ wave' = [wave EXCEPT ![r] = w]
TimesOut(r) == idle[r] /\ idle' = [idle EXCEPT ![r] = FALSE] /\ watched' = watched

FairSpec ==
  /\ Spec
  /\ \A r \in Run :
       /\ WF_<<phase, level, wave>>(Proceeds(r))
       /\ WF_watchVars(TimesOut(r))
       /\ \A s \in Strand : WF_vars(aborted[r] /\ (Arrive(r, s) \/ StrandEnds(r, s)))
-----------------------------------------------------------------------------
(* What can go wrong                                                       *)

\* "a run is already active on ...": two measurements never share an endpoint,
\* however the awaits of their createRuns interleave.
OneRunPerEndpoint == \A r, q \in Running : base[r] = base[q] => r = q

\* A run that is over has no request under way, and a finished one no strand
\* that is still waiting: nothing is emitted after `done`.
NoStrandOutlivesRun ==
  \A r \in Run : \A s \in Strand :
    /\ status[r] \notin {"none", "running"} => strand[r][s] \notin Open
    /\ status[r] \in {"done", "cancelled"} => strand[r][s] \in Ended

\* A bench lease is held only while createRun or the run goes on: a refused,
\* failed, stopped or finished run has given it back.
LeaseFollowsRun == \A r \in Run : lease[r] => phase[r] \in Creating \cup Executing

\* A load run that nobody watches is about to be aborted: the timer is armed,
\* unless the abort is under way.
UnwatchedLoadIsTimed ==
  \A r \in Running : (~IsBench(r) /\ ~watched[r]) => idle[r] \/ aborted[r]

\* A stopped run ends, although its upstream never would; and so does a load
\* run that its viewers left for good.
StoppedRunEnds ==
  \A r \in Run :
    /\ (status[r] = "running" /\ aborted[r]) ~> (status[r] # "running")
    /\ []<>(watched[r] \/ IsBench(r) \/ status[r] # "running")
=============================================================================
