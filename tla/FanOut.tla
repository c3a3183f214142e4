------------------------------- MODULE FanOut -------------------------------
(***************************************************************************)
(* The event fan-out of one streams run: from the chunks the upstream      *)
(* sends (handleChunk, flush, tickAgg, subscribe and the Subscriber queue  *)
(* in packages/backend/src/streams/engine.ts), over one SSE connection per *)
(* viewer (streams/routes.ts), to the view each browser tab rebuilds       *)
(* (streamRunReducer and useStreamRun in apps/web/lib/use-stream-run.ts).  *)
(*                                                                         *)
(* Every engine handler runs without an await, so each is one step.  The   *)
(* text of chunk i of a stream is the number i: a transcript is a sequence *)
(* of chunk numbers, a gap or a repetition shows.  Steps and agg samples   *)
(* are numbered the same way.  A delta and its arrival in the view are one *)
(* step: bytes lost on the wire are lost with the connection.              *)
(***************************************************************************)
EXTENDS Integers, SequencesExt

CONSTANTS
  Strand,       \* the run's strands
  Viewer,       \* the tabs that may follow the run
  TextCap,      \* TEXT_CAP (here in chunks)
  RingCap,      \* TEXT_RING_CHARS of the client (in chunks)
  StepKeep,     \* STEP_KEEP, of both sides
  AggKeep,      \* AGG_KEEP
  QueueCap,     \* QUEUE_HARD_CAP
  ResyncAfter,  \* connection errors before a snapshot is fetched
  Carries,      \* whether a chunk may carry no new token, or none may
  MaxChunks, MaxTicks, MaxLevels, MaxDrops  \* bounds of the model

ASSUME FanOutAssumption ==
  /\ IsFiniteSet(Strand)
  /\ {TextCap, RingCap, StepKeep, AggKeep, QueueCap, ResyncAfter} \subseteq Nat \ {0}
  /\ TextCap <= RingCap
  /\ Carries \subseteq BOOLEAN
  /\ {MaxChunks, MaxTicks, MaxLevels, MaxDrops} \subseteq Nat

VARIABLES
  state,    \* state[s]: s.state
  made,     \* made[s][k]: chunks of stream k so far
  pend,     \* pend[s][k]: of these, the ones in s.pending
  bearing,  \* bearing[s]: chunks that carried tokens; all but the first are steps
  sent,     \* sent[s]: s.stepsSent
  ticks,    \* agg samples so far (the last AggKeep are in run.aggSeries)
  levels,   \* Len(run.levels)
  status,   \* run.status
  sub,      \* sub[v]: the Subscriber of v's connection
  conn,     \* conn[v]: v's EventSource
  errors,   \* errors[v]: the counter of es.onerror
  drops,    \* connections cut so far
  snap,     \* snap[v]: v's snapshot request: none, asked, or read by the engine
  answer,   \* answer[v]: the snapshot on its way to v
  view      \* view[v]: the StreamRunState of v

strandVars == <<state, made, pend, bearing, sent>>
runVars == <<ticks, levels, status>>
viewerVars == <<conn, errors, drops, snap, answer, view>>
vars == <<strandVars, runVars, sub, viewerVars>>

Stream == {"reasoning", "text"}   \* the order flush and subscribe send them in
Ended == {"done", "error", "cancelled"}
StrandState == {"waiting", "prefill", "decode"} \cup Ended

Least(a, b) == IF a < b THEN a ELSE b
\* The last n of 1..total.
Upto(total, n) == [i \in 1..Least(total, n) |-> total - Least(total, n) + i]
\* capTail, appendRing, slice(-n)
LastOf(q, n) == IF Len(q) > n THEN SubSeq(q, Len(q) - n + 1, Len(q)) ELSE q

StepsTotal(s) == IF bearing[s] = 0 THEN 0 ELSE bearing[s] - 1
Strands == SetToSeq(Strand)
\* FoldLeft, as a function of the length: TLC tells it in half the time.
Feed(op(_, _), base, events) ==
  LET after[n \in 0..Len(events)] ==
        IF n = 0 THEN base ELSE op(after[n - 1], events[n])
  IN  after[Len(events)]
-----------------------------------------------------------------------------
(* Events                                                                  *)

Hello == [type |-> "hello"]
Delta(s, k, text) == [type |-> "delta", s |-> s, k |-> k, text |-> text, n |-> Len(text)]
StrandEv(s, st, mode, steps) ==
  [type |-> "strand", s |-> s, state |-> st, mode |-> mode, steps |-> steps]
Agg(t) == [type |-> "agg", t |-> t]
Level(l) == [type |-> "level", l |-> l]
Done == [type |-> "done"]
Error == [type |-> "error"]

\* Mistake: the full event is appended like a live one.
FullEventAppended(s, st) ==
  IF st \in Ended \cup {"decode"}
    THEN StrandEv(s, st, "append", Upto(StepsTotal(s), StepKeep))
    ELSE StrandEv(s, st, "none", <<>>)

\* strandEvent(s, true), and a strand's terminal event: every retained step.
FullEvent(s, st) ==
  IF st \in Ended \cup {"decode"}
    THEN StrandEv(s, st, "replace", Upto(StepsTotal(s), StepKeep))
    ELSE StrandEv(s, st, "none", <<>>)

\* strandEvent(s) of a decoding strand: the steps since stepsSent.
LiveEvent(s) ==
  LET fresh == Least(StepsTotal(s) - sent[s], StepKeep)
  IN  StrandEv(s, "decode", IF fresh = 0 THEN "none" ELSE "append",
               Upto(StepsTotal(s), fresh))

\* flush(): s.pending of every strand, reasoning first.
PendingOf(s, k) ==
  IF pend[s][k] = 0 THEN <<>> ELSE <<Delta(s, k, Upto(made[s][k], pend[s][k]))>>
FlushEvents ==
  FlattenSeq([i \in DOMAIN Strands |->
    PendingOf(Strands[i], "reasoning") \o PendingOf(Strands[i], "text")])
Flushed == [s \in Strand |-> [k \in Stream |-> 0]]

Aggs == [i \in 1..Least(ticks, AggKeep) |-> Agg(ticks - Least(ticks, AggKeep) + i)]

\* What subscribe() pushes.  A replayed delta carries the retained text, but
\* the counts of the whole stream.
RetainedOf(s, k) ==
  IF made[s][k] = 0 THEN <<>>
  ELSE <<[Delta(s, k, Upto(made[s][k], TextCap)) EXCEPT !.n = made[s][k]]>>
StrandReplay(s) ==
  IF state[s] = "waiting" THEN <<>>
  ELSE <<FullEvent(s, state[s])>> \o RetainedOf(s, "reasoning") \o RetainedOf(s, "text")
\* Mistake: a viewer of a cancelled run is not told.
EndingUnlessCancelled == CASE status \in {"running", "cancelled"} -> <<>>
                           [] status = "error" -> <<Error, Done>>
                           [] OTHER -> <<Done>>

Ending == CASE status = "running" -> <<>>
            [] status = "error" -> <<Error, Done>>
            [] OTHER -> <<Done>>
Replay == <<Hello>> \o FlattenSeq([i \in DOMAIN Strands |-> StrandReplay(Strands[i])])
            \o [l \in 1..levels |-> Level(l)] \o Aggs \o Ending
-----------------------------------------------------------------------------
(* Subscriber                                                              *)

NoSub == [queue |-> <<>>, closed |-> TRUE, attached |-> FALSE]
NewSub == [queue |-> <<>>, closed |-> FALSE, attached |-> TRUE]

\* queuedDelta: the delta of the same stream that is still queued.
HeldAt(queue, ev) ==
  {i \in DOMAIN queue : /\ ev.type = "delta" /\ queue[i].type = "delta"
                        /\ queue[i].s = ev.s /\ queue[i].k = ev.k}

Push(b, ev) ==
  LET held == HeldAt(b.queue, ev) IN
  IF b.closed THEN b
  ELSE IF held # {}
    THEN LET i == CHOOSE i \in held : TRUE
         IN  [b EXCEPT !.queue[i].text = @ \o ev.text, !.queue[i].n = @ + ev.n]
  ELSE IF Len(b.queue) >= QueueCap THEN [b EXCEPT !.queue = <<>>, !.closed = TRUE]
  ELSE [b EXCEPT !.queue = Append(@, ev)]

\* emit(), of several events in order, to run.subscribers.
Emit(evs) == [v \in Viewer |-> IF sub[v].attached THEN Feed(Push, sub[v], evs)
                                                  ELSE sub[v]]
-----------------------------------------------------------------------------
(* streamRunReducer                                                        *)

BlankStrand == [state |-> "waiting", text |-> [k \in Stream |-> <<>>],
                chunks |-> 0, steps |-> <<>>]
BlankView == [strands |-> [s \in Strand |-> BlankStrand], aggs |-> <<>>,
              levels |-> {}, done |-> FALSE, error |-> FALSE, loaded |-> FALSE]

\* `loaded` records that the strands come from a snapshot, not from a replay.
\* The 60 s window of the client holds the whole retained series and more.
Reduce(w, ev) ==
  CASE ev.type = "hello" -> [w EXCEPT !.strands = [s \in Strand |-> BlankStrand],
                                      !.loaded = FALSE]
    [] ev.type = "delta" ->
         [w EXCEPT !.strands[ev.s].text[ev.k] = LastOf(@ \o ev.text, RingCap),
                   !.strands[ev.s].chunks = @ + ev.n]
    [] ev.type = "strand" ->
         [w EXCEPT !.strands[ev.s].state = ev.state,
                   !.strands[ev.s].steps =
                      CASE ev.mode = "none" -> @
                        [] ev.mode = "replace" -> LastOf(ev.steps, StepKeep)
                        [] ev.mode = "append" -> LastOf(@ \o ev.steps, StepKeep)]
    [] ev.type = "agg" -> [w EXCEPT !.aggs = Append(@, ev.t)]
    [] ev.type = "level" -> [w EXCEPT !.levels = @ \cup {ev.l}]
    [] ev.type = "done" -> [w EXCEPT !.done = TRUE]
    [] ev.type = "error" -> [w EXCEPT !.error = TRUE]

\* snapshot() on the engine, then the reducer's "snapshot" case.
Snapshot ==
  [strands |-> [s \in Strand |->
     [state |-> state[s],
      text |-> [k \in Stream |-> Upto(made[s][k], TextCap)],
      chunks |-> made[s]["reasoning"] + made[s]["text"],
      steps |-> FullEvent(s, state[s]).steps]],
   aggs |-> Upto(ticks, AggKeep),
   levels |-> 1..levels,
   done |-> status # "running",
   error |-> status = "error",
   loaded |-> TRUE]
-----------------------------------------------------------------------------
Init ==
  /\ state = [s \in Strand |-> "waiting"]
  /\ made = Flushed /\ pend = Flushed
  /\ bearing = [s \in Strand |-> 0]
  /\ sent = [s \in Strand |-> 0]
  /\ ticks = 0 /\ levels = 0 /\ status = "running"
  /\ sub = [v \in Viewer |-> NoSub]
  /\ conn = [v \in Viewer |-> "off"]
  /\ errors = [v \in Viewer |-> 0]
  /\ drops = 0
  /\ snap = [v \in Viewer |-> "none"]
  /\ answer = [v \in Viewer |-> BlankView]
  /\ view = [v \in Viewer |-> BlankView]
-----------------------------------------------------------------------------
(* The run                                                                 *)

\* runStrand: setState(run, s, "prefill")
StartStrand(s) ==
  /\ status = "running" /\ state[s] = "waiting"
  /\ state' = [state EXCEPT ![s] = "prefill"]
  /\ sub' = Emit(<<FullEvent(s, "prefill")>>)
  /\ UNCHANGED <<made, pend, bearing, sent, runVars, viewerVars>>

\* handleChunk: a chunk of stream k; the first that carries tokens starts
\* decoding, each later one that does is a step.
Chunk(s, k, tokens) ==
  /\ state[s] \in {"prefill", "decode"}
  /\ made[s]["reasoning"] + made[s]["text"] < MaxChunks
  /\ made' = [made EXCEPT ![s][k] = @ + 1]
  /\ pend' = [pend EXCEPT ![s][k] = @ + 1]
  /\ bearing' = [bearing EXCEPT ![s] = IF tokens THEN @ + 1 ELSE @]
  /\ IF tokens /\ state[s] = "prefill"
       THEN /\ state' = [state EXCEPT ![s] = "decode"]
            /\ sub' = Emit(<<StrandEv(s, "decode", "none", <<>>)>>)
       ELSE UNCHANGED <<state, sub>>
  /\ UNCHANGED <<sent, runVars, viewerVars>>

\* The end of runStrand, or runWave on an aborted run.
EndStrand(s, st) ==
  /\ status = "running"
  /\ state[s] \in {"prefill", "decode"} \/ (state[s] = "waiting" /\ st = "cancelled")
  /\ state' = [state EXCEPT ![s] = st]
  /\ sub' = Emit(<<FullEvent(s, st)>>)
  /\ UNCHANGED <<made, pend, bearing, sent, runVars, viewerVars>>

Flush ==
  /\ status = "running" /\ FlushEvents # <<>>
  /\ sub' = Emit(FlushEvents)
  /\ pend' = Flushed
  /\ UNCHANGED <<state, made, bearing, sent, runVars, viewerVars>>

Decoding(s) == state[s] = "decode"
TickOf(s) == IF Decoding(s) THEN <<LiveEvent(s)>> ELSE <<>>
TickEvents == <<Agg(ticks + 1)>> \o FlattenSeq([i \in DOMAIN Strands |-> TickOf(Strands[i])])

TickAgg ==
  /\ status = "running" /\ ticks < MaxTicks
  /\ ticks' = ticks + 1
  /\ sub' = Emit(TickEvents)
  /\ sent' = [s \in Strand |-> IF Decoding(s) THEN StepsTotal(s) ELSE sent[s]]
  /\ UNCHANGED <<state, made, pend, bearing, levels, status, viewerVars>>

PushLevel ==
  /\ status = "running" /\ levels < MaxLevels
  /\ \E s \in Strand : state[s] \in Ended
  /\ levels' = levels + 1
  /\ sub' = Emit(<<Level(levels + 1)>>)
  /\ UNCHANGED <<strandVars, ticks, status, viewerVars>>

CancelOf(s) == IF state[s] = "waiting" THEN <<FullEvent(s, "cancelled")>> ELSE <<>>
CancelEvents == FlattenSeq([i \in DOMAIN Strands |-> CancelOf(Strands[i])])
Quiet == \A s \in Strand : state[s] \in Ended \cup {"waiting"}

\* Mistake: the run finishes without a last flush.
FinishUnflushed(outcome) ==
  /\ status = "running" /\ Quiet
  /\ outcome = "done" => \A s \in Strand : state[s] # "waiting"
  /\ status' = outcome
  /\ sub' = Emit(CancelEvents \o TickEvents \o <<Done>>)
  /\ state' = [s \in Strand |-> IF state[s] = "waiting" THEN "cancelled" ELSE state[s]]
  /\ pend' = Flushed
  /\ ticks' = ticks + 1
  /\ UNCHANGED <<made, bearing, sent, levels, viewerVars>>

\* finish(), once no stream is open: a cancelled run cancels what waits; the
\* last flush and the last agg go out before `done`.
Finish(outcome) ==
  /\ status = "running" /\ Quiet
  /\ outcome = "done" => \A s \in Strand : state[s] # "waiting"
  /\ status' = outcome
  /\ sub' = Emit(CancelEvents \o FlushEvents \o TickEvents \o <<Done>>)
  /\ state' = [s \in Strand |-> IF state[s] = "waiting" THEN "cancelled" ELSE state[s]]
  /\ pend' = Flushed
  /\ ticks' = ticks + 1
  /\ UNCHANGED <<made, bearing, sent, levels, viewerVars>>

\* fail(): no flush, no agg.
Fail ==
  /\ status = "running" /\ Quiet
  /\ status' = "error"
  /\ sub' = Emit(<<Error, Done>>)
  /\ UNCHANGED <<strandVars, ticks, levels, viewerVars>>
-----------------------------------------------------------------------------
(* A viewer                                                                *)

\* Mistake: what is pending is replayed, and sent again by the next flush.
SubscribeUndrained(v) ==
  /\ conn[v] = "off"
  /\ conn' = [conn EXCEPT ![v] = "open"]
  /\ sub' = [sub EXCEPT ![v] =
               Feed(Push, [NewSub EXCEPT !.attached = status = "running"], Replay)]
  /\ UNCHANGED <<strandVars, runVars, errors, drops, snap, answer, view>>

\* The EventSource connects: subscribe() drains pending to the subscribers
\* there are, then replays.  An ended run is replayed and not attached to.
Subscribe(v) ==
  /\ conn[v] = "off"
  /\ conn' = [conn EXCEPT ![v] = "open"]
  /\ pend' = Flushed
  /\ sub' = [Emit(FlushEvents) EXCEPT ![v] =
               Feed(Push, [NewSub EXCEPT !.attached = status = "running"], Replay)]
  /\ UNCHANGED <<state, made, bearing, sent, runVars, errors, drops, snap, answer, view>>

\* next(), writeSSE and the reducer; the tab closes the EventSource at `done`
\* or `error`, and the route unsubscribes.
Take(v) ==
  /\ conn[v] = "open" /\ sub[v].queue # <<>>
  /\ LET ev == Head(sub[v].queue) IN
       /\ view' = [view EXCEPT ![v] = Reduce(@, ev)]
       /\ IF ev.type \in {"done", "error"}
            THEN /\ conn' = [conn EXCEPT ![v] = "over"]
                 /\ sub' = [sub EXCEPT ![v] = NoSub]
            ELSE /\ sub' = [sub EXCEPT ![v].queue = Tail(@)]
                 /\ UNCHANGED conn
  /\ UNCHANGED <<strandVars, runVars, errors, drops, snap, answer>>

\* es.onerror: the EventSource will reconnect by itself; every ResyncAfter
\* errors a snapshot is asked for too (one at a time: a bound).
LoseConnection(v) ==
  /\ conn' = [conn EXCEPT ![v] = "off"]
  /\ sub' = [sub EXCEPT ![v] = NoSub]
  /\ LET resync == errors[v] + 1 = ResyncAfter IN
       /\ errors' = [errors EXCEPT ![v] = IF resync THEN 0 ELSE @ + 1]
       /\ snap' = [snap EXCEPT ![v] = IF resync /\ @ = "none" THEN "asked" ELSE @]
  /\ UNCHANGED <<strandVars, runVars, answer, view>>

\* The Subscriber was closed at its cap: the route's loop ends.
Overflow(v) ==
  /\ conn[v] = "open" /\ sub[v].closed
  /\ LoseConnection(v)
  /\ UNCHANGED drops

Drop(v) ==
  /\ conn[v] = "open" /\ drops < MaxDrops
  /\ LoseConnection(v)
  /\ drops' = drops + 1

\* GET /runs/:id on the engine, its answer in the tab, or its failure.
ReadSnapshot(v) ==
  /\ snap[v] = "asked"
  /\ snap' = [snap EXCEPT ![v] = "read"]
  /\ answer' = [answer EXCEPT ![v] = Snapshot]
  /\ UNCHANGED <<strandVars, runVars, sub, conn, errors, drops, view>>

ShowSnapshot(v) ==
  /\ snap[v] = "read"
  /\ snap' = [snap EXCEPT ![v] = "none"]
  /\ view' = [view EXCEPT ![v] = answer[v]]
  /\ answer' = [answer EXCEPT ![v] = BlankView]
  /\ UNCHANGED <<strandVars, runVars, sub, conn, errors, drops>>

LoseSnapshot(v) ==
  /\ snap[v] = "asked"
  /\ snap' = [snap EXCEPT ![v] = "none"]
  /\ UNCHANGED <<strandVars, runVars, sub, conn, errors, drops, answer, view>>
-----------------------------------------------------------------------------
StrandStep(s) ==
  \/ StartStrand(s)
  \/ \E k \in Stream, tokens \in Carries : Chunk(s, k, tokens)
  \/ \E st \in Ended : EndStrand(s, st)

RunEnds == Fail \/ \E outcome \in {"done", "cancelled"} : Finish(outcome)

ViewerStep(v) == \/ Subscribe(v) \/ Take(v) \/ Overflow(v) \/ Drop(v)
                 \/ ReadSnapshot(v) \/ ShowSnapshot(v) \/ LoseSnapshot(v)

Next == \/ \E s \in Strand : StrandStep(s)
        \/ Flush \/ TickAgg \/ PushLevel \/ RunEnds
        \/ \E v \in Viewer : ViewerStep(v)

Spec == Init /\ [][Next]_vars

\* Each strand and the run end (requests have timeouts or are aborted); a tab
\* reconnects and reads what is sent.  The fair steps are named by what they
\* change, which is cheaper for TLC to tell than all they do: no other action
\* changes these variables that way.
StrandEnds(s) ==
  /\ status = "running" /\ state[s] \notin Ended
  /\ \E st \in IF state[s] = "waiting" THEN {"prefill", "cancelled"} ELSE Ended :
       state' = [state EXCEPT ![s] = st]
RunIsOver == status = "running" /\ Quiet /\ status' \in {"done", "cancelled", "error"}
Connects(v) == conn[v] = "off" /\ conn' = [conn EXCEPT ![v] = "open"]
Reads(v) ==
  /\ conn[v] = "open"
  /\ \/ /\ sub[v].queue # <<>>
        /\ sub' = [sub EXCEPT ![v].queue = Tail(@)] /\ conn' = conn
     \/ /\ sub[v].queue # <<>> \/ sub[v].closed
        /\ sub' = [sub EXCEPT ![v] = NoSub]
        /\ conn' \in {[conn EXCEPT ![v] = c] : c \in {"off", "over"}}

FairSpec ==
  /\ Spec
  /\ \A s \in Strand : WF_state(StrandEnds(s))
  /\ WF_status(RunIsOver)
  /\ \A v \in Viewer : WF_conn(Connects(v)) /\ WF_<<sub, conn>>(Reads(v))
-----------------------------------------------------------------------------
(* What can go wrong                                                       *)

\* The view of v once it has read what is queued for it.
Caught(v) == Feed(Reduce, view[v], sub[v].queue)
Following(v) == conn[v] = "open" /\ ~sub[v].closed
\* The chunks of a stream that left s.pending.
Out(s, k) == made[s][k] - pend[s][k]

\* "A lagging subscriber never loses text", and none sees a piece twice ("the
\* join-point text"): whenever a viewer joined, however far it lags, whoever
\* else joined meanwhile, what it has and what is queued for it is the
\* stream's text without a gap or a repetition, from a point at most TextCap
\* back from the end, and its chunk counter counts every chunk of the run once,
\* those it no longer holds the text of included.
TranscriptExact ==
  \A v \in Viewer :
    LET seen == Caught(v) IN
    Following(v) /\ ~seen.loaded =>
      \A s \in Strand :
        /\ \A k \in Stream :
             LET text == seen.strands[s].text[k] IN
               /\ text = Upto(Out(s, k), Len(text))
               /\ Len(text) >= Least(Out(s, k), TextCap)
        /\ seen.strands[s].chunks = Out(s, "reasoning") + Out(s, "text")

\* Once a strand has ended, a viewer that has caught up holds exactly the last
\* StepKeep steps of it, whatever it appended live before.
EndedStepsExact ==
  \A v \in Viewer : Following(v) /\ ~Caught(v).loaded =>
    \A s \in Strand : state[s] \in Ended =>
      Caught(v).strands[s].steps = Upto(StepsTotal(s), StepKeep)

\* A tab shows a run as over, or failed, only if it is, however old the
\* snapshot it shows; and once the stream told it `done`, it shows all of the
\* run: the last flush is not overtaken, and no strand is left open.
EndIsReal ==
  \A v \in Viewer :
    /\ view[v].done => status # "running"
    /\ view[v].error => status = "error"
    /\ (conn[v] = "over" /\ ~view[v].error /\ ~view[v].loaded) =>
         /\ view[v].levels = 1..levels
         /\ \A s \in Strand :
              /\ view[v].strands[s].state = state[s] /\ state[s] \in Ended
              /\ view[v].strands[s].chunks = made[s]["reasoning"] + made[s]["text"]

\* Every tab that follows the run is shown its end, however often its
\* connection is cut or its queue overflows, and whatever snapshot it loads.
EveryViewerSeesEnd == \A v \in Viewer : <>(view[v].done \/ view[v].error)
=============================================================================
