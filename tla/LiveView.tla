------------------------------ MODULE LiveView ------------------------------
(***************************************************************************)
(* What a dashboard tab shows of the serve-engine's status: the hub of the *)
(* controller that long-polls each snapshot and fans it out (live.ts), the *)
(* tab's connection with its polling fallback (live-connection.ts) and the *)
(* store both feed (lab-status-store.ts).                                  *)
(*                                                                         *)
(* Snapshots are numbered in the order of their sampled_at_ms; 0 stands    *)
(* for an answer without one (serve-engine down or warming up).  A call of *)
(* connect() is a member of Conn from its start to its return.  A JS       *)
(* handler runs to its next await in one step.                             *)
(***************************************************************************)
EXTENDS Naturals, Sequences, FiniteSets

CONSTANTS
  Conn,        \* calls of connect() that may be under way at once
  Meta,        \* static data: models, version, flags
  NoModels,    \* the static data of an answer without a snapshot
  MetaOf,      \* MetaOf[p]: static data of snapshot p; as many as are published
  None,
  MaxTroubles, \* bound: cut connections, lost polls, failing upstream reads
  MaxGestures  \* bound: tab hidden long enough to sleep, retry pressed

ASSUME LiveAssumption ==
  /\ MetaOf \in Seq(Meta) /\ NoModels \notin Meta
  /\ None \notin Conn \cup Meta \cup {NoModels} /\ Conn # {}
  /\ MaxTroubles \in Nat /\ MaxGestures \in Nat

VARIABLES
  pub,      \* the newest snapshot of the serve-engine
  hub,      \* the hub: phase of its loop, `after`, cached meta and tick
  proxy,    \* what stands before the controller: it passes event streams or buffers them
  locked,   \* the controller has a token the tab does not know
  conn,     \* conn[c]: where connect() is, the events on their way, `delivered`
  ac,       \* the connection whose AbortController the tab holds
  timer,    \* the next connect() is scheduled
  pollTimer, \* the next poll() is scheduled
  polling,  \* poll() waits for a refresh
  failures, \* streams in a row that delivered nothing
  req,      \* the refresh under way, and the snapshot its answer brings
  sleeping, \* the tab stayed hidden and closed everything
  store,    \* what the tab shows
  troubles, gestures,
  rushed    \* the tab came back while connect() waited for a refresh (history)

vars == <<pub, hub, proxy, locked, conn, ac, timer, pollTimer, polling, failures,
          req, sleeping, store, troubles, gestures, rushed>>

MaxPub == Len(MetaOf)
Snapshot == 0..MaxPub
AnyMeta == Meta \cup {NoModels}
PollAfterFailures == 2
MetaEvent == [kind : {"meta"}, meta : AnyMeta]
TickEvent == [kind : {"tick"}, at : Snapshot]

TypeOK ==
  /\ pub \in Snapshot
  /\ hub \in [phase : {"off", "fetching", "backoff"}, after : Snapshot,
              meta : AnyMeta \cup {None}, tick : Snapshot \cup {None}]
  /\ proxy \in {"passes", "buffers"} /\ locked \in BOOLEAN
  /\ conn \in [Conn -> [at : {"returned", "fetching", "open", "asking"},
                        queue : Seq(MetaEvent \cup TickEvent), delivered : BOOLEAN]]
  /\ ac \in Conn \cup {None}
  /\ timer \in BOOLEAN /\ pollTimer \in BOOLEAN /\ polling \in BOOLEAN
  /\ failures \in 0..PollAfterFailures
  /\ req \in [at : {"none", "asked", "read"}, brings : Snapshot]
  /\ sleeping \in BOOLEAN
  /\ store \in [shown : Snapshot, models : AnyMeta, meta : AnyMeta,
                transport : {"none", "stream", "poll"},
                needToken : BOOLEAN]
  /\ troubles \in 0..MaxTroubles /\ gestures \in 0..MaxGestures /\ rushed \in BOOLEAN

Under(at) == {c \in Conn : conn[c].at = at}
Active == Conn \ Under("returned")
Free == CHOOSE c \in Conn \cup {None} : c \notin Active /\ (c = None => Active = Conn)
NoRequest == [at |-> "none", brings |-> 0]
NoConn == [at |-> "returned", queue |-> <<>>, delivered |-> FALSE]

Init ==
  /\ pub = 0
  /\ hub = [phase |-> "off", after |-> 0, meta |-> None, tick |-> None]
  /\ proxy \in {"passes", "buffers"} /\ locked = FALSE
  /\ ac = CHOOSE c \in Conn : TRUE
  /\ conn = [c \in Conn |-> IF c = ac THEN [NoConn EXCEPT !.at = "fetching"] ELSE NoConn]
  /\ timer = FALSE /\ pollTimer = FALSE /\ polling = FALSE /\ failures = 0
  /\ req = NoRequest /\ sleeping = FALSE
  /\ store = [shown |-> 0, models |-> NoModels, meta |-> NoModels, transport |-> "none", needToken |-> FALSE]
  /\ troubles = 0 /\ gestures = 0 /\ rushed = FALSE

Gesture == gestures < MaxGestures /\ gestures' = gestures + 1
Trouble == troubles < MaxTroubles /\ troubles' = troubles + 1

tabVars == <<ac, timer, pollTimer, polling, failures, req, sleeping, store>>
envVars == <<pub, proxy, locked, gestures, rushed>>
-----------------------------------------------------------------------------
(* The hub.                                                                 *)

MetaAt(p) == IF p = 0 THEN NoModels ELSE MetaOf[p]

\* Mistake: the tick overtakes the static data it belongs to.
EventsTickFirst(p) ==
  <<[kind |-> "tick", at |-> p]>>
    \o (IF MetaAt(p) = hub.meta THEN <<>> ELSE <<[kind |-> "meta", meta |-> MetaAt(p)]>>)

\* One answer of the long poll: meta if it changed, then the tick, to everyone.
Events(p) ==
  (IF MetaAt(p) = hub.meta THEN <<>> ELSE <<[kind |-> "meta", meta |-> MetaAt(p)]>>)
    \o <<[kind |-> "tick", at |-> p]>>

Publish ==
  /\ pub < MaxPub /\ pub' = pub + 1
  /\ UNCHANGED <<hub, proxy, locked, conn, tabVars, troubles, gestures, rushed>>

\* The sampler publishes every second: the last snapshot stands for the later ones.
\* Bound: what repeats is sent once all that was sent is read.
Idle == \A c \in Conn : conn[c].queue = <<>>

\* The long poll answers the first snapshot after `after`, an error, or at its
\* limit the one it has, which changes nothing.
HubAnswers(p) ==
  /\ hub.phase = "fetching"
  /\ \/ p = pub /\ p # hub.after /\ UNCHANGED troubles
     \/ p = pub /\ p = MaxPub /\ Idle /\ UNCHANGED troubles
     \/ p = 0 /\ pub = 0 /\ Idle /\ UNCHANGED troubles
     \/ p = 0 /\ pub # 0 /\ Trouble
  /\ conn' = [c \in Conn |-> IF conn[c].at = "open"
                               THEN [conn[c] EXCEPT !.queue = @ \o Events(p)] ELSE conn[c]]
  /\ hub' = [hub EXCEPT !.meta = MetaAt(p), !.tick = p,
                        !.phase = IF p = 0 THEN "backoff" ELSE "fetching",
                        !.after = IF p = 0 THEN @ ELSE p]
  /\ UNCHANGED <<tabVars, envVars>>

HubRetries ==
  /\ hub.phase = "backoff" /\ hub' = [hub EXCEPT !.phase = "fetching"]
  /\ UNCHANGED <<conn, tabVars, envVars, troubles>>

\* LINGER_MS after the last subscriber left.
HubWindsDown ==
  /\ hub.phase # "off" /\ Under("open") = {}
  /\ hub' = [hub EXCEPT !.phase = "off"]
  /\ UNCHANGED <<conn, tabVars, envVars, troubles>>

\* What a new subscriber gets at once: meta, and the tick if it is recent.
Replay(recent) ==
  (IF hub.meta = None THEN <<>> ELSE <<[kind |-> "meta", meta |-> hub.meta]>>)
    \o (IF recent /\ hub.tick # None THEN <<[kind |-> "tick", at |-> hub.tick]>> ELSE <<>>)

Started == IF hub.phase = "off" THEN [hub EXCEPT !.phase = "fetching", !.after = 0] ELSE hub
-----------------------------------------------------------------------------
(* The store.                                                               *)

\* Mistake: an answer of a poll is taken for the polling fallback.
ingestStatusDemoting(s, p, models, via) ==
  LET heard == [s EXCEPT !.needToken = FALSE, !.transport = via]
  IN IF p # 0 /\ p < s.shown THEN s
     ELSE IF p = 0 THEN heard
     ELSE [heard EXCEPT !.shown = p, !.models = models]

\* A snapshot older than the shown one is dropped; a failure keeps the shown one.
ingestStatus(s, p, models, via) ==
  LET heard == [s EXCEPT !.needToken = FALSE,
                         !.transport = IF via = "stream" THEN "stream" ELSE @]
  IN IF p # 0 /\ p < s.shown THEN s
     ELSE IF p = 0 THEN heard
     ELSE [heard EXCEPT !.shown = p, !.models = models]

ingestFailure(s, unauthorized) == [s EXCEPT !.needToken = unauthorized]

Ask == IF req = NoRequest THEN [req EXCEPT !.at = "asked"] ELSE req
-----------------------------------------------------------------------------
(* The stream.                                                              *)

Returned(c) == [conn EXCEPT ![c] = NoConn]
Dropped(c) == IF ac = c THEN None ELSE ac

\* connect(), called by c.
Connect(c) ==
  /\ conn' = [conn EXCEPT ![c] = [NoConn EXCEPT !.at = "fetching"]]
  /\ ac' = c /\ timer' = FALSE

Reconnect(c) ==
  /\ timer /\ ~sleeping /\ c = Free
  /\ Connect(c)
  /\ UNCHANGED <<hub, envVars, pollTimer, polling, failures, req, sleeping, store, troubles>>

Opens(c) ==
  /\ conn[c].at = "fetching" /\ ~locked
  /\ \E recent \in BOOLEAN :
       conn' = [conn EXCEPT ![c].at = "open", ![c].queue = Replay(recent)]
  /\ hub' = Started
  /\ UNCHANGED <<envVars, tabVars, troubles>>

Receive(c) ==
  /\ conn[c].at = "open" /\ conn[c].queue # <<>> /\ proxy = "passes"
  /\ LET e == Head(conn[c].queue)
         c2 == [conn[c] EXCEPT !.queue = Tail(@)]
     IN IF e.kind = "meta"
          THEN /\ store' = [store EXCEPT !.meta = e.meta]
               /\ conn' = [conn EXCEPT ![c] = c2]
               /\ UNCHANGED <<failures, pollTimer>>
          ELSE /\ store' = ingestStatus(store, e.at, store.meta, "stream")
               /\ conn' = [conn EXCEPT ![c] = [c2 EXCEPT !.delivered = TRUE]]
               /\ failures' = 0 /\ pollTimer' = FALSE
  /\ UNCHANGED <<hub, envVars, ac, timer, polling, req, sleeping, troubles>>

\* The controller does not know the tab's token.
Refused(c) ==
  /\ conn[c].at = "fetching" /\ locked
  /\ conn' = Returned(c) /\ ac' = Dropped(c) /\ pollTimer' = FALSE
  /\ store' = ingestFailure(store, TRUE)
  /\ UNCHANGED <<hub, envVars, timer, polling, failures, req, sleeping, troubles>>

\* Mistake: a retry from poll mode that failed leaves it to the next tick.
EndedForGood(c) ==
  LET wasted == ~conn[c].delivered
      retry == wasted /\ store.transport = "poll"
  IN /\ ac' = Dropped(c) /\ UNCHANGED timer
     /\ IF retry
          THEN conn' = Returned(c) /\ UNCHANGED <<failures, req>>
          ELSE /\ conn' = [conn EXCEPT ![c].at = "asking", ![c].queue = <<>>]
               /\ failures' = IF wasted /\ failures < PollAfterFailures THEN failures + 1 ELSE failures
               /\ req' = Ask

\* The rest of connect() once the stream is over.
Ended(c) ==
  LET wasted == ~conn[c].delivered
      retry == wasted /\ store.transport = "poll"
  IN /\ ac' = Dropped(c) /\ timer' = (timer \/ retry)
     /\ IF retry
          THEN conn' = Returned(c) /\ UNCHANGED <<failures, req>>
          ELSE /\ conn' = [conn EXCEPT ![c].at = "asking", ![c].queue = <<>>]
               /\ failures' = IF wasted /\ failures < PollAfterFailures THEN failures + 1 ELSE failures
               /\ req' = Ask

\* Nothing arrives for STALL_MS.
Stalls(c) ==
  /\ conn[c].at = "open" /\ proxy = "buffers" /\ Ended(c)
  /\ UNCHANGED <<hub, envVars, pollTimer, polling, sleeping, store, troubles>>

Cut(c) ==
  /\ conn[c].at \in {"fetching", "open"} /\ Trouble /\ Ended(c)
  /\ UNCHANGED <<hub, envVars, pollTimer, polling, sleeping, store>>
-----------------------------------------------------------------------------
(* Polling.                                                                 *)

Poll ==
  /\ pollTimer /\ ~sleeping /\ pollTimer' = FALSE
  /\ IF store.transport = "poll" THEN polling' = TRUE /\ req' = Ask
     ELSE UNCHANGED <<polling, req>>
  /\ UNCHANGED <<hub, conn, envVars, ac, timer, failures, sleeping, store, troubles>>

\* The retry button of the status page.
RetryNow ==
  /\ req = NoRequest /\ ~sleeping /\ Gesture /\ req' = Ask
  /\ UNCHANGED <<hub, conn, pub, proxy, locked, rushed, ac, timer, pollTimer, polling, failures, sleeping, store, troubles>>

\* The controller reads the serve-engine for /api/lab-status.
LabStatus(p) ==
  /\ req.at = "asked" /\ ~locked
  /\ \/ p = pub /\ UNCHANGED troubles
     \/ p = 0 /\ pub # 0 /\ Trouble
  /\ req' = [at |-> "read", brings |-> p]
  /\ UNCHANGED <<hub, conn, envVars, ac, timer, pollTimer, polling, failures, sleeping, store>>

\* A refresh ends with the store s: everyone who awaits it goes on.
Refreshed(answered, s) ==
  LET on == ~sleeping /\ ~s.needToken
      asked == Under("asking")
      toPoll == asked # {} /\ on /\ answered /\ failures = PollAfterFailures
      s2 == IF toPoll THEN [s EXCEPT !.transport = "poll"] ELSE s
  IN /\ req' = NoRequest /\ store' = s2
     /\ conn' = [c \in Conn |-> IF c \in asked THEN NoConn ELSE conn[c]]
     /\ timer' = (timer \/ (asked # {} /\ on))
     /\ polling' = FALSE
     /\ pollTimer' = (pollTimer \/ toPoll \/ (polling /\ on /\ s2.transport = "poll"))
     /\ UNCHANGED <<hub, envVars, ac, failures, sleeping>>

Answered ==
  /\ req.at = "read"
  /\ Refreshed(TRUE, ingestStatus(store, req.brings, MetaAt(req.brings), "poll"))
  /\ UNCHANGED troubles

RefusedPoll ==
  /\ req.at = "asked" /\ locked /\ Refreshed(FALSE, ingestFailure(store, TRUE))
  /\ UNCHANGED troubles

Unanswered == req # NoRequest /\ Trouble /\ Refreshed(FALSE, ingestFailure(store, FALSE))
-----------------------------------------------------------------------------
(* The tab is hidden for HIDDEN_CLOSE_MS, and comes back.                   *)

\* Mistake: a stream that is open stays open.
SleepListening ==
  /\ ~sleeping /\ Gesture /\ sleeping' = TRUE /\ timer' = FALSE /\ pollTimer' = FALSE
  /\ UNCHANGED <<ac, conn, hub, pub, proxy, locked, polling, failures, req, store, troubles, rushed>>

Sleep ==
  /\ ~sleeping /\ Gesture /\ sleeping' = TRUE /\ timer' = FALSE /\ pollTimer' = FALSE
  /\ ac' = None /\ conn' = IF ac = None THEN conn ELSE Returned(ac)
  /\ UNCHANGED <<hub, pub, proxy, locked, polling, failures, req, store, troubles, rushed>>

Wake(c) ==
  /\ sleeping /\ c = Free /\ Connect(c)
  /\ sleeping' = FALSE /\ failures' = 0
  /\ rushed' = (rushed \/ Active # {})
  /\ IF store.transport = "poll" THEN polling' = TRUE /\ req' = Ask ELSE UNCHANGED <<polling, req>>
  /\ UNCHANGED <<hub, pub, proxy, locked, gestures, pollTimer, store, troubles>>

ProxyPasses ==
  /\ proxy = "buffers" /\ proxy' = "passes"
  /\ UNCHANGED <<hub, conn, pub, locked, gestures, rushed, tabVars, troubles>>

\* The controller restarts with another token.
NewToken ==
  /\ ~locked /\ Under("open") = {} /\ Trouble /\ locked' = TRUE
  /\ UNCHANGED <<hub, conn, pub, proxy, gestures, rushed, tabVars>>
-----------------------------------------------------------------------------
HubServes == (\E p \in Snapshot : HubAnswers(p)) \/ HubRetries
Stream(c) == Reconnect(c) \/ Opens(c) \/ Receive(c) \/ Refused(c) \/ Stalls(c)
Refresh == (\E p \in Snapshot : LabStatus(p)) \/ Answered \/ RefusedPoll

Next ==
  \/ Publish \/ HubServes \/ HubWindsDown
  \/ \E c \in Conn : Stream(c) \/ Cut(c) \/ Wake(c)
  \/ Poll \/ Refresh \/ Unanswered
  \/ RetryNow \/ Sleep \/ ProxyPasses \/ NewToken

Spec == Init /\ [][Next]_vars

\* The sampler publishes, timers fire, calls are answered or time out, and a stream
\* that is not cut delivers.
Fairness ==
  /\ WF_vars(Publish) /\ WF_vars(HubServes)
  /\ \A c \in Conn : WF_vars(Stream(c))
  /\ WF_vars(Poll) /\ WF_vars(Refresh)

FairSpec == Spec /\ Fairness
-----------------------------------------------------------------------------
\* A tab that is awake with the right token has a stream under way or a timer that
\* opens one: no order of hiding, failed streams and refreshes leaves it silent.
TabNeverIdle == ~sleeping /\ ~locked => timer \/ Active # {}

\* One stream at a time, none in a tab that sleeps ("A tab hidden for
\* HIDDEN_CLOSE_MS closes everything"), unless the tab came back while connect()
\* waited for a refresh.
OneStream ==
  ~rushed => /\ Cardinality(Active) <= 1
             /\ sleeping => Under("open") \cup Under("fetching") = {}

\* The models, version and flags shown belong to the snapshot shown, although they
\* travel in events of their own and polls bring snapshots past the stream.
ShownModelsMatch == ~rushed => store.models = MetaAt(store.shown)

\* Whatever was cut, buffered or lost before, a tab that stays awake with a token
\* that is right gets to the newest snapshot.
ShownCatchesUp ==
  (pub = MaxPub /\ ~sleeping) ~> (store.shown = MaxPub \/ sleeping \/ locked)
=============================================================================
