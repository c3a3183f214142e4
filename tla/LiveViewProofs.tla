---------------------------- MODULE LiveViewProofs ----------------------------
(***************************************************************************)
(* That a tab which is awake is never left without a stream or a timer,    *)
(* has one stream at most, and shows models that belong to the snapshot it *)
(* shows, for any number of connections, snapshots, faults and gestures.   *)
(*                                                                         *)
(* The argument: a call of connect() hands on to the timer or is still     *)
(* awaited when it returns; a banner that asks for a token means that the  *)
(* token is wrong (Banner); and a timer runs only while no call does, until *)
(* a tab comes back in the middle of one (Single).                         *)
(*                                                                         *)
(* For the models (Matched): whatever a stream has read, each tick still on *)
(* its way comes after the static data of its snapshot, or that is what the *)
(* tab holds already; and the last static data on its way is the hub's, so *)
(* the hub may leave it out of its next answer.                            *)
(***************************************************************************)
EXTENDS LiveView, FiniteSetTheorems, TLAPS

Event == MetaEvent \cup TickEvent
Calls == [at : {"returned", "fetching", "open", "asking"}, queue : Seq(Event), delivered : BOOLEAN]
Shows == [shown : Snapshot, models : AnyMeta, meta : AnyMeta,
          transport : {"none", "stream", "poll"}, needToken : BOOLEAN]

\* The types the theorems need.
LiveTyped ==
  /\ pub \in Snapshot
  /\ hub \in [phase : {"off", "fetching", "backoff"}, after : Snapshot,
              meta : AnyMeta \cup {None}, tick : Snapshot \cup {None}]
  /\ conn \in [Conn -> Calls]
  /\ ac \in Conn \cup {None}
  /\ req \in [at : {"none", "asked", "read"}, brings : Snapshot]
  /\ store \in Shows
  /\ timer \in BOOLEAN /\ sleeping \in BOOLEAN /\ locked \in BOOLEAN /\ rushed \in BOOLEAN

Banner == store.needToken => locked

Single ==
  ~rushed => /\ \A c, d \in Active : c = d
             /\ timer => Active = {}
             /\ \A c \in Under("fetching") \cup Under("open") : ac = c
             /\ sleeping => Under("fetching") \cup Under("open") = {}

LiveInv == LiveTyped /\ Banner /\ Single /\ TabNeverIdle
-----------------------------------------------------------------------------
USE DEF envVars, tabVars, Trouble, Gesture

LEMMA MetaTyped == \A p \in Snapshot : MetaAt(p) \in AnyMeta
BY LiveAssumption DEF MetaAt, AnyMeta, Snapshot, MaxPub

LEMMA SnapshotFacts == MaxPub \in Nat /\ 0 \in Snapshot /\ NoModels \in AnyMeta
BY LiveAssumption DEF Snapshot, MaxPub, AnyMeta

LEMMA CallsTyped ==
  /\ NoConn \in Calls
  /\ [NoConn EXCEPT !.at = "fetching"] \in Calls /\ [NoConn EXCEPT !.at = "fetching"].at = "fetching"
  /\ \A k \in Calls, q \in Seq(Event) :
       /\ [k EXCEPT !.queue = q] \in Calls /\ [k EXCEPT !.queue = q].at = k.at
       /\ [k EXCEPT !.at = "open", !.queue = q] \in Calls
       /\ [k EXCEPT !.at = "asking", !.queue = q] \in Calls
<1>1. <<>> \in Seq(Event)
  OBVIOUS
<1>. QED
  BY <1>1 DEF NoConn, Calls

LEMMA EventsTyped ==
  ASSUME NEW p \in Snapshot
  PROVE  Events(p) \in Seq(Event)
<1>1. [kind |-> "meta", meta |-> MetaAt(p)] \in Event /\ [kind |-> "tick", at |-> p] \in Event
  BY MetaTyped DEF Event, MetaEvent, TickEvent
<1>2. ASSUME NEW e \in Event, NEW f \in Event PROVE <<e>> \o <<f>> \in Seq(Event) /\ <<>> \o <<f>> \in Seq(Event)
  OBVIOUS
<1>. QED
  BY <1>1, <1>2 DEF Events

LEMMA ReplayTyped ==
  ASSUME LiveTyped, NEW recent \in BOOLEAN
  PROVE  Replay(recent) \in Seq(Event)
<1>. DEFINE m == IF hub.meta = None THEN <<>> ELSE <<[kind |-> "meta", meta |-> hub.meta]>>
            t == IF recent /\ hub.tick # None THEN <<[kind |-> "tick", at |-> hub.tick]>> ELSE <<>>
<1>1. m \in Seq(Event)
  <2>1. hub.meta # None => [kind |-> "meta", meta |-> hub.meta] \in Event
    BY DEF LiveTyped, Event, MetaEvent
  <2>. QED
    BY <2>1
<1>2. t \in Seq(Event)
  <2>1. hub.tick # None => [kind |-> "tick", at |-> hub.tick] \in Event
    BY DEF LiveTyped, Event, TickEvent
  <2>. QED
    BY <2>1
<1>3. Replay(recent) = m \o t
  BY DEF Replay
<1>. HIDE DEF m, t
<1>. QED
  BY <1>1, <1>2, <1>3

LEMMA IngestTyped ==
  ASSUME NEW s \in Shows, NEW p \in Snapshot, NEW models \in AnyMeta, NEW via \in {"stream", "poll"}
  PROVE  /\ ingestStatus(s, p, models, via) \in Shows
         /\ ingestStatus(s, p, models, via).needToken => s.needToken
BY DEF ingestStatus, Shows
-----------------------------------------------------------------------------
LEMMA AskTyped == LiveTyped => Ask \in [at : {"none", "asked", "read"}, brings : Snapshot]
BY DEF LiveTyped, Ask

LEMMA FreeIsIdle == Free \notin Active
<1>1. \E c \in Conn \cup {None} : c \notin Active /\ (c = None => Active = Conn)
  BY LiveAssumption DEF Active
<1>. QED
  BY <1>1 DEF Free

LEMMA LiveInit == Init => LiveInv
<1>. SUFFICES ASSUME Init PROVE LiveInv
  OBVIOUS
<1>1. ac \in Conn
  BY LiveAssumption DEF Init
<1>2. conn \in [Conn -> Calls]
  BY CallsTyped DEF Init
<1>3. store \in Shows
  BY SnapshotFacts DEF Init, Shows
<1>4. LiveTyped
  BY <1>1, <1>2, <1>3, SnapshotFacts DEF Init, LiveTyped, NoRequest
<1>5. \A c \in Conn : conn[c].at = IF c = ac THEN "fetching" ELSE "returned"
  BY DEF Init, NoConn
<1>6. ~timer /\ ~sleeping /\ ~store.needToken
  BY DEF Init
<1>7. Active = {ac} /\ Under("open") = {} /\ Under("fetching") = {ac}
  BY <1>1, <1>5 DEF Active, Under
<1>8. Banner /\ Single /\ TabNeverIdle
  BY <1>6, <1>7 DEF Banner, Single, TabNeverIdle
<1>. QED
  BY <1>4, <1>8 DEF LiveInv
-----------------------------------------------------------------------------
(* The types.                                                              *)

LEMMA HubTypes ==
  ASSUME LiveTyped, Publish \/ (\E p \in Snapshot : HubAnswers(p)) \/ HubRetries \/ HubWindsDown
  PROVE  LiveTyped'
<1>. USE DEF LiveTyped
<1>1. CASE Publish
  BY <1>1, SnapshotFacts DEF Publish, Snapshot
<1>2. ASSUME NEW p \in Snapshot, HubAnswers(p) PROVE LiveTyped'
  <2>1. conn' \in [Conn -> Calls]
    <3>1. ASSUME NEW c \in Conn PROVE [conn[c] EXCEPT !.queue = @ \o Events(p)] \in Calls
      <4>1. \A q \in Seq(Event) : q \o Events(p) \in Seq(Event)
        BY EventsTyped
      <4>2. conn[c] \in Calls /\ conn[c].queue \in Seq(Event)
        BY DEF Calls
      <4>. QED
        BY <4>1, <4>2, CallsTyped
    <3>. QED
      BY <1>2, <3>1 DEF HubAnswers
  <2>. QED
    BY <1>2, <2>1, MetaTyped DEF HubAnswers
<1>3. CASE HubRetries \/ HubWindsDown
  BY <1>3 DEF HubRetries, HubWindsDown
<1>. QED
  BY <1>1, <1>2, <1>3

LEMMA EndedTypes ==
  ASSUME LiveTyped, NEW c \in Conn, Ended(c)
  PROVE  /\ conn' \in [Conn -> Calls] /\ ac' \in Conn \cup {None} /\ timer' \in BOOLEAN
         /\ req' \in [at : {"none", "asked", "read"}, brings : Snapshot]
<1>1. <<>> \in Seq(Event)
  OBVIOUS
<1>2. conn' \in [Conn -> Calls]
  <2>. DEFINE k == [conn[c] EXCEPT !.at = "asking", !.queue = <<>>]
  <2>1. k \in Calls
    BY <1>1, CallsTyped DEF LiveTyped
  <2>2. conn' \in {Returned(c), [conn EXCEPT ![c] = k]}
    BY DEF Ended
  <2>. HIDE DEF k
  <2>. QED
    BY <2>1, <2>2, CallsTyped DEF LiveTyped, Returned
<1>3. req' \in [at : {"none", "asked", "read"}, brings : Snapshot]
  BY AskTyped DEF LiveTyped, Ended
<1>4. ac' \in Conn \cup {None} /\ timer' \in BOOLEAN
  BY DEF LiveTyped, Ended, Dropped
<1>. QED
  BY <1>2, <1>3, <1>4

LEMMA StreamTypes ==
  ASSUME LiveTyped, NEW c \in Conn, Stream(c) \/ Cut(c) \/ Wake(c)
  PROVE  LiveTyped'
<1>. USE DEF LiveTyped
<1>1. CASE Reconnect(c)
  BY <1>1, CallsTyped DEF Reconnect, Connect
<1>2. CASE Opens(c)
  <2>1. conn' \in [Conn -> Calls]
    <3>1. PICK recent \in BOOLEAN :
            conn' = [conn EXCEPT ![c].at = "open", ![c].queue = Replay(recent)]
      BY <1>2 DEF Opens
    <3>. QED
      BY <3>1, ReplayTyped, CallsTyped
  <2>2. UNCHANGED <<pub, ac, req, store, timer, sleeping, locked, rushed>> /\ hub' \in {hub, Started}
    BY <1>2 DEF Opens
  <2>. QED
    BY <2>1, <2>2, SnapshotFacts DEF Started
<1>3. CASE Receive(c)
  <2>1. PICK e \in Event : e = Head(conn[c].queue) /\ Tail(conn[c].queue) \in Seq(Event)
    BY <1>3 DEF Receive, Calls
  <2>2. store' \in Shows
    <3>1. CASE e.kind = "meta"
      BY <1>3, <2>1, <3>1 DEF Receive, Event, MetaEvent, TickEvent, Shows
    <3>2. CASE e.kind # "meta"
      <4>1. e.at \in Snapshot
        BY <2>1, <3>2 DEF Event, MetaEvent, TickEvent
      <4>2. store' = ingestStatus(store, e.at, store.meta, "stream")
        BY <1>3, <2>1, <3>2 DEF Receive
      <4>3. store.meta \in AnyMeta
        BY DEF Shows
      <4>. QED
        BY <4>1, <4>2, <4>3, IngestTyped
    <3>. QED
      BY <3>1, <3>2
  <2>3. conn' \in [Conn -> Calls]
    <3>. DEFINE c2 == [conn[c] EXCEPT !.queue = Tail(@)]
    <3>1. c2 \in Calls /\ [c2 EXCEPT !.delivered = TRUE] \in Calls
      BY <2>1 DEF Calls
    <3>2. conn' \in {[conn EXCEPT ![c] = c2], [conn EXCEPT ![c] = [c2 EXCEPT !.delivered = TRUE]]}
      BY <1>3 DEF Receive
    <3>. HIDE DEF c2
    <3>. QED
      BY <3>1, <3>2
  <2>. QED
    BY <1>3, <2>2, <2>3 DEF Receive
<1>4. CASE Refused(c)
  <2>1. store' \in Shows
    BY <1>4 DEF Refused, ingestFailure, Shows
  <2>. QED
    BY <1>4, <2>1, CallsTyped DEF Refused, Returned, Dropped
<1>5. CASE Stalls(c) \/ Cut(c)
  BY <1>5, EndedTypes DEF Stalls, Cut
<1>6. CASE Wake(c)
  BY <1>6, AskTyped, CallsTyped DEF Wake, Connect
<1>. QED
  BY <1>1, <1>2, <1>3, <1>4, <1>5, <1>6 DEF Stream

LEMMA RefreshedTypes ==
  ASSUME LiveTyped, NEW answered \in BOOLEAN, NEW s \in Shows, Refreshed(answered, s)
  PROVE  LiveTyped'
<1>. USE DEF LiveTyped
<1>1. store' \in Shows
  BY DEF Refreshed, Shows
<1>2. conn' \in [Conn -> Calls]
  BY CallsTyped DEF Refreshed
<1>3. timer' \in BOOLEAN /\ req' = NoRequest /\ UNCHANGED <<pub, hub, ac, sleeping, locked, rushed>>
  BY DEF Refreshed
<1>. QED
  BY <1>1, <1>2, <1>3, SnapshotFacts DEF NoRequest

LEMMA TabTypes ==
  ASSUME LiveTyped, Poll \/ Refresh \/ Unanswered \/ RetryNow \/ Sleep \/ ProxyPasses \/ NewToken
  PROVE  LiveTyped'
<1>1. CASE Poll \/ RetryNow
  BY <1>1, AskTyped DEF LiveTyped, Poll, RetryNow
<1>2. ASSUME NEW p \in Snapshot, LabStatus(p) PROVE LiveTyped'
  BY <1>2 DEF LiveTyped, LabStatus
<1>3. CASE Answered
  <2>1. ingestStatus(store, req.brings, MetaAt(req.brings), "poll") \in Shows
    BY MetaTyped, IngestTyped DEF LiveTyped
  <2>. QED
    BY <1>3, <2>1, RefreshedTypes DEF Answered
<1>4. CASE RefusedPoll \/ Unanswered
  <2>1. \A b \in BOOLEAN : ingestFailure(store, b) \in Shows
    BY DEF LiveTyped, Shows, ingestFailure
  <2>. QED
    BY <1>4, <2>1, RefreshedTypes DEF RefusedPoll, Unanswered
<1>5. CASE Sleep
  BY <1>5, CallsTyped DEF LiveTyped, Sleep, Returned
<1>6. CASE ProxyPasses \/ NewToken
  BY <1>6 DEF LiveTyped, ProxyPasses, NewToken
<1>. QED
  BY <1>1, <1>2, <1>3, <1>4, <1>5, <1>6 DEF Refresh
-----------------------------------------------------------------------------
(* The stream and the timer.                                               *)

Rest == Banner /\ Single /\ TabNeverIdle

\* Where the calls of connect() are; all but those of S stay there.
Still(S) == \A d \in Conn \ S : conn'[d].at = conn[d].at
Elsewhere == UNCHANGED <<ac, timer, sleeping, rushed>>

LEMMA StillKeeps ==
  ASSUME Rest, Still({}), Elsewhere, locked => locked', store'.needToken => store.needToken
  PROVE  Rest'
<1>1. Active' = Active /\ Under("fetching")' = Under("fetching") /\ Under("open")' = Under("open")
  BY DEF Still, Active, Under
<1>. QED
  BY <1>1 DEF Rest, Banner, Single, TabNeverIdle, Elsewhere

LEMMA HubKeeps ==
  ASSUME LiveTyped, Rest,
         Publish \/ (\E p \in Snapshot : HubAnswers(p)) \/ HubRetries \/ HubWindsDown
  PROVE  Rest'
<1>1. UNCHANGED <<ac, timer, sleeping, rushed, locked, store>>
  BY DEF Publish, HubAnswers, HubRetries, HubWindsDown
<1>2. Still({})
  <2>1. CASE UNCHANGED conn
    BY <2>1 DEF Still
  <2>2. ASSUME NEW p \in Snapshot, HubAnswers(p), NEW d \in Conn PROVE conn'[d].at = conn[d].at
    <3>1. [conn[d] EXCEPT !.queue = @ \o Events(p)].at = conn[d].at
      BY DEF LiveTyped, Calls
    <3>. HIDE DEF Events
    <3>2. conn'[d] = IF conn[d].at = "open" THEN [conn[d] EXCEPT !.queue = @ \o Events(p)] ELSE conn[d]
      BY <2>2 DEF HubAnswers
    <3>. QED
      BY <3>1, <3>2
  <2>. QED
    BY <2>1, <2>2 DEF Still, Publish, HubRetries, HubWindsDown
<1>. QED
  BY <1>1, <1>2, StillKeeps DEF Elsewhere

LEMMA ReceiveKeeps ==
  ASSUME LiveTyped, Rest, NEW c \in Conn, Receive(c)
  PROVE  Rest'
<1>1. Still({})
  <2>. DEFINE k == [conn[c] EXCEPT !.queue = Tail(@)]
  <2>1. k.at = conn[c].at /\ [k EXCEPT !.delivered = TRUE].at = conn[c].at
    BY DEF LiveTyped, Calls
  <2>2. conn' \in {[conn EXCEPT ![c] = k], [conn EXCEPT ![c] = [k EXCEPT !.delivered = TRUE]]}
    BY DEF Receive
  <2>. HIDE DEF k
  <2>. QED
    BY <2>1, <2>2 DEF Still, LiveTyped
<1>2. store'.needToken => store.needToken
  BY DEF Receive, ingestStatus, LiveTyped, Shows
<1>. QED
  BY <1>1, <1>2, StillKeeps DEF Receive, Elsewhere

\* The timer fires, or the tab comes back: one more call of connect().
LEMMA ConnectKeeps ==
  ASSUME LiveTyped, Rest, NEW c \in Conn, Reconnect(c) \/ Wake(c)
  PROVE  Rest'
<1>1. c \notin Active /\ conn'[c].at = "fetching" /\ Still({c}) /\ ac' = c /\ ~timer'
  BY FreeIsIdle DEF Reconnect, Wake, Connect, Still, NoConn, LiveTyped
<1>2. Active' = Active \cup {c} /\ Under("fetching")' = Under("fetching") \cup {c} /\ Under("open")' = Under("open")
  BY <1>1 DEF Active, Under, Still
<1>3. Active = {} => Under("fetching") = {} /\ Under("open") = {}
  BY DEF Active, Under
<1>4. ~sleeping' /\ UNCHANGED <<locked, store>> /\ (~rushed' => ~rushed /\ Active = {})
  BY DEF Reconnect, Wake, Rest, Single, LiveTyped
<1>. QED
  BY <1>1, <1>2, <1>3, <1>4 DEF Rest, Banner, Single, TabNeverIdle

LEMMA OpensKeeps ==
  ASSUME LiveTyped, Rest, NEW c \in Conn, Opens(c)
  PROVE  Rest'
<1>1. conn'[c].at = "open" /\ conn[c].at = "fetching" /\ Still({c})
  BY DEF Opens, Still, LiveTyped, Calls
<1>2. Active' = Active /\ (Under("fetching") \cup Under("open"))' = Under("fetching") \cup Under("open")
  BY <1>1 DEF Active, Under, Still
<1>3. UNCHANGED <<ac, timer, sleeping, rushed, locked, store>>
  BY DEF Opens
<1>. QED
  BY <1>2, <1>3 DEF Rest, Banner, Single, TabNeverIdle

LEMMA RefusedKeeps ==
  ASSUME LiveTyped, Rest, NEW c \in Conn, Refused(c)
  PROVE  Rest'
<1>1. conn'[c].at = "returned" /\ conn[c].at = "fetching" /\ Still({c}) /\ locked /\ ac' \in {ac, None}
      /\ (ac' = None => ac = c \/ ac = None) /\ UNCHANGED <<timer, sleeping, rushed, locked>>
  BY DEF Refused, Returned, Dropped, NoConn, Still, LiveTyped
<1>2. Active' \subseteq Active /\ (Under("fetching") \cup Under("open"))' = (Under("fetching") \cup Under("open")) \ {c}
  BY <1>1 DEF Active, Under, Still
<1>. QED
  BY <1>1, <1>2 DEF Rest, Banner, Single, TabNeverIdle

\* A call whose stream ended returns with the timer set, or asks for a refresh.
LEMMA EndedKeeps ==
  ASSUME LiveTyped, Rest, NEW c \in Conn, Stalls(c) \/ Cut(c)
  PROVE  Rest'
<1>1. /\ conn[c].at \in {"fetching", "open"} /\ Still({c}) /\ UNCHANGED <<sleeping, rushed, locked, store>>
      /\ ac' \in {ac, None} /\ (ac' = None => ac = c \/ ac = None)
  BY DEF Stalls, Cut, Ended, Returned, Dropped, NoConn, Still, LiveTyped, Calls
<1>2. \/ conn'[c].at = "returned" /\ timer'
      \/ conn'[c].at = "asking" /\ timer' = timer
  <2>. DEFINE k == [conn[c] EXCEPT !.at = "asking", !.queue = <<>>]
  <2>1. k.at = "asking" /\ NoConn.at = "returned"
    BY DEF LiveTyped, Calls, NoConn
  <2>2. \/ conn' = Returned(c) /\ timer'
        \/ conn' = [conn EXCEPT ![c] = k] /\ timer' = timer
    BY DEF Stalls, Cut, Ended, LiveTyped
  <2>. HIDE DEF k
  <2>. QED
    BY <2>1, <2>2 DEF Returned, LiveTyped
<1>3. c \in Active /\ c \in Under("fetching") \cup Under("open")
  BY <1>1 DEF Active, Under
<1>4. /\ Active' = IF conn'[c].at = "returned" THEN Active \ {c} ELSE Active
      /\ (Under("fetching") \cup Under("open"))' = (Under("fetching") \cup Under("open")) \ {c}
  BY <1>1, <1>2 DEF Active, Under, Still
<1>5. Single'
  BY <1>1, <1>2, <1>3, <1>4 DEF Rest, Single
<1>. QED
  BY <1>1, <1>2, <1>3, <1>4, <1>5 DEF Rest, Banner, TabNeverIdle

\* A refresh ends: every call that awaited it returns, with the timer set if the tab is
\* awake and its token right.
LEMMA RefreshedKeeps ==
  ASSUME LiveTyped, Rest, NEW answered \in BOOLEAN, NEW s \in Shows, Refreshed(answered, s),
         s.needToken => locked
  PROVE  Rest'
<1>1. /\ \A d \in Conn : conn'[d].at = IF d \in Under("asking") THEN "returned" ELSE conn[d].at
      /\ timer' = (timer \/ (Under("asking") # {} /\ ~sleeping /\ ~s.needToken))
      /\ UNCHANGED <<ac, sleeping, rushed, locked>>
  BY DEF Refreshed, NoConn, LiveTyped
<1>2. store'.needToken = s.needToken
  BY DEF Refreshed, Shows
<1>3. /\ Active' = Active \ Under("asking")
      /\ Under("fetching")' = Under("fetching") /\ Under("open")' = Under("open")
      /\ Under("asking") \subseteq Active
  BY <1>1 DEF Active, Under
<1>4. Banner'
  BY <1>1, <1>2 DEF Banner
<1>5. Single'
  BY <1>1, <1>3 DEF Rest, Single
<1>6. TabNeverIdle'
  BY <1>1, <1>3 DEF Rest, TabNeverIdle
<1>. QED
  BY <1>4, <1>5, <1>6 DEF Rest

LEMMA RefreshKeeps ==
  ASSUME LiveTyped, Rest, Answered \/ RefusedPoll \/ Unanswered
  PROVE  Rest'
<1>1. CASE Answered
  <2>. DEFINE s == ingestStatus(store, req.brings, MetaAt(req.brings), "poll")
  <2>1. s \in Shows /\ (s.needToken => store.needToken)
    BY MetaTyped, IngestTyped DEF LiveTyped
  <2>2. Refreshed(TRUE, s)
    BY <1>1 DEF Answered
  <2>. HIDE DEF s
  <2>. QED
    BY <2>1, <2>2, RefreshedKeeps DEF Rest, Banner
<1>2. CASE RefusedPoll \/ Unanswered
  <2>1. ingestFailure(store, TRUE) \in Shows /\ ingestFailure(store, FALSE) \in Shows
        /\ ~ingestFailure(store, FALSE).needToken
    BY DEF LiveTyped, Shows, ingestFailure
  <2>. HIDE DEF ingestFailure
  <2>. QED
    BY <1>2, <2>1, RefreshedKeeps DEF RefusedPoll, Unanswered
<1>. QED
  BY <1>1, <1>2

LEMMA SleepKeeps ==
  ASSUME LiveTyped, Rest, Sleep
  PROVE  Rest'
<1>1. /\ sleeping' /\ ~timer' /\ UNCHANGED <<rushed, locked, store>>
      /\ \A d \in Conn : conn'[d].at = IF d = ac THEN "returned" ELSE conn[d].at
  BY LiveAssumption DEF Sleep, Returned, NoConn, LiveTyped
<1>2. Active' = Active \ {ac} /\ Under("fetching")' = Under("fetching") \ {ac} /\ Under("open")' = Under("open") \ {ac}
  BY <1>1 DEF Active, Under
<1>. QED
  BY <1>1, <1>2 DEF Rest, Banner, Single, TabNeverIdle

\* What asks for a refresh or changes what surrounds the tab leaves its calls alone.
LEMMA AskKeeps ==
  ASSUME Rest, Poll \/ RetryNow \/ (\E p \in Snapshot : LabStatus(p)) \/ ProxyPasses \/ NewToken
  PROVE  Rest'
<1>1. UNCHANGED <<conn, store>> /\ Elsewhere /\ (locked => locked')
  BY DEF Poll, RetryNow, LabStatus, ProxyPasses, NewToken, Elsewhere
<1>. QED
  BY <1>1, StillKeeps DEF Still
-----------------------------------------------------------------------------
LEMMA LiveStep == LiveInv /\ [Next]_vars => LiveInv'
<1>. SUFFICES ASSUME LiveTyped, Rest, [Next]_vars PROVE LiveTyped' /\ Rest'
  BY DEF LiveInv, Rest
<1>1. ASSUME Publish \/ HubServes \/ HubWindsDown PROVE LiveTyped' /\ Rest'
  BY <1>1, HubTypes, HubKeeps DEF HubServes
<1>2. ASSUME NEW c \in Conn, Stream(c) \/ Cut(c) \/ Wake(c) PROVE LiveTyped' /\ Rest'
  BY <1>2, StreamTypes, ConnectKeeps, OpensKeeps, ReceiveKeeps, RefusedKeeps, EndedKeeps DEF Stream
<1>3. ASSUME Poll \/ Refresh \/ Unanswered \/ RetryNow \/ Sleep \/ ProxyPasses \/ NewToken
      PROVE  LiveTyped' /\ Rest'
  BY <1>3, TabTypes, RefreshKeeps, SleepKeeps, AskKeeps DEF Refresh
<1>4. CASE UNCHANGED vars
  BY <1>4, StillKeeps DEF vars, LiveTyped, Still, Elsewhere
<1>. QED
  BY <1>1, <1>2, <1>3, <1>4 DEF Next

LEMMA LiveInvariant == Spec => []LiveInv
BY LiveInit, LiveStep, PTL DEF Spec

\* No order of hiding, failed streams, stalls and refreshes leaves an awake tab with
\* neither a stream nor a timer (live-connection.ts connect, scheduleReconnect).
THEOREM TabNeverSilent == Spec => []TabNeverIdle
<1>1. LiveInv => TabNeverIdle
  BY DEF LiveInv
<1>. QED
  BY <1>1, LiveInvariant, PTL

\* One call of connect() at a time, and no stream in a tab that sleeps, unless the tab
\* came back while connect() waited for a refresh (live-connection.ts onVisibility).
THEOREM StreamAtMostOne == Spec => []OneStream
<1>1. LiveInv => OneStream
  <2>. SUFFICES ASSUME LiveInv, ~rushed PROVE Cardinality(Active) <= 1
    BY DEF LiveInv, Single, OneStream
  <2>1. CASE Active = {}
    BY <2>1, FS_EmptySet
  <2>2. CASE Active # {}
    <3>1. PICK c : Active = {c}
      BY <2>2 DEF LiveInv, Single
    <3>. QED
      BY <3>1, FS_Singleton
  <2>. QED
    BY <2>1, <2>2
<1>. QED
  BY <1>1, LiveInvariant, PTL
-----------------------------------------------------------------------------
(* The static data on its way                                              *)

\* After the first i - 1 events of q the tab's static data is m, if it was base before.
InForce(q, i, base, m) ==
  \/ \E k \in 1..(i - 1) : /\ q[k].kind = "meta" /\ q[k].meta = m
                           /\ \A n \in (k + 1)..(i - 1) : q[n].kind = "tick"
  \/ m = base /\ \A n \in 1..(i - 1) : q[n].kind = "tick"

\* Each tick on its way comes after the static data of its snapshot, and the last
\* static data on its way is the hub's latest.
ToldBy(q, base, latest) ==
  /\ \A i \in 1..Len(q) : q[i].kind = "tick" /\ q[i].at # 0 => InForce(q, i, base, MetaAt(q[i].at))
  /\ latest # None => InForce(q, Len(q) + 1, base, latest)

HubSays == IF hub.meta = None THEN hub.tick = None ELSE hub.meta = MetaAt(hub.tick)

Matched ==
  /\ HubSays
  /\ ~rushed => /\ store.models = MetaAt(store.shown)
                /\ \A c \in Under("open") : ToldBy(conn[c].queue, store.meta, hub.meta)

LEMMA EventKinds ==
  ASSUME NEW e \in Event
  PROVE  /\ e.kind \in {"meta", "tick"}
         /\ e.kind = "meta" => e.meta \in AnyMeta
         /\ e.kind = "tick" => e.at \in Snapshot
BY DEF Event, MetaEvent, TickEvent

\* What was in force stays so when more is sent, ...
LEMMA AppendInForce ==
  ASSUME NEW q \in Seq(Event), NEW r \in Seq(Event), NEW i \in 1..(Len(q) + 1), NEW base, NEW m,
         InForce(q, i, base, m)
  PROVE  InForce(q \o r, i, base, m)
<1>1. \A n \in 1..(i - 1) : (q \o r)[n] = q[n]
  OBVIOUS
<1>2. ASSUME NEW k \in 1..(i - 1), q[k].kind = "meta", q[k].meta = m,
             \A n \in (k + 1)..(i - 1) : q[n].kind = "tick"
      PROVE  InForce(q \o r, i, base, m)
  <2>1. \A n \in (k + 1)..(i - 1) : n \in 1..(i - 1)
    OBVIOUS
  <2>. QED
    BY <1>1, <1>2, <2>1 DEF InForce
<1>. QED
  BY <1>1, <1>2 DEF InForce

\* ... and when the first event is read.
LEMMA TailInForce ==
  ASSUME NEW q \in Seq(Event), q # <<>>, NEW i \in 1..Len(q), NEW base, NEW m,
         InForce(q, i + 1, base, m)
  PROVE  InForce(Tail(q), i, IF q[1].kind = "meta" THEN q[1].meta ELSE base, m)
<1>. DEFINE b == IF q[1].kind = "meta" THEN q[1].meta ELSE base
<1>1. \A n \in 1..(i - 1) : Tail(q)[n] = q[n + 1] /\ n + 1 \in 1..i
  OBVIOUS
<1>2. ASSUME NEW k \in 1..i, q[k].kind = "meta", q[k].meta = m,
             \A n \in (k + 1)..i : q[n].kind = "tick"
      PROVE  InForce(Tail(q), i, b, m)
  <2>1. CASE k = 1
    <3>1. \A n \in 1..(i - 1) : Tail(q)[n].kind = "tick"
      BY <1>1, <1>2, <2>1
    <3>. QED
      BY <1>2, <2>1, <3>1 DEF InForce
  <2>2. CASE k # 1
    <3>1. k - 1 \in 1..(i - 1) /\ Tail(q)[k - 1] = q[k]
      BY <2>2
    <3>2. \A n \in k..(i - 1) : n \in 1..(i - 1) /\ n + 1 \in (k + 1)..i
      OBVIOUS
    <3>3. \A n \in ((k - 1) + 1)..(i - 1) : Tail(q)[n].kind = "tick"
      BY <1>1, <1>2, <3>2
    <3>. QED
      BY <1>2, <3>1, <3>3 DEF InForce
  <2>. QED
    BY <2>1, <2>2
<1>3. ASSUME m = base, \A n \in 1..i : q[n].kind = "tick" PROVE InForce(Tail(q), i, b, m)
  <2>1. q[1].kind = "tick" /\ \A n \in 1..(i - 1) : Tail(q)[n].kind = "tick"
    BY <1>1, <1>3
  <2>. QED
    BY <1>3, <2>1 DEF InForce
<1>4. (i + 1) - 1 = i
  OBVIOUS
<1>. QED
  BY <1>2, <1>3, <1>4 DEF InForce

\* A tick that is sent after static data that is in force leaves it in force.
LEMMA TickInForce ==
  ASSUME NEW q \in Seq(Event), NEW p \in Snapshot, NEW base, NEW m, InForce(q, Len(q) + 1, base, m)
  PROVE  LET r == q \o <<[kind |-> "tick", at |-> p]>> IN
           InForce(r, Len(q) + 1, base, m) /\ InForce(r, Len(q) + 2, base, m)
<1>. DEFINE e == [kind |-> "tick", at |-> p]
            r == q \o <<e>>
<1>1. e \in Event /\ <<e>> \in Seq(Event) /\ e.kind = "tick"
  BY DEF Event, TickEvent
<1>. HIDE DEF e
<1>2. r[Len(q) + 1] = e /\ \A n \in 1..Len(q) : r[n] = q[n]
  BY <1>1
<1>3. InForce(r, Len(q) + 1, base, m)
  <2>1. Len(q) + 1 \in 1..(Len(q) + 1)
    OBVIOUS
  <2>. QED
    BY <1>1, <2>1, AppendInForce
<1>. HIDE DEF r
<1>4. Len(q) \in Nat /\ (Len(q) + 1) - 1 = Len(q) /\ (Len(q) + 2) - 1 = Len(q) + 1
  OBVIOUS
<1>5. InForce(r, Len(q) + 2, base, m)
  <2>1. ASSUME NEW k \in 1..Len(q), r[k].kind = "meta", r[k].meta = m,
               \A n \in (k + 1)..Len(q) : r[n].kind = "tick"
        PROVE  InForce(r, Len(q) + 2, base, m)
    <3>1. \A n \in (k + 1)..(Len(q) + 1) : r[n].kind = "tick"
      <4>1. \A n \in (k + 1)..(Len(q) + 1) : n \in (k + 1)..Len(q) \/ n = Len(q) + 1
        BY <1>4
      <4>. QED
        BY <1>1, <1>2, <2>1, <4>1
    <3>2. k \in 1..(Len(q) + 1)
      BY <1>4
    <3>. QED
      BY <1>4, <2>1, <3>1, <3>2 DEF InForce
  <2>2. ASSUME m = base, \A n \in 1..Len(q) : r[n].kind = "tick" PROVE InForce(r, Len(q) + 2, base, m)
    <3>1. \A n \in 1..(Len(q) + 1) : n \in 1..Len(q) \/ n = Len(q) + 1
      BY <1>4
    <3>. QED
      BY <1>1, <1>2, <1>4, <2>2, <3>1 DEF InForce
  <2>. QED
    BY <1>3, <1>4, <2>1, <2>2 DEF InForce
<1>. QED
  BY <1>3, <1>5 DEF r, e

\* One answer of the long poll, at the end of the queue of a subscriber.
LEMMA EventsTell ==
  ASSUME LiveTyped, NEW q \in Seq(Event), NEW base, ToldBy(q, base, hub.meta), NEW p \in Snapshot
  PROVE  ToldBy(q \o Events(p), base, MetaAt(p))
<1>. DEFINE tick == [kind |-> "tick", at |-> p]
            news == IF MetaAt(p) = hub.meta THEN <<>> ELSE <<[kind |-> "meta", meta |-> MetaAt(p)]>>
            q2 == q \o news
            r == q2 \o <<tick>>
<1>1. news \in Seq(Event) /\ q2 \in Seq(Event) /\ tick \in Event /\ r \in Seq(Event)
  <2>1. [kind |-> "meta", meta |-> MetaAt(p)] \in Event /\ tick \in Event
    BY MetaTyped DEF Event, MetaEvent, TickEvent
  <2>. QED
    BY <2>1
<1>2. q \o Events(p) = r
  <2>1. \A a, b \in Seq(Event) : q \o (a \o b) = (q \o a) \o b
    OBVIOUS
  <2>2. Events(p) = news \o <<tick>> /\ <<tick>> \in Seq(Event)
    BY <1>1 DEF Events
  <2>. HIDE DEF news, tick
  <2>. QED
    BY <1>1, <2>1, <2>2
<1>3. InForce(q2, Len(q2) + 1, base, MetaAt(p))
  <2>1. CASE MetaAt(p) = hub.meta
    <3>1. q2 = q /\ hub.meta # None
      BY <2>1, MetaTyped, LiveAssumption DEF AnyMeta
    <3>. QED
      BY <2>1, <3>1 DEF ToldBy
  <2>2. CASE MetaAt(p) # hub.meta
    <3>1. Len(q2) = Len(q) + 1 /\ q2[Len(q) + 1] = [kind |-> "meta", meta |-> MetaAt(p)] /\ Len(q) \in Nat
      BY <2>2
    <3>. HIDE DEF q2
    <3>2. q2[Len(q2)].kind = "meta" /\ q2[Len(q2)].meta = MetaAt(p)
      BY <3>1
    <3>3. /\ Len(q2) \in 1..((Len(q2) + 1) - 1)
          /\ \A n \in (Len(q2) + 1)..((Len(q2) + 1) - 1) : FALSE
      BY <3>1
    <3>. QED
      BY <3>2, <3>3 DEF InForce
  <2>. QED
    BY <2>1, <2>2
<1>. HIDE DEF news
<1>4. Len(r) = Len(q2) + 1 /\ r[Len(q2) + 1] = tick /\ Len(q2) \in Nat
  BY <1>1
<1>5. InForce(r, Len(q2) + 1, base, MetaAt(p)) /\ InForce(r, Len(q2) + 2, base, MetaAt(p))
  BY <1>1, <1>3, TickInForce
<1>6. ASSUME NEW i \in 1..Len(r), r[i].kind = "tick", r[i].at # 0
      PROVE  InForce(r, i, base, MetaAt(r[i].at))
  <2>1. CASE i = Len(q2) + 1
    BY <1>4, <1>5, <2>1
  <2>2. CASE i \in 1..Len(q)
    <3>1. r[i] = q[i] /\ InForce(q, i, base, MetaAt(q[i].at)) /\ i \in 1..(Len(q) + 1)
      BY <1>1, <1>6, <2>2 DEF ToldBy
    <3>2. InForce(q2, i, base, MetaAt(q[i].at))
      BY <1>1, <3>1, AppendInForce
    <3>3. i \in 1..(Len(q2) + 1) /\ <<tick>> \in Seq(Event)
      BY <1>1, <2>2
    <3>. HIDE DEF q2, tick
    <3>. QED
      BY <1>1, <3>1, <3>2, <3>3, AppendInForce
  <2>3. CASE i \in (Len(q) + 1)..Len(q2)
    <3>1. i = Len(q) + 1 /\ r[i] = [kind |-> "meta", meta |-> MetaAt(p)]
      BY <1>1, <2>3 DEF news
    <3>. QED
      BY <1>6, <3>1
  <2>. QED
    BY <1>1, <1>4, <2>1, <2>2, <2>3
<1>7. InForce(r, Len(r) + 1, base, MetaAt(p))
  <2>1. Len(r) + 1 = Len(q2) + 2
    BY <1>4
  <2>. QED
    BY <1>5, <2>1
<1>. HIDE DEF r
<1>. QED
  BY <1>2, <1>6, <1>7 DEF ToldBy

\* What a new subscriber is told at once.
LEMMA ReplayTells ==
  ASSUME LiveTyped, HubSays, NEW recent \in BOOLEAN, NEW base
  PROVE  ToldBy(Replay(recent), base, hub.meta)
<1>1. CASE hub.meta = None
  <2>1. Replay(recent) = <<>>
    BY <1>1 DEF HubSays, Replay
  <2>. QED
    BY <1>1, <2>1 DEF ToldBy
<1>2. CASE hub.meta # None
  <2>. DEFINE first == [kind |-> "meta", meta |-> hub.meta]
  <2>1. first \in Event /\ <<first>> \in Seq(Event) /\ first.kind = "meta"
    BY <1>2 DEF LiveTyped, Event, MetaEvent
  <2>2. InForce(<<first>>, Len(<<first>>) + 1, base, hub.meta)
    BY DEF InForce
  <2>3. CASE Replay(recent) = <<first>>
    BY <2>2, <2>3 DEF ToldBy
  <2>4. CASE recent /\ hub.tick # None
    <3>. DEFINE tick == [kind |-> "tick", at |-> hub.tick]
                r == <<first>> \o <<tick>>
    <3>1. Replay(recent) = r /\ hub.tick \in Snapshot
      BY <1>2, <2>4 DEF Replay, LiveTyped
    <3>2. InForce(r, Len(<<first>>) + 1, base, hub.meta) /\ InForce(r, Len(<<first>>) + 2, base, hub.meta)
      BY <2>1, <2>2, <3>1, TickInForce
    <3>3. Len(r) = 2 /\ r[1] = first /\ r[2] = tick /\ Len(<<first>>) = 1
      OBVIOUS
    <3>4. hub.meta = MetaAt(hub.tick)
      BY <1>2 DEF HubSays
    <3>. HIDE DEF r, first
    <3>5. ASSUME NEW i \in 1..Len(r), r[i].kind = "tick" PROVE InForce(r, i, base, MetaAt(r[i].at))
      <4>1. i = 2 /\ r[i].at = hub.tick
        BY <2>1, <3>3, <3>5
      <4>. QED
        BY <3>2, <3>3, <3>4, <4>1
    <3>. QED
      BY <3>1, <3>2, <3>3, <3>5 DEF ToldBy
  <2>5. <<first>> \o <<>> = <<first>>
    OBVIOUS
  <2>6. (recent /\ hub.tick # None) \/ Replay(recent) = <<first>> \o <<>>
    BY <1>2 DEF Replay
  <2>. HIDE DEF first
  <2>. QED
    BY <2>3, <2>4, <2>5, <2>6
<1>. QED
  BY <1>1, <1>2

\* What is left to tell when the first event is read.
LEMMA TailTells ==
  ASSUME NEW q \in Seq(Event), q # <<>>, NEW base, NEW latest, ToldBy(q, base, latest)
  PROVE  ToldBy(Tail(q), IF q[1].kind = "meta" THEN q[1].meta ELSE base, latest)
<1>. DEFINE b == IF q[1].kind = "meta" THEN q[1].meta ELSE base
<1>1. Len(q) \in Nat /\ Len(Tail(q)) = Len(q) - 1 /\ Len(q) >= 1
      /\ \A i \in 1..Len(Tail(q)) : Tail(q)[i] = q[i + 1] /\ i + 1 \in 1..Len(q) /\ i \in 1..Len(q)
  OBVIOUS
<1>2. ASSUME NEW i \in 1..Len(Tail(q)), Tail(q)[i].kind = "tick", Tail(q)[i].at # 0
      PROVE  InForce(Tail(q), i, b, MetaAt(Tail(q)[i].at))
  <2>1. InForce(q, i + 1, base, MetaAt(q[i + 1].at)) /\ i \in 1..Len(q) /\ Tail(q)[i] = q[i + 1]
    BY <1>1, <1>2 DEF ToldBy
  <2>. QED
    BY <2>1, TailInForce
<1>3. ASSUME latest # None PROVE InForce(Tail(q), Len(Tail(q)) + 1, b, latest)
  <2>1. InForce(q, Len(q) + 1, base, latest) /\ Len(q) \in 1..Len(q) /\ Len(Tail(q)) + 1 = Len(q)
    BY <1>1, <1>3 DEF ToldBy
  <2>. QED
    BY <2>1, TailInForce
<1>. QED
  BY <1>2, <1>3 DEF ToldBy
-----------------------------------------------------------------------------
\* What leaves the hub's cache, the data shown and the open streams alone, ...
LEMMA MatchedStays ==
  ASSUME Matched, ~rushed' => ~rushed, hub'.meta = hub.meta, hub'.tick = hub.tick,
         store'.models = store.models, store'.shown = store.shown, store'.meta = store.meta,
         \A c \in Under("open")' : c \in Under("open") /\ conn'[c].queue = conn[c].queue
  PROVE  Matched'
<1>1. HubSays'
  BY DEF Matched, HubSays, MetaAt
<1>2. ASSUME ~rushed', NEW c \in Under("open")' PROVE ToldBy(conn'[c].queue, store'.meta, hub'.meta)
  BY <1>2 DEF Matched
<1>3. ~rushed' => store'.models = MetaAt(store'.shown)
  BY DEF Matched
<1>. QED
  BY <1>1, <1>2, <1>3 DEF Matched, ToldBy, InForce, MetaAt, HubSays

\* ... an answer of the long poll, ...
LEMMA MatchedHub ==
  ASSUME LiveTyped, Matched, NEW p \in Snapshot, HubAnswers(p)
  PROVE  Matched'
<1>1. UNCHANGED <<store, rushed>> /\ hub'.meta = MetaAt(p) /\ hub'.tick = p
  BY DEF HubAnswers, LiveTyped
<1>2. MetaAt(p) # None
  BY MetaTyped, LiveAssumption DEF AnyMeta
<1>3. ASSUME ~rushed, NEW c \in Under("open")' PROVE ToldBy(conn'[c].queue, store.meta, MetaAt(p))
  <2>1. conn[c].queue \in Seq(Event) /\ c \in Conn
    BY <1>3 DEF LiveTyped, Calls, Under
  <2>. HIDE DEF Events
  <2>2. conn'[c] = IF conn[c].at = "open" THEN [conn[c] EXCEPT !.queue = @ \o Events(p)] ELSE conn[c]
    BY <2>1 DEF HubAnswers
  <2>3. conn[c].at = "open" /\ conn'[c].queue = conn[c].queue \o Events(p)
    BY <1>3, <2>1, <2>2 DEF Under, LiveTyped, Calls
  <2>4. ToldBy(conn[c].queue, store.meta, hub.meta)
    BY <1>3, <2>1, <2>3 DEF Matched, Under
  <2>. QED
    BY <2>1, <2>3, <2>4, EventsTell
<1>4. HubSays'
  BY <1>1, <1>2 DEF HubSays, MetaAt
<1>5. ~rushed' => store'.models = MetaAt(store'.shown)
  BY <1>1 DEF Matched
<1>. QED
  BY <1>1, <1>3, <1>4, <1>5 DEF Matched, MetaAt, ToldBy, InForce

\* ... a new subscriber, ...
LEMMA MatchedOpens ==
  ASSUME LiveTyped, Matched, NEW c \in Conn, Opens(c)
  PROVE  Matched'
<1>1. UNCHANGED <<store, rushed>> /\ hub'.meta = hub.meta /\ hub'.tick = hub.tick
  BY DEF Opens, Started, LiveTyped
<1>2. ASSUME ~rushed, NEW d \in Under("open")' PROVE ToldBy(conn'[d].queue, store.meta, hub.meta)
  <2>1. PICK recent \in BOOLEAN : conn' = [conn EXCEPT ![c].at = "open", ![c].queue = Replay(recent)]
    BY DEF Opens
  <2>. HIDE DEF Replay
  <2>2. CASE d = c
    <3>1. conn'[d].queue = Replay(recent)
      BY <2>1, <2>2 DEF LiveTyped, Calls
    <3>. QED
      BY <3>1, ReplayTells DEF Matched
  <2>3. CASE d # c
    <3>1. conn'[d] = conn[d] /\ d \in Under("open")
      BY <1>2, <2>1, <2>3 DEF LiveTyped, Under
    <3>. QED
      BY <1>2, <3>1 DEF Matched
  <2>. QED
    BY <2>2, <2>3
<1>3. HubSays' /\ (~rushed' => store'.models = MetaAt(store'.shown))
  BY <1>1 DEF Matched, HubSays, MetaAt
<1>. QED
  BY <1>1, <1>2, <1>3 DEF Matched, MetaAt, ToldBy, InForce

\* ... the first event of the one stream there is, ...
LEMMA MatchedReceives ==
  ASSUME LiveTyped, Single, Matched, NEW c \in Conn, Receive(c)
  PROVE  Matched'
<1>. DEFINE q == conn[c].queue
            e == Head(conn[c].queue)
            now == IF e.kind = "meta" THEN e.meta ELSE store.meta
<1>1. q \in Seq(Event) /\ q # <<>> /\ e = q[1] /\ e \in Event /\ c \in Under("open")
  BY DEF Receive, LiveTyped, Calls, Under
<1>2. UNCHANGED <<hub, rushed>>
  BY DEF Receive
<1>3. /\ store'.meta = now
      /\ e.kind = "meta" => store'.models = store.models /\ store'.shown = store.shown
      /\ e.kind # "meta" => store' = ingestStatus(store, e.at, store.meta, "stream")
  BY DEF Receive, ingestStatus, LiveTyped, Shows
<1>4. \A d \in Under("open")' : d \in Under("open") /\ conn'[d].queue = IF d = c THEN Tail(q) ELSE conn[d].queue
  <2>. DEFINE k == [conn[c] EXCEPT !.queue = Tail(@)]
              k2 == [k EXCEPT !.delivered = TRUE]
  <2>1. k.at = "open" /\ k2.at = "open" /\ k.queue = Tail(q) /\ k2.queue = Tail(q)
    BY <1>1 DEF LiveTyped, Calls, Under
  <2>2. conn' \in {[conn EXCEPT ![c] = k], [conn EXCEPT ![c] = k2]}
    BY DEF Receive
  <2>. HIDE DEF k, k2, q
  <2>. QED
    BY <1>1, <2>1, <2>2 DEF LiveTyped, Under
<1>5. ASSUME ~rushed, e.kind # "meta", e.at # 0 PROVE store.meta = MetaAt(e.at)
  <2>1. InForce(q, 1, store.meta, MetaAt(q[1].at))
    <3>1. ToldBy(q, store.meta, hub.meta) /\ 1 \in 1..Len(q)
      BY <1>1, <1>5 DEF Matched
    <3>. QED
      BY <1>1, <1>5, <3>1, EventKinds DEF ToldBy
  <2>. QED
    BY <1>1, <2>1 DEF InForce
<1>6. ASSUME ~rushed PROVE store'.models = MetaAt(store'.shown)
  <2>1. CASE e.kind = "meta"
    BY <1>3, <1>6, <2>1 DEF Matched
  <2>2. CASE e.kind # "meta"
    <3>1. \/ store'.models = store.models /\ store'.shown = store.shown
          \/ e.at # 0 /\ store'.models = store.meta /\ store'.shown = e.at
      BY <1>3, <2>2 DEF ingestStatus, LiveTyped, Shows
    <3>. QED
      BY <1>5, <1>6, <2>2, <3>1 DEF Matched
  <2>. QED
    BY <2>1, <2>2
<1>7. ASSUME ~rushed, NEW d \in Under("open")' PROVE ToldBy(conn'[d].queue, now, hub.meta)
  <2>1. d = c
    BY <1>1, <1>4, <1>7 DEF Single, Active, Under
  <2>2. ToldBy(q, store.meta, hub.meta)
    BY <1>1, <1>7 DEF Matched
  <2>. HIDE DEF q
  <2>3. ToldBy(Tail(q), IF q[1].kind = "meta" THEN q[1].meta ELSE store.meta, hub.meta)
    BY <1>1, <2>2, TailTells
  <2>. QED
    BY <1>1, <1>4, <1>7, <2>1, <2>3
<1>8. HubSays' /\ (~rushed' => store'.models = MetaAt(store'.shown))
  BY <1>2, <1>6 DEF Matched, HubSays, MetaAt
<1>. HIDE DEF now
<1>. QED
  BY <1>2, <1>3, <1>7, <1>8 DEF Matched, MetaAt, ToldBy, InForce

\* ... and the end of a refresh, which brings a snapshot with its static data.
LEMMA MatchedRefreshed ==
  ASSUME LiveTyped, Matched, NEW answered \in BOOLEAN, NEW s \in Shows, Refreshed(answered, s),
         s.meta = store.meta, ~rushed => s.models = MetaAt(s.shown)
  PROVE  Matched'
<1>1. /\ store'.models = s.models /\ store'.shown = s.shown /\ store'.meta = s.meta
      /\ UNCHANGED <<hub, rushed>>
  BY DEF Refreshed, Shows
<1>2. \A d \in Under("open")' : d \in Under("open") /\ conn'[d].queue = conn[d].queue
  BY DEF Refreshed, NoConn, Under, LiveTyped
<1>3. HubSays' /\ (~rushed' => store'.models = MetaAt(store'.shown))
  BY <1>1 DEF Matched, HubSays, MetaAt
<1>4. \A d \in Under("open")' : ~rushed => ToldBy(conn'[d].queue, store.meta, hub.meta)
  BY <1>2 DEF Matched
<1>. QED
  BY <1>1, <1>3, <1>4 DEF Matched, MetaAt, ToldBy, InForce

LEMMA MatchedAnswers ==
  ASSUME LiveTyped, Matched, Answered \/ RefusedPoll \/ Unanswered
  PROVE  Matched'
<1>1. CASE Answered
  <2>. DEFINE s == ingestStatus(store, req.brings, MetaAt(req.brings), "poll")
  <2>1. s \in Shows
    BY MetaTyped, IngestTyped DEF LiveTyped
  <2>2. s.meta = store.meta /\ (\/ s.models = store.models /\ s.shown = store.shown
                                \/ s.models = MetaAt(req.brings) /\ s.shown = req.brings)
    BY DEF LiveTyped, Shows, ingestStatus
  <2>3. Refreshed(TRUE, s)
    BY <1>1 DEF Answered
  <2>. HIDE DEF s
  <2>4. ~rushed => s.models = MetaAt(s.shown)
    BY <2>2 DEF Matched
  <2>. QED
    BY <2>1, <2>2, <2>3, <2>4, MatchedRefreshed
<1>2. ASSUME NEW b \in BOOLEAN, Refreshed(FALSE, ingestFailure(store, b)) PROVE Matched'
  <2>. DEFINE s == ingestFailure(store, b)
  <2>1. s \in Shows /\ s.meta = store.meta /\ s.models = store.models /\ s.shown = store.shown
    BY DEF LiveTyped, Shows, ingestFailure
  <2>. HIDE DEF s
  <2>2. Refreshed(FALSE, s)
    BY <1>2 DEF s
  <2>. QED
    BY <2>1, <2>2, MatchedRefreshed DEF Matched
<1>. QED
  BY <1>1, <1>2 DEF RefusedPoll, Unanswered

\* What else happens to a call of connect() opens no stream and sends nothing.
LEMMA MatchedCalls ==
  ASSUME LiveTyped, Matched, NEW c \in Conn,
         Reconnect(c) \/ Refused(c) \/ Stalls(c) \/ Cut(c) \/ Wake(c)
  PROVE  Matched'
<1>1. UNCHANGED hub /\ (~rushed' => ~rushed)
  BY DEF Reconnect, Refused, Stalls, Cut, Wake, LiveTyped
<1>2. store'.models = store.models /\ store'.shown = store.shown /\ store'.meta = store.meta
  BY DEF Reconnect, Refused, Stalls, Cut, Wake, ingestFailure, LiveTyped, Shows
<1>3. (\A d \in Conn \ {c} : conn'[d] = conn[d]) /\ conn'[c].at # "open"
  <2>1. CASE Reconnect(c) \/ Wake(c)
    BY <2>1 DEF Reconnect, Wake, Connect, NoConn, LiveTyped
  <2>2. CASE Refused(c)
    BY <2>2 DEF Refused, Returned, NoConn, LiveTyped
  <2>3. CASE Stalls(c) \/ Cut(c)
    <3>. DEFINE k == [conn[c] EXCEPT !.at = "asking", !.queue = <<>>]
    <3>1. k.at = "asking"
      BY DEF LiveTyped, Calls
    <3>2. conn' \in {Returned(c), [conn EXCEPT ![c] = k]}
      BY <2>3 DEF Stalls, Cut, Ended
    <3>. HIDE DEF k
    <3>. QED
      BY <3>1, <3>2 DEF Returned, NoConn, LiveTyped
  <2>. QED
    BY <2>1, <2>2, <2>3
<1>4. \A d \in Under("open")' : d \in Under("open") /\ conn'[d].queue = conn[d].queue
  BY <1>3 DEF Under
<1>. QED
  BY <1>1, <1>2, <1>4, MatchedStays

LEMMA MatchedElse ==
  ASSUME LiveTyped, Matched,
         \/ Publish \/ HubRetries \/ HubWindsDown \/ Poll \/ RetryNow \/ Sleep \/ ProxyPasses
         \/ NewToken \/ (\E p \in Snapshot : LabStatus(p)) \/ UNCHANGED vars
  PROVE  Matched'
<1>1. UNCHANGED <<store, rushed>> /\ hub'.meta = hub.meta /\ hub'.tick = hub.tick
  BY DEF Publish, HubRetries, HubWindsDown, Poll, RetryNow, Sleep, ProxyPasses, NewToken, LabStatus,
         vars, LiveTyped
<1>2. \A d \in Under("open")' : d \in Under("open") /\ conn'[d].queue = conn[d].queue
  <2>1. CASE Sleep
    BY <2>1 DEF Sleep, Returned, NoConn, Under, LiveTyped
  <2>2. CASE UNCHANGED conn
    BY <2>2 DEF Under
  <2>. QED
    BY <2>1, <2>2 DEF Publish, HubRetries, HubWindsDown, Poll, RetryNow, ProxyPasses, NewToken,
                      LabStatus, vars
<1>. QED
  BY <1>1, <1>2, MatchedStays

LEMMA MatchedStep == LiveInv /\ Matched /\ [Next]_vars => Matched'
<1>. SUFFICES ASSUME LiveTyped, Single, Matched, [Next]_vars PROVE Matched'
  BY DEF LiveInv
<1>1. ASSUME NEW c \in Conn, Stream(c) \/ Cut(c) \/ Wake(c) PROVE Matched'
  BY <1>1, MatchedOpens, MatchedReceives, MatchedCalls DEF Stream
<1>2. CASE \E p \in Snapshot : HubAnswers(p)
  BY <1>2, MatchedHub
<1>. QED
  BY <1>1, <1>2, MatchedAnswers, MatchedElse DEF Next, HubServes, Refresh

LEMMA MatchedInit == Init => Matched
<1>. SUFFICES ASSUME Init PROVE Matched
  OBVIOUS
<1>1. Under("open") = {}
  BY DEF Init, Under, NoConn
<1>2. HubSays /\ store.models = MetaAt(store.shown)
  BY DEF Init, HubSays, MetaAt
<1>. QED
  BY <1>1, <1>2 DEF Matched

\* The models, version and flags shown are those of the snapshot shown, although they
\* come in events of their own, only when they change, past polls that bring both
\* (live.ts pump, lab-status-store.ts ingestStatus), unless the tab came back while
\* connect() waited for a refresh.
THEOREM ShownStaysWhole == Spec => []ShownModelsMatch
<1>1. Matched => ShownModelsMatch
  BY DEF Matched, ShownModelsMatch
<1>. QED
  BY <1>1, MatchedInit, MatchedStep, LiveInvariant, PTL DEF Spec
=============================================================================
