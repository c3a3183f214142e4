---------------------------- MODULE StatusSampler ----------------------------
(***************************************************************************)
(* The serve-engine's status sampler (status_sampler.py): a fast tick that *)
(* scrapes the endpoint and docker, a slow tick that takes the cluster     *)
(* inventory and finds out where the endpoint answers, the live rates the  *)
(* scrapes yield (metadata.py), and the long polls that wait for the next  *)
(* snapshot.                                                               *)
(*                                                                         *)
(* All of it runs on one event loop: what stands between two awaits is one *)
(* step, and the other tick and the readers run at the awaits.  A model    *)
(* server is a process with a container, a port and a counter of tokens.   *)
(***************************************************************************)
EXTENDS Naturals, Integers, Sequences, FiniteSets, SequencesExt

CONSTANTS
  Proc,      \* model servers, each started once
  Url, UrlOf, \* the URL each one answers on
  Home,      \* the configured URL
  Name, NameOf, \* its container's name
  Kind, KindOf, \* its engine
  Vllm,      \* the engine whose version route an unknown one is asked on
  Unversioned, \* engines without a version route
  Reader,    \* long polls
  None,
  QuickSwap, \* a server may load, or be replaced by one of its name, within a tick
  MaxStarts, \* bound: servers started
  MaxTokens, \* bound: tokens a server generates
  MaxLost    \* bound: requests of the probe that time out, long polls that do

ASSUME SamplerAssumption ==
  /\ UrlOf \in [Proc -> Url] /\ NameOf \in [Proc -> Name] /\ KindOf \in [Proc -> Kind]
  /\ Home \in Url /\ Vllm \in Kind /\ Unversioned \subseteq Kind
  /\ None \notin Proc \cup Url \cup Name \cup Kind \cup Reader \cup {"mixed rate"}
  /\ QuickSwap \in BOOLEAN /\ MaxStarts \in Nat /\ MaxTokens \in Nat /\ MaxLost \in Nat

VARIABLES
  stage,       \* stage[p]: the server is off, loading, up, gone, or gone for a whole tick
  tokens,      \* tokens[p]: its counter of generated tokens
  started,     \* the servers in the order of their start
  base,        \* base_url
  pending,     \* _pending_url
  needVersion, \* _need_version
  engine,      \* _engine
  containers,  \* _containers, the newest first
  inspectName, \* _inspect_name
  probe,       \* _probe
  rate,        \* _LIVE_RATE: the previous scrape
  fast,        \* where the fast tick stands and what it has
  slow,        \* where the slow tick stands, and where it found the endpoint
  snap,        \* _snapshot
  nextEvent,   \* _next: the reader that created the event
  poll,        \* poll[r]: the event the long poll waits on, and what it has
  lost

world == <<stage, tokens, started>>
sampler == <<base, pending, needVersion, engine, containers, inspectName, probe, rate>>
readers == <<nextEvent, poll>>
vars == <<world, sampler, fast, slow, snap, readers, lost>>

(* What a scrape shows: gauges and totals, and with an earlier scrape of   *)
(* the endpoint a live rate.  A rate is real when it is not more than what *)
(* the endpoint generated in its window.                                   *)
Metrics == {"gauges", "real rate", "mixed rate"}
Answers == [healthy : BOOLEAN, kind : Kind \cup {None}, version : Proc \cup {None},
            metrics : Metrics \cup {None}]
Probes == [url : Url, version : Proc \cup {None}, metrics : Metrics \cup {None}]
Scrapes == [of : Proc, count : Nat]

TypeOK ==
  /\ stage \in [Proc -> {"off", "loading", "up", "gone", "missed"}]
  /\ tokens \in [Proc -> 0..MaxTokens] /\ started \in Seq(Proc)
  /\ base \in Url /\ pending \in Url \cup {None} /\ needVersion \in BOOLEAN
  /\ engine \in Kind \cup {None} /\ containers \in Seq(Proc)
  /\ inspectName \in Name \cup {None} /\ probe \in Probes \cup {None}
  /\ rate \in Scrapes \cup {None}
  /\ fast \in [at : {"idle", "asking", "inspecting"}, url : Url, moved : BOOLEAN,
               hint : Kind \cup {None}, answer : Answers \cup {None},
               listed : Seq(Proc), gone : SUBSET Proc]
  /\ slow \in [at : {"idle", "syncing"}, found : Url \cup {None}]
  /\ snap \in [base : Url, probe : Probes] \cup {None}
  /\ nextEvent \in Reader \cup {None}
  /\ poll \in [Reader -> [event : Reader \cup {None}, newest : BOOLEAN]]
  /\ lost \in 0..MaxLost

Idle == [at |-> "idle", url |-> Home, moved |-> FALSE, hint |-> None, answer |-> None, listed |-> <<>>,
         gone |-> {}]
NoPoll == [event |-> None, newest |-> FALSE]

Init ==
  /\ stage = [p \in Proc |-> "off"] /\ tokens = [p \in Proc |-> 0] /\ started = <<>>
  /\ base = Home /\ pending = None /\ needVersion = TRUE /\ engine = None
  /\ containers = <<>> /\ inspectName = None /\ probe = None /\ rate = None
  /\ fast = Idle /\ slow = [at |-> "idle", found |-> None] /\ snap = None
  /\ nextEvent = None /\ poll = [r \in Reader |-> NoPoll] /\ lost = 0

-----------------------------------------------------------------------------
(* The servers *)

Running(p) == stage[p] \in {"loading", "up"}
Up(u) == {p \in Proc : stage[p] = "up" /\ UrlOf[p] = u}
Answering(u) == IF Up(u) = {} THEN None ELSE CHOOSE p \in Up(u) : TRUE
Listed == Reverse(SelectSeq(started, Running))
Top(list) == IF list = <<>> THEN None ELSE NameOf[list[1]]

(* docker refuses a second container of a name; a port has one server.     *)
Start(p) ==
  /\ stage[p] = "off" /\ Len(started) < MaxStarts
  /\ \A q \in Proc : Running(q) => NameOf[q] # NameOf[p] /\ UrlOf[q] # UrlOf[p]
  /\ QuickSwap \/ \A q \in Proc : NameOf[q] = NameOf[p] => stage[q] # "gone"
  /\ stage' = [stage EXCEPT ![p] = "loading"]
  /\ started' = Append(started, p)
  /\ UNCHANGED <<tokens, sampler, fast, slow, snap, readers, lost>>

Load(p) ==
  /\ stage[p] = "loading"
  /\ QuickSwap \/ p \in Range(containers)
  /\ stage' = [stage EXCEPT ![p] = "up"]
  /\ UNCHANGED <<tokens, started, sampler, fast, slow, snap, readers, lost>>

Exit(p) ==
  /\ Running(p)
  /\ stage' = [stage EXCEPT ![p] = "gone"]
  /\ UNCHANGED <<tokens, started, sampler, fast, slow, snap, readers, lost>>

Generate(p) ==
  /\ stage[p] = "up" /\ tokens[p] < MaxTokens
  /\ tokens' = [tokens EXCEPT ![p] = @ + 1]
  /\ UNCHANGED <<stage, started, sampler, fast, slow, snap, readers, lost>>

-----------------------------------------------------------------------------
(* A publish sets the event the long polls wait on, which answers them     *)
(* with the new snapshot, and drops it.                                    *)

Wake == [r \in Reader |->
           IF poll[r].event = nextEvent /\ nextEvent # None
           THEN [NoPoll EXCEPT !.newest = TRUE] ELSE [poll[r] EXCEPT !.newest = FALSE]]

Publish(p) ==
  /\ snap' = [base |-> base, probe |-> p]
  /\ poll' = Wake
  /\ nextEvent' = None

(* A scrape has no live rate without an earlier one, nor when the counter  *)
(* went back.  In the window the endpoint generated what its server did    *)
(* since the earlier scrape, or the rest of the earlier server and all of  *)
(* its successor.                                                          *)
Generated(p) ==
  IF rate.of = p THEN tokens[p] - rate.count
  ELSE IF UrlOf[rate.of] = UrlOf[p] THEN (tokens[rate.of] - rate.count) + tokens[p]
  ELSE -1

Scrape(p) ==
  IF rate = None THEN "gauges"
  ELSE IF tokens[p] < rate.count THEN "gauges"
  ELSE IF tokens[p] - rate.count <= Generated(p) THEN "real rate" ELSE "mixed rate"

(* The container list hints at the engine the endpoint has.                *)
Hint(eng) ==
  IF eng # None THEN eng
  ELSE IF containers = <<>> THEN None ELSE KindOf[containers[1]]

VersionRoute(hint) == IF hint = None THEN Vllm ELSE hint

\* Mistake: the counters of the old URL are kept.
EarlierScrapeOfAny == rate
(* The scrape the next rate is taken against: none after a move.           *)
EarlierScrape == IF pending # None THEN None ELSE rate

(* The fast tick applies the move the slow tick recorded.                  *)
FastBegin ==
  /\ fast.at = "idle"
  /\ LET moved == pending # None
         url == IF moved THEN pending ELSE base
         eng == IF moved THEN None ELSE engine
     IN /\ fast' = [at |-> "asking", url |-> url, moved |-> moved, hint |-> Hint(eng),
                    answer |-> None, listed |-> Listed,
                    gone |-> {p \in Proc : stage[p] = "gone"}]
        /\ base' = url
        /\ pending' = None
        /\ needVersion' = (needVersion \/ moved)
        /\ engine' = eng
        /\ rate' = EarlierScrape
  /\ UNCHANGED <<world, containers, inspectName, probe, slow, snap, readers, lost>>

NoAnswer == [healthy |-> FALSE, kind |-> fast.hint, version |-> None, metrics |-> None]

(* probe_endpoint: /health, /v1/models, /version and /metrics at once, any *)
(* of the last three unanswered.  Only models or metrics tell the engine.  *)
ProbeOf(p, missing) ==
  [healthy |-> TRUE,
   kind |-> IF {"models", "metrics"} \subseteq missing THEN fast.hint ELSE KindOf[p],
   version |-> IF needVersion /\ "version" \notin missing
                  /\ VersionRoute(fast.hint) = KindOf[p] /\ KindOf[p] \notin Unversioned
               THEN p ELSE None,
   metrics |-> IF "metrics" \in missing THEN None ELSE Scrape(p)]

ProbeAnswers ==
  /\ fast.at = "asking" /\ fast.answer = None
  /\ LET p == Answering(fast.url) IN
     \/ /\ p = None
        /\ fast' = [fast EXCEPT !.answer = NoAnswer]
        /\ UNCHANGED <<rate, lost>>
     \/ /\ p # None
        /\ \E missing \in SUBSET {"models", "version", "metrics"} :
             /\ lost + Cardinality(missing) <= MaxLost
             /\ lost' = lost + Cardinality(missing)
             /\ fast' = [fast EXCEPT !.answer = ProbeOf(p, missing)]
             /\ rate' = IF "metrics" \in missing THEN rate ELSE [of |-> p, count |-> tokens[p]]
  /\ UNCHANGED <<world, base, pending, needVersion, engine, containers, inspectName, probe,
                 slow, snap, readers>>

(* Another engine on the same URL: the window mixed the two.               *)
Swapped(a) == engine # None /\ a.kind \notin {None, engine}
Guessed(a) == a.kind \notin {None, fast.hint}
WithoutRate(m) == IF m = None THEN None ELSE "gauges"

Needs(a) == needVersion \/ Swapped(a) \/ Guessed(a)
Old(a) == IF fast.moved \/ Swapped(a) \/ probe = None
          THEN [version |-> None, metrics |-> None]
          ELSE [version |-> probe.version, metrics |-> probe.metrics]

(* What the tick keeps of the previous probe: the version while it is not  *)
(* asked for, the gauges of a scrape that timed out under load.            *)
Merged(a) ==
  [url |-> fast.url,
   version |-> IF ~Needs(a) THEN Old(a).version ELSE IF Guessed(a) THEN None ELSE a.version,
   metrics |-> IF a.metrics = None /\ a.healthy THEN WithoutRate(Old(a).metrics)
               ELSE IF Swapped(a) THEN WithoutRate(a.metrics) ELSE a.metrics]

(* Another serving container than the one inspected before: everything     *)
(* about the engine is forgotten.                                          *)
Forget(list) == Top(list) # inspectName /\ inspectName # None

(* The rest of the tick up to docker inspect, which is awaited when the    *)
(* serving container changed or was not looked at for a slow interval.     *)
(* docker ps ran next to the probe: the list is as old as the tick or new. *)
FastTick(list) ==
  /\ fast.at = "asking" /\ fast.answer # None
  /\ LET a == fast.answer
     IN /\ probe' = Merged(a)
        /\ containers' = list
        /\ inspectName' = Top(list)
        /\ needVersion' = (Forget(list) \/ (Needs(a) /\ Merged(a).version = None))
        /\ engine' = IF Forget(list) THEN None ELSE IF a.kind # None THEN a.kind ELSE engine
        /\ rate' = IF Forget(list) \/ Swapped(a) THEN None ELSE rate
        /\ stage' = [p \in Proc |-> IF p \in fast.gone THEN "missed" ELSE stage[p]]
        /\ \/ /\ Top(list) # None
              /\ fast' = [Idle EXCEPT !.at = "inspecting"]
              /\ UNCHANGED <<snap, readers>>
           \/ /\ ~(Top(list) # inspectName /\ Top(list) # None)
              /\ fast' = Idle
              /\ Publish(Merged(a))
  /\ UNCHANGED <<tokens, started, base, pending, slow, lost>>

Inspected ==
  /\ fast.at = "inspecting"
  /\ fast' = Idle
  /\ Publish(probe)
  /\ UNCHANGED <<world, sampler, slow, lost>>

-----------------------------------------------------------------------------
(* The slow tick.  The inventory tries the ports of the containers the     *)
(* sampler knows, then the configured URL, then the engines' usual ports.  *)

Endpoint ==
  LET listed == IF probe = None THEN Listed ELSE containers
      urls == [i \in DOMAIN listed |-> UrlOf[listed[i]]] \o <<Home>> \o SetToSeq(Url)
      live == SelectSeq(urls, LAMBDA u : Up(u) # {})
  IN IF live = <<>> THEN None ELSE live[1]

(* Between the inventory and the publish the tick may wait for a peer's    *)
(* telemetry stream to stop.                                               *)
Inventory ==
  /\ slow.at = "idle"
  /\ slow' = [at |-> "syncing", found |-> Endpoint]
  /\ UNCHANGED <<world, sampler, fast, snap, readers, lost>>

(* _follow_endpoint only records the move.                                 *)
FollowEndpoint ==
  /\ pending' = IF slow.found \notin {None, base} THEN slow.found ELSE pending
  /\ UNCHANGED <<base, needVersion, engine, rate>>

SlowTick ==
  /\ slow.at = "syncing"
  /\ slow' = [at |-> "idle", found |-> None]
  /\ FollowEndpoint
  /\ IF probe # None THEN Publish(probe) ELSE UNCHANGED <<snap, readers>>
  /\ UNCHANGED <<world, containers, inspectName, probe, fast, lost>>

-----------------------------------------------------------------------------
(* The long polls: GET /api/status?after=..&wait=..  Before the first      *)
(* snapshot, and without the newest one, the answer is immediate.          *)

Answered(r) ==
  /\ poll' = [poll EXCEPT ![r] = [NoPoll EXCEPT !.newest = TRUE]]
  /\ UNCHANGED nextEvent

\* Mistake: every long poll makes its own event.
WaitOnOwn(r) ==
  /\ nextEvent' = r
  /\ poll' = [poll EXCEPT ![r].event = r]

(* With the newest snapshot in hand a reader waits for the next one.       *)
Wait(r) ==
  LET event == IF nextEvent = None THEN r ELSE nextEvent IN
  /\ nextEvent' = event
  /\ poll' = [poll EXCEPT ![r].event = event]

Asks(r) ==
  /\ snap # None /\ poll[r].event = None
  /\ IF poll[r].newest THEN Wait(r) ELSE Answered(r)
  /\ UNCHANGED <<world, sampler, fast, slow, snap, lost>>

WaitTimesOut(r) ==
  /\ poll[r].event # None /\ lost < MaxLost
  /\ lost' = lost + 1
  /\ Answered(r)
  /\ UNCHANGED <<world, sampler, fast, slow, snap>>

-----------------------------------------------------------------------------
Server(p) == Start(p) \/ Load(p) \/ Exit(p) \/ Generate(p)
FastLoop == FastBegin \/ ProbeAnswers \/ (\E list \in {fast.listed, Listed} : FastTick(list)) \/ Inspected
SlowLoop == Inventory \/ SlowTick
LongPoll(r) == Asks(r) \/ WaitTimesOut(r)

Next ==
  \/ \E p \in Proc : Server(p)
  \/ FastLoop \/ SlowLoop
  \/ \E r \in Reader : LongPoll(r)

Spec == Init /\ [][Next]_vars

-----------------------------------------------------------------------------
(* A long poll that waits has the newest snapshot, and waits on the event  *)
(* the next publish sets.  A publish replaces the event, and polls share   *)
(* it: one that waits on a dropped event sleeps out its time-out with a    *)
(* newer snapshot published.                                               *)
NoMissedPublish ==
  \A r \in Reader : poll[r].event # None =>
    poll[r].newest /\ poll[r].event = nextEvent

(* A rate that is published never exceeds what the endpoint generated in   *)
(* its window: the two counters it is taken from are of one endpoint,      *)
(* whatever moved, restarted or was replaced between the scrapes.          *)
RateIsReal == snap # None => snap.probe.metrics # "mixed rate"
=============================================================================
