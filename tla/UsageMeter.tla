----------------------------- MODULE UsageMeter -----------------------------
(***************************************************************************)
(* The controller's token meter (controller/usage.ts): a pass reads the    *)
(* counters of every enabled backend, one after the other, and books the   *)
(* difference to the last reading of that URL, kept in the database.       *)
(*                                                                         *)
(* One counter stands for prompt tokens, completion tokens and requests,   *)
(* and all processes serve one model: readings of different models never   *)
(* meet.  A process is known by its process_start_time_seconds.            *)
(***************************************************************************)
EXTENDS Naturals, Sequences, FiniteSets

CONSTANTS
  Proc,      \* processes of model servers, each started once
  Url,
  UrlsOf,    \* the URLs each process is reached under (127.0.0.1, localhost, a LAN address)
  Backends,  \* how many backends are enabled
  Pass,      \* passes that may be under way at once
  Nothing,
  MaxTokens, \* bound: tokens a process counts
  MaxEdits,  \* bound: edits of a backend's URL
  MaxCrashes \* bound: restarts of the controller

ASSUME MeterAssumption ==
  /\ UrlsOf \in [Proc -> SUBSET Url]
  /\ Nothing \notin Proc \cup Url
  /\ Backends \in Nat /\ MaxTokens \in Nat /\ MaxEdits \in Nat /\ MaxCrashes \in Nat

VARIABLES
  stage,    \* stage[p]: off, up or gone
  tokens,   \* tokens[p]: the counter of the process
  url,      \* url[b]: the backend's URL in the settings
  pass,     \* pass[i]: the backends it has left, and the reading on its way
  last,     \* last[u]: the reading kept for the URL (usage_counters)
  booked,   \* booked[p]: what the readings of p added to usage_minutes
  read,     \* read[p]: the highest counter of p in a reading (history)
  edits, crashes

meterVars == <<stage, tokens, url, pass, last, booked, read, edits, crashes>>

Backend == 1..Backends
Readings == [of : Proc, count : Nat]
NoPass == [left |-> <<>>, reading |-> Nothing, at |-> Nothing]

MeterTypeOK ==
  /\ stage \in [Proc -> {"off", "up", "gone"}] /\ tokens \in [Proc -> 0..MaxTokens]
  /\ url \in [Backend -> Url]
  /\ pass \in [Pass -> [left : Seq(Url), reading : Readings \cup {Nothing}, at : Url \cup {Nothing}]]
  /\ last \in [Url -> Readings \cup {Nothing}]
  /\ booked \in [Proc -> Nat] /\ read \in [Proc -> 0..MaxTokens]
  /\ edits \in 0..MaxEdits /\ crashes \in 0..MaxCrashes

MeterInit ==
  /\ stage = [p \in Proc |-> "off"] /\ tokens = [p \in Proc |-> 0]
  /\ url \in [Backend -> Url]
  /\ pass = [i \in Pass |-> NoPass]
  /\ last = [u \in Url |-> Nothing] /\ booked = [p \in Proc |-> 0] /\ read = [p \in Proc |-> 0]
  /\ edits = 0 /\ crashes = 0

-----------------------------------------------------------------------------
Start(p) ==
  /\ stage[p] = "off"
  /\ \A q \in Proc : stage[q] = "up" => UrlsOf[q] \cap UrlsOf[p] = {}
  /\ stage' = [stage EXCEPT ![p] = "up"]
  /\ UNCHANGED <<tokens, url, pass, last, booked, read, edits, crashes>>

Generate(p) ==
  /\ stage[p] = "up" /\ tokens[p] < MaxTokens
  /\ tokens' = [tokens EXCEPT ![p] = @ + 1]
  /\ UNCHANGED <<stage, url, pass, last, booked, read, edits, crashes>>

Exit(p) ==
  /\ stage[p] = "up"
  /\ stage' = [stage EXCEPT ![p] = "gone"]
  /\ UNCHANGED <<tokens, url, pass, last, booked, read, edits, crashes>>

Configure(b, u) ==
  /\ edits < MaxEdits /\ url[b] # u
  /\ url' = [url EXCEPT ![b] = u]
  /\ edits' = edits + 1
  /\ UNCHANGED <<stage, tokens, pass, last, booked, read, crashes>>

-----------------------------------------------------------------------------
(* sampleUsage reads the settings once and then every backend in turn.     *)
Begin(i) ==
  /\ pass[i] = NoPass
  /\ pass' = [pass EXCEPT ![i].left = [k \in Backend |-> url[k]]]
  /\ UNCHANGED <<stage, tokens, url, last, booked, read, edits, crashes>>

Serving(u) == {p \in Proc : stage[p] = "up" /\ u \in UrlsOf[p]}

(* GET /metrics answers with the counters of that moment; a backend that   *)
(* is down or too slow is skipped.                                         *)
Scrape(i) ==
  /\ pass[i].left # <<>> /\ pass[i].reading = Nothing
  /\ LET u == Head(pass[i].left) IN
     \/ \E p \in Serving(u) :
          pass' = [pass EXCEPT ![i] = [left |-> Tail(@.left), at |-> u,
                                       reading |-> [of |-> p, count |-> tokens[p]]]]
     \/ pass' = [pass EXCEPT ![i].left = Tail(@)]
  /\ UNCHANGED <<stage, tokens, url, last, booked, read, edits, crashes>>

\* Mistake: every URL is metered on its own.
NeverMoved(u, r) == {}

(* The same process under another URL: its reading moves along.            *)
Elsewhere(u, r) ==
  {v \in Url \ {u} : last[v] # Nothing /\ last[v].of = r.of}
Moved(u, r) ==
  IF last[u] # Nothing /\ last[u].of = r.of THEN {} ELSE Elsewhere(u, r)

(* The reading a new one is compared with.                                 *)
Previous(u, r) ==
  IF Moved(u, r) # {} THEN last[CHOOSE v \in Moved(u, r) : TRUE] ELSE last[u]

(* A new process, and a counter that went back, start from zero.           *)
CounterDelta(prev, r) ==
  IF prev = Nothing \/ prev.of # r.of \/ r.count < prev.count
  THEN r.count ELSE r.count - prev.count

(* recordCounters: one transaction, after the model's name was asked for.  *)
Record(i) ==
  /\ pass[i].reading # Nothing
  /\ LET r == pass[i].reading
         u == pass[i].at
     IN /\ booked' = [booked EXCEPT ![r.of] = @ + CounterDelta(Previous(u, r), r)]
        /\ last' = [v \in Url |-> IF v = u THEN r
                                  ELSE IF v \in Moved(u, r) THEN Nothing ELSE last[v]]
        /\ read' = [read EXCEPT ![r.of] = IF @ < r.count THEN r.count ELSE @]
  /\ pass' = [pass EXCEPT ![i].reading = Nothing, ![i].at = Nothing]
  /\ UNCHANGED <<stage, tokens, url, edits, crashes>>

(* The controller restarts: the passes are gone, the database stays.       *)
Crash ==
  /\ crashes < MaxCrashes
  /\ crashes' = crashes + 1
  /\ pass' = [i \in Pass |-> NoPass]
  /\ UNCHANGED <<stage, tokens, url, last, booked, read, edits>>

MeterNext ==
  \/ \E p \in Proc : Start(p) \/ Generate(p) \/ Exit(p)
  \/ \E b \in Backend, u \in Url : Configure(b, u)
  \/ \E i \in Pass : Begin(i) \/ Scrape(i) \/ Record(i)
  \/ Crash

MeterSpec == MeterInit /\ [][MeterNext]_meterVars
-----------------------------------------------------------------------------
(* Every token of a process is booked once, up to its last reading: not    *)
(* again after the server restarted, after its backend's URL was edited or *)
(* is reached under two, nor after the controller restarted.               *)
BookedOnce == \A p \in Proc : booked[p] = read[p]
=============================================================================
