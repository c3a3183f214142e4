------------------------- MODULE StatusSamplerProofs -------------------------
(***************************************************************************)
(* That no long poll sleeps through a snapshot and no published rate is    *)
(* made up, for any number of model servers, URLs, readers and lost        *)
(* requests, and any order of the ticks, the readers and the servers.      *)
(*                                                                         *)
(* The argument: every long poll that waits does so on the event the next  *)
(* publish sets (NoMissedPublish is inductive).  The counter a rate is     *)
(* taken against is of a server on the URL the sampler is at, because the  *)
(* fast tick drops it when it moves and asks only the URL it moved to      *)
(* (EarlierIsHere); so no scrape, answer or probe has a rate that mixes    *)
(* two endpoints (Clean).                                                  *)
(***************************************************************************)
EXTENDS StatusSampler, TLAPS

USE DEF world, sampler, readers

Mixed == "mixed rate"

\* The types the theorems need; the container lists, hints and versions say nothing
\* about a rate and are left out.
SamplerTyped ==
  /\ tokens \in [Proc -> Nat]
  /\ rate # None => rate.of \in Proc /\ rate.count \in Nat
  /\ fast = [at |-> fast.at, url |-> fast.url, moved |-> fast.moved, hint |-> fast.hint,
             answer |-> fast.answer, listed |-> fast.listed, gone |-> fast.gone]
  /\ poll \in [Reader -> [event : Reader \cup {None}, newest : BOOLEAN]]
  /\ nextEvent \in Reader \cup {None}

EarlierIsHere ==
  /\ rate # None => UrlOf[rate.of] = base
  /\ fast.at = "asking" => fast.url = base

Clean ==
  /\ fast.at = "asking" /\ fast.answer # None => fast.answer.metrics # Mixed
  /\ fast.at = "inspecting" \/ probe # None => probe.metrics # Mixed
  /\ RateIsReal

SamplerInv == SamplerTyped /\ EarlierIsHere /\ Clean /\ NoMissedPublish
-----------------------------------------------------------------------------
LEMMA SamplerInit == Init => SamplerInv
BY DEF Init, SamplerInv, SamplerTyped, EarlierIsHere, Clean, NoMissedPublish, RateIsReal, Idle, NoPoll

\* A publish answers everyone who waits.
LEMMA PublishWakes ==
  ASSUME SamplerTyped, NoMissedPublish, NEW p, Publish(p)
  PROVE  /\ NoMissedPublish' /\ nextEvent' = None
         /\ poll' \in [Reader -> [event : Reader \cup {None}, newest : BOOLEAN]]
         /\ snap'.probe = p
<1>1. \A r \in Reader : poll'[r].event = None /\ poll'[r] \in [event : Reader \cup {None}, newest : BOOLEAN]
  BY DEF Publish, Wake, SamplerTyped, NoMissedPublish, NoPoll
<1>2. poll' = [r \in Reader |-> poll'[r]]
  BY DEF Publish, Wake
<1>. QED
  BY <1>1, <1>2 DEF NoMissedPublish, Publish

\* Counters of one URL give a rate its server can have had.
LEMMA ScrapeIsReal ==
  ASSUME SamplerTyped, NEW p \in Proc, rate # None => UrlOf[rate.of] = UrlOf[p]
  PROVE  Scrape(p) # Mixed
BY DEF SamplerTyped, Scrape, Generated, Mixed

LEMMA MergedIsClean ==
  ASSUME NEW a, a.metrics # Mixed
  PROVE  Merged(a).metrics # Mixed
<1>1. \A m : WithoutRate(m) # Mixed
  BY SamplerAssumption DEF WithoutRate, Mixed
<1>. QED
  BY <1>1 DEF Merged
-----------------------------------------------------------------------------
LEMMA ServerKeeps ==
  ASSUME SamplerInv, NEW p \in Proc, Server(p)
  PROVE  SamplerInv'
<1>1. tokens' \in [Proc -> Nat]
  BY DEF SamplerInv, SamplerTyped, Server, Start, Load, Exit, Generate
<1>2. UNCHANGED <<sampler, fast, snap, readers>>
  BY DEF Server, Start, Load, Exit, Generate
<1>. QED
  BY <1>1, <1>2 DEF SamplerInv, SamplerTyped, EarlierIsHere, Clean, NoMissedPublish, RateIsReal

LEMMA BeginKeeps ==
  ASSUME SamplerInv, FastBegin
  PROVE  SamplerInv'
<1>1. /\ fast'.at = "asking" /\ fast'.url = base' /\ fast'.answer = None
      /\ fast' = [at |-> fast'.at, url |-> fast'.url, moved |-> fast'.moved, hint |-> fast'.hint,
                  answer |-> fast'.answer, listed |-> fast'.listed, gone |-> fast'.gone]
  BY DEF FastBegin
<1>2. rate' = None \/ (rate' = rate /\ base' = base)
  BY DEF FastBegin, EarlierScrape
<1>3. UNCHANGED <<tokens, probe, snap, poll, nextEvent>>
  BY DEF FastBegin
<1>. QED
  BY <1>1, <1>2, <1>3 DEF SamplerInv, SamplerTyped, EarlierIsHere, Clean, NoMissedPublish, RateIsReal

LEMMA AnswerKeeps ==
  ASSUME SamplerInv, ProbeAnswers
  PROVE  SamplerInv'
<1>1. UNCHANGED <<tokens, base, probe, snap, poll, nextEvent>> /\ fast.at = "asking"
  BY DEF ProbeAnswers
<1>2. /\ fast'.at = fast.at /\ fast'.url = fast.url
      /\ fast' = [at |-> fast'.at, url |-> fast'.url, moved |-> fast'.moved, hint |-> fast'.hint,
                  answer |-> fast'.answer, listed |-> fast'.listed, gone |-> fast'.gone]
  BY DEF ProbeAnswers, SamplerInv, SamplerTyped
<1>3. /\ fast'.answer.metrics # Mixed
      /\ \/ rate' = rate
         \/ \E p \in Proc : UrlOf[p] = base /\ rate' = [of |-> p, count |-> tokens[p]]
  <2>. DEFINE p == Answering(fast.url)
  <2>1. CASE p = None
    <3>1. fast'.answer = NoAnswer /\ rate' = rate
      BY <2>1 DEF ProbeAnswers, SamplerInv, SamplerTyped
    <3>2. NoAnswer.metrics # Mixed
      BY SamplerAssumption DEF NoAnswer, Mixed
    <3>. QED
      BY <3>1, <3>2
  <2>2. CASE p # None
    <3>1. p \in Proc /\ UrlOf[p] = base
      BY <1>1, <2>2 DEF Answering, Up, SamplerInv, EarlierIsHere
    <3>2. PICK missing \in SUBSET {"models", "version", "metrics"} :
            /\ fast' = [fast EXCEPT !.answer = ProbeOf(p, missing)]
            /\ rate' = IF "metrics" \in missing THEN rate ELSE [of |-> p, count |-> tokens[p]]
      BY <2>2 DEF ProbeAnswers
    <3>3. Scrape(p) # Mixed
      BY <3>1, ScrapeIsReal DEF SamplerInv, EarlierIsHere
    <3>. HIDE DEF p
    <3>4. ProbeOf(p, missing).metrics # Mixed
      BY <3>3, SamplerAssumption DEF ProbeOf, Mixed
    <3>5. fast'.answer = ProbeOf(p, missing)
      BY <3>2 DEF SamplerInv, SamplerTyped
    <3>. QED
      BY <3>1, <3>2, <3>4, <3>5
  <2>. QED
    BY <2>1, <2>2
<1>4. rate' # None => rate'.of \in Proc /\ rate'.count \in Nat /\ UrlOf[rate'.of] = base
  BY <1>3 DEF SamplerInv, SamplerTyped, EarlierIsHere
<1>. QED
  BY <1>1, <1>2, <1>3, <1>4 DEF SamplerInv, SamplerTyped, EarlierIsHere, Clean, NoMissedPublish, RateIsReal

LEMMA TickKeeps ==
  ASSUME SamplerInv, NEW list, FastTick(list)
  PROVE  SamplerInv'
<1>1. fast.at = "asking" /\ fast.answer # None /\ UNCHANGED <<tokens, base>> /\ rate' \in {rate, None}
  BY DEF FastTick
<1>2. probe' = Merged(fast.answer) /\ Merged(fast.answer).metrics # Mixed
  BY <1>1, MergedIsClean DEF FastTick, SamplerInv, Clean
<1>3. /\ fast'.at \in {"idle", "inspecting"}
      /\ fast' = [at |-> fast'.at, url |-> fast'.url, moved |-> fast'.moved, hint |-> fast'.hint,
                  answer |-> fast'.answer, listed |-> fast'.listed, gone |-> fast'.gone]
  BY DEF FastTick, Idle
<1>4. \/ UNCHANGED <<snap, poll, nextEvent>>
      \/ Publish(Merged(fast.answer))
  BY DEF FastTick
<1>5. NoMissedPublish' /\ RateIsReal'
      /\ poll' \in [Reader -> [event : Reader \cup {None}, newest : BOOLEAN]]
      /\ nextEvent' \in Reader \cup {None}
  <2>1. CASE UNCHANGED <<snap, poll, nextEvent>>
    BY <2>1 DEF SamplerInv, SamplerTyped, Clean, NoMissedPublish, RateIsReal
  <2>2. CASE Publish(Merged(fast.answer))
    BY <2>2, <1>2, PublishWakes DEF SamplerInv, RateIsReal, Mixed
  <2>. QED
    BY <1>4, <2>1, <2>2
<1>. QED
  BY <1>1, <1>2, <1>3, <1>5 DEF SamplerInv, SamplerTyped, EarlierIsHere, Clean

LEMMA InspectKeeps ==
  ASSUME SamplerInv, Inspected
  PROVE  SamplerInv'
<1>1. /\ fast.at = "inspecting" /\ fast'.at = "idle" /\ UNCHANGED <<tokens, base, rate, probe>>
      /\ fast' = [at |-> fast'.at, url |-> fast'.url, moved |-> fast'.moved, hint |-> fast'.hint,
                  answer |-> fast'.answer, listed |-> fast'.listed, gone |-> fast'.gone]
  BY DEF Inspected, Idle
<1>2. Publish(probe)
  BY DEF Inspected
<1>3. probe.metrics # Mixed
  BY <1>1 DEF SamplerInv, Clean
<1>4. NoMissedPublish' /\ RateIsReal'
      /\ poll' \in [Reader -> [event : Reader \cup {None}, newest : BOOLEAN]]
      /\ nextEvent' \in Reader \cup {None}
  BY <1>2, <1>3, PublishWakes DEF SamplerInv, RateIsReal, Mixed
<1>. QED
  BY <1>1, <1>3, <1>4 DEF SamplerInv, SamplerTyped, EarlierIsHere, Clean

LEMMA SlowKeeps ==
  ASSUME SamplerInv, SlowLoop
  PROVE  SamplerInv'
<1>1. UNCHANGED <<tokens, base, rate, probe, fast>>
  BY DEF SlowLoop, Inventory, SlowTick, FollowEndpoint
<1>2. UNCHANGED <<snap, poll, nextEvent>> \/ (probe # None /\ Publish(probe))
  BY DEF SlowLoop, Inventory, SlowTick
<1>3. NoMissedPublish' /\ RateIsReal'
      /\ poll' \in [Reader -> [event : Reader \cup {None}, newest : BOOLEAN]]
      /\ nextEvent' \in Reader \cup {None}
  <2>1. CASE UNCHANGED <<snap, poll, nextEvent>>
    BY <2>1 DEF SamplerInv, SamplerTyped, Clean, NoMissedPublish, RateIsReal
  <2>2. CASE probe # None /\ Publish(probe)
    BY <2>2, PublishWakes DEF SamplerInv, Clean, RateIsReal, Mixed
  <2>. QED
    BY <1>2, <2>1, <2>2
<1>. QED
  BY <1>1, <1>3 DEF SamplerInv, SamplerTyped, EarlierIsHere, Clean

\* A poll that waits shares the event of the next publish, or makes it.
LEMMA PollKeeps ==
  ASSUME SamplerInv, NEW r \in Reader, LongPoll(r)
  PROVE  SamplerInv'
<1>1. UNCHANGED <<tokens, base, rate, probe, fast, snap>>
  BY DEF LongPoll, Asks, WaitTimesOut
<1>2. poll' \in [Reader -> [event : Reader \cup {None}, newest : BOOLEAN]] /\ NoMissedPublish'
      /\ nextEvent' \in Reader \cup {None}
  <2>. USE SamplerAssumption DEF SamplerInv, SamplerTyped, NoMissedPublish
  <2>1. CASE poll[r].newest /\ poll[r].event = None /\ Wait(r)
    <3>1. \A s \in Reader : nextEvent = None => poll[s].event = None
      OBVIOUS
    <3>2. nextEvent' \in Reader /\ (nextEvent = None \/ nextEvent' = nextEvent)
      BY <2>1 DEF Wait
    <3>3. poll' = [poll EXCEPT ![r].event = nextEvent']
      BY <2>1 DEF Wait
    <3>. QED
      BY <2>1, <3>1, <3>2, <3>3
  <2>2. CASE Answered(r)
    BY <2>2 DEF Answered, NoPoll
  <2>. QED
    BY <2>1, <2>2 DEF LongPoll, Asks, WaitTimesOut
<1>. QED
  BY <1>1, <1>2 DEF SamplerInv, SamplerTyped, EarlierIsHere, Clean, RateIsReal
-----------------------------------------------------------------------------
THEOREM SamplerInvariant == Spec => []SamplerInv
<1>1. SamplerInv /\ [Next]_vars => SamplerInv'
  <2>1. CASE Next
    BY <2>1, ServerKeeps, BeginKeeps, AnswerKeeps, TickKeeps, InspectKeeps, SlowKeeps, PollKeeps
    DEF Next, FastLoop
  <2>2. CASE UNCHANGED vars
    BY <2>2 DEF vars, SamplerInv, SamplerTyped, EarlierIsHere, Clean, NoMissedPublish, RateIsReal
  <2>. QED
    BY <2>1, <2>2
<1>. QED
  BY <1>1, SamplerInit, PTL DEF Spec

\* GET /api/status: a long poll that waits holds the newest snapshot and is woken by the
\* very next publish, of either tick and at any point of the other's, so none sleeps out its
\* time-out beside a newer snapshot.
THEOREM NoPollSleepsThrough == Spec => []NoMissedPublish
BY SamplerInvariant, PTL DEF SamplerInv

\* The live rate of metadata.py: a rate in a published snapshot is taken between two scrapes
\* of one endpoint, whatever moved, restarted, was replaced or timed out between them.
THEOREM RatesAreReal == Spec => []RateIsReal
BY SamplerInvariant, PTL DEF SamplerInv, Clean
=============================================================================
