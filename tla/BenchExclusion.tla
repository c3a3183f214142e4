--------------------------- MODULE BenchExclusion ---------------------------
(***************************************************************************)
(* One GPU, one measurement: the bench lease between the two processes     *)
(* that measure it.  The controller's bench runs (createRun, execute and   *)
(* stopTimers in streams/engine.ts, the lease calls in streams/probes.ts)  *)
(* take a lease from the serve-engine over HTTP; the serve-engine's bench  *)
(* jobs and the lease itself are module Jobs.                              *)
(*                                                                         *)
(* The network delays and reorders requests: each one waits in `net` until *)
(* the serve-engine handles it.  The controller gives up on a request      *)
(* after 3 s, but the request may still be handled later.  Time passes in  *)
(* steps of the 30 s after which a run renews its lease.                   *)
(***************************************************************************)
EXTENDS Jobs

CONSTANTS
  Url,      \* the endpoints a bench may measure
  Requests  \* the ones the runs are asked for: some of [Run -> Url]

\* The run's id is the lease id.
Run == LeaseId

ASSUME RequestsAssumption == Requests \subseteq [LeaseId -> Url]

VARIABLES
  base,     \* base[r]: the base_url run r is asked to measure
  run,      \* run[r]: where createRun, then execute, stands
  holds,    \* holds[r]: run.lease
  answer,   \* answer[r]: the response to createRun's acquireBenchLease
  renewing, \* renewing[r]: run.leaseTimer is set
  net,      \* requests under way to the serve-engine
  age,      \* periods since the serve-engine last granted the lease it holds
  unheard   \* history: a request was lost, or not answered within 3 s

runVars == <<run, holds, answer, renewing, net, age, unheard>>
stepVars == <<vars, runVars>>   \* base[r] is the request's and never changes
exVars == <<base, stepVars>>

\* LEASE_TTL_S, in periods of LEASE_RENEW_MS
Ttl == 3

Request == [type : {"acquire", "renew", "release"}, run : Run]
Req(t, r) == [type |-> t, run |-> r]

ExInit == /\ Init
          /\ base \in Requests
          /\ run = [r \in Run |-> "idle"]
          /\ holds = [r \in Run |-> FALSE]
          /\ answer = [r \in Run |-> "none"]
          /\ renewing = [r \in Run |-> FALSE]
          /\ net = {}
          /\ age = 0
          /\ unheard = FALSE

Measuring == {r \in Run : run[r] = "measuring"}

\* activeFor(base_url)
Active(r) == \E s \in Measuring \ {r} : base[s] = base[r]

Enter(r, s) == run' = [run EXCEPT ![r] = s]
\* The response was looked at.
Spend(r) == answer' = [answer EXCEPT ![r] = "none"]
-----------------------------------------------------------------------------
(* The controller                                                          *)

\* The second conflict() of createRun passed: ask for the lease.
AskLease(r) ==
  /\ run[r] = "idle" /\ ~Active(r)
  /\ Enter(r, "acquiring")
  /\ net' = net \cup {Req("acquire", r)}
  /\ UNCHANGED <<vars, holds, answer, renewing, age, unheard>>

LeaseGranted(r) ==
  /\ run[r] = "acquiring" /\ answer[r] = "ok"
  /\ Enter(r, "probing")
  /\ Spend(r)
  /\ holds' = [holds EXCEPT ![r] = TRUE]
  /\ UNCHANGED <<vars, renewing, net, age, unheard>>

\* 409: createRun throws bench_busy.
BenchBusy(r) ==
  /\ run[r] = "acquiring" /\ answer[r] = "busy"
  /\ Enter(r, "ended")
  /\ Spend(r)
  /\ UNCHANGED <<vars, holds, renewing, net, age, unheard>>

\* No answer in time, or no serve-engine: "run without it".
LeaseUnknown(r) ==
  /\ run[r] = "acquiring"
  /\ Enter(r, "probing")
  /\ Spend(r)
  /\ net' \in {net, net \ {Req("acquire", r)}}
  /\ unheard' = TRUE
  /\ UNCHANGED <<vars, holds, renewing, age>>

\* After readServeStatus another run may have started on the endpoint.
Conflict(r) ==
  /\ run[r] = "probing" /\ Active(r)
  /\ Enter(r, "ended")
  /\ net' = IF holds[r] THEN net \cup {Req("release", r)} ELSE net
  /\ UNCHANGED <<vars, holds, answer, renewing, age, unheard>>

StartMeasuring(r) ==
  /\ run[r] = "probing" /\ ~Active(r)
  /\ Enter(r, "measuring")
  /\ renewing' = [renewing EXCEPT ![r] = holds[r]]
  /\ UNCHANGED <<vars, holds, answer, net, age, unheard>>

\* What finish and fail do of stopTimers: fire and forget the release.
EndMeasuring(r) ==
  /\ run[r] = "measuring"
  /\ Enter(r, "ended")
  /\ holds' = [holds EXCEPT ![r] = FALSE]
  /\ net' = IF holds[r] THEN net \cup {Req("release", r)} ELSE net
  /\ UNCHANGED <<vars, answer, age, unheard>>

\* Mistake: the interval goes on.
StopKeepsTimer(r) == EndMeasuring(r) /\ UNCHANGED renewing

StopMeasuring(r) == EndMeasuring(r) /\ renewing' = [renewing EXCEPT ![r] = FALSE]
-----------------------------------------------------------------------------
(* The serve-engine's side of the requests                                 *)

\* POST /bench/lease
HandleAcquire(m) ==
  /\ up /\ m \in net /\ m.type \in {"acquire", "renew"}
  /\ net' = net \ {m}
  /\ answer' = [answer EXCEPT ![m.run] =
       IF m.type = "renew" \/ run[m.run] # "acquiring" THEN @
       ELSE IF LeaseRefused(m.run) THEN "busy" ELSE "ok"]
  /\ \/ AcquireLease(m.run)
     \/ LeaseRefused(m.run) /\ UNCHANGED vars
  /\ age' = IF LeaseRefused(m.run) THEN age ELSE 0
  /\ UNCHANGED <<run, holds, renewing, unheard>>

\* DELETE /bench/lease/{id}
HandleRelease(m) ==
  /\ up /\ m \in net /\ m.type = "release"
  /\ net' = net \ {m}
  /\ \/ ReleaseLease(m.run)
     \/ ~LeaseIs(m.run) /\ UNCHANGED vars
  /\ UNCHANGED <<run, holds, answer, renewing, age, unheard>>

\* A request that met no serve-engine, or that the network lost.
LoseRequest(m) ==
  /\ m \in net /\ m.type # "acquire"
  /\ net' = net \ {m}
  /\ unheard' = TRUE
  /\ UNCHANGED <<vars, run, holds, answer, renewing, age>>

-----------------------------------------------------------------------------
(* Time                                                                    *)

\* A period passes.  Each interval that is set sends its renewal, and does not look at
\* the answer.  The calls of createRun are over in 6 s, so that none spans a period; a
\* request that is still under way was not answered within 3 s.
Tick ==
  /\ \A r \in Run : run[r] \notin {"acquiring", "probing"}
  /\ net' = net \cup {Req("renew", r) : r \in {s \in Run : renewing[s]}}
  /\ age' = IF LeaseHeld /\ age < Ttl THEN age + 1 ELSE age
  /\ unheard' = (unheard \/ net # {})
  /\ UNCHANGED <<vars, run, holds, answer, renewing>>

\* _active_lease: no grant for as long as the lease lasts.
Expire(r) ==
  /\ ExpireLease(r)
  /\ age = Ttl
  /\ UNCHANGED runVars

JobStep ==
  /\ \/ \E j \in Job : StartJob(j) \/ Runner(j) \/ Timer(j) \/ RequestCancel(j)
     \/ \E c \in Class : Pick(c)
     \/ Crash
     \/ Startup
  /\ UNCHANGED runVars

Controller(r) == \/ AskLease(r) \/ LeaseGranted(r) \/ BenchBusy(r)
                 \/ LeaseUnknown(r) \/ Conflict(r) \/ StartMeasuring(r)
                 \/ StopMeasuring(r)

Handle(m) == HandleAcquire(m) \/ HandleRelease(m)

ExNext == /\ \/ JobStep
             \/ \E r \in Run : Controller(r) \/ Expire(r)
             \/ Tick
             \/ \E m \in net : Handle(m) \/ LoseRequest(m)
          /\ UNCHANGED base

ExSpec == ExInit /\ [][ExNext]_exVars

\* Time passes, and a lease that lasted too long is not active.  Requests may stay under
\* way for ever.
ExFairness == WF_stepVars(Tick) /\ \A r \in Run : WF_stepVars(Expire(r))
-----------------------------------------------------------------------------
\* A lease is not held for good: once every run has ended, bench jobs get through in
\* the end and for ever, although the release is lost, and a late acquire or renewal
\* takes the lease again after the release or after it expired.
LeaseIsFreed ==
  (\A r \in Run : run[r] = "ended") ~> []~LeaseHeld
=============================================================================
