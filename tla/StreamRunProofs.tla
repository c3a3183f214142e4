--------------------------- MODULE StreamRunProofs ---------------------------
(***************************************************************************)
(* What StreamRun guarantees for any number of runs and endpoints, any     *)
(* plan of levels and waves, and any number of runs kept.                  *)
(*                                                                         *)
(* No request outlives its run and a finished run has no strand left over: *)
(* only the wave under way has open strands, and behind the loops' position *)
(* every strand has ended, unless the run was aborted (RunOk); finish()    *)
(* cancels what an abort has left waiting.                                 *)
(*                                                                         *)
(* What a run holds (its endpoint, its lease, its timer): to that every    *)
(* step of the code does one of a few things (StepShape): it goes on       *)
(* (GoesOn), ends the run (Ends), refuses the call (Refuse), creates the   *)
(* run where no other is active (Create), or is a viewer's or a timer's.   *)
(***************************************************************************)
EXTENDS StreamRun, TLAPS

States == {"waiting"} \cup Open \cup Ended

\* The types the theorem needs.
StrandTyped ==
  /\ phase \in [Run -> Phase] /\ mode \in [Run -> Mode]
  /\ status \in [Run -> {"none", "running", "done", "cancelled", "error"}]
  /\ aborted \in [Run -> BOOLEAN] /\ cancelled \in [Run -> BOOLEAN]
  /\ strand \in [Run -> [Strand -> States]]
  /\ level \in [Run -> Nat] /\ wave \in [Run -> Nat]

Closed(r) == \A s \in Strand : strand[r][s] \notin Open
Untouched(r) == \A s \in Strand : strand[r][s] = "waiting"
AllEnded(r, S) == \A s \in Strand : s \in S => strand[r][s] \in Ended

\* What the loops have behind them: the earlier levels, the earlier waves of this one.
Levels(r) == UNION {LevelOf(l) : l \in {l \in DOMAIN Plan : l < level[r]}}
Waves(r) == UNION {WaveOf(level[r], w) : w \in {w \in DOMAIN Plan[level[r]] : w < wave[r]}}

Placed(r) == level[r] \in DOMAIN Plan /\ wave[r] \in DOMAIN Plan[level[r]]

RunOk(r) ==
  /\ Placed(r)
  /\ phase[r] \in {"idle", "refused"} \cup Creating => status[r] = "none"
  /\ phase[r] \in Executing => status[r] = "running"
  /\ phase[r] \in {"idle"} \cup Creating \cup {"warmup"} => Untouched(r) /\ level[r] = 1 /\ wave[r] = 1
  /\ phase[r] # "wave" => Closed(r)
  /\ phase[r] \in {"warmup", "begin", "end", "reading", "importing"} => IsBench(r)
  /\ phase[r] = "begin" => AllEnded(r, Levels(r) \cup Waves(r))
  /\ phase[r] = "wave" /\ IsBench(r) =>
       \A s \in Strand \ WaveOf(level[r], wave[r]) :
         /\ strand[r][s] \notin Open
         /\ s \in Levels(r) \cup Waves(r) => strand[r][s] \in Ended
  /\ phase[r] = "end" => aborted[r] \/ AllEnded(r, Levels(r) \cup LevelOf(level[r]))
  /\ phase[r] = "reading" => cancelled[r] \/ AllEnded(r, Strand)
  /\ phase[r] = "importing" => AllEnded(r, Strand)
  /\ status[r] \in {"done", "cancelled"} => AllEnded(r, Strand)

StrandInv == StrandTyped /\ \A r \in Run : RunOk(r)
-----------------------------------------------------------------------------
LEMMA PlanFacts ==
  /\ Len(Plan) \in Nat \ {0} /\ DOMAIN Plan = 1..Len(Plan)
  /\ \A l \in DOMAIN Plan :
       /\ Len(Plan[l]) \in Nat \ {0} /\ DOMAIN Plan[l] = 1..Len(Plan[l])
       /\ \A w \in DOMAIN Plan[l] : Plan[l][w] \subseteq Strand
BY StreamRunAssumption

\* What a step of another run does to this one.
Same(q) ==
  /\ phase'[q] = phase[q] /\ status'[q] = status[q] /\ aborted'[q] = aborted[q]
  /\ cancelled'[q] = cancelled[q] /\ strand'[q] = strand[q]
  /\ level'[q] = level[q] /\ wave'[q] = wave[q] /\ mode'[q] = mode[q]

LEMMA SameIsOk ==
  ASSUME NEW q \in Run, RunOk(q), Same(q)
  PROVE  RunOk(q)'
<1>1. Levels(q)' = Levels(q) /\ Waves(q)' = Waves(q)
  BY DEF Same, Levels, Waves
<1>2. \A S : AllEnded(q, S)' <=> AllEnded(q, S)
  BY DEF Same, AllEnded
<1>. QED
  BY <1>1, <1>2 DEF Same, RunOk, Placed, Closed, Untouched, IsBench

Keeps(r) == StrandTyped' /\ RunOk(r)' /\ \A q \in Run \ {r} : Same(q)

LEMMA FinishKeeps ==
  ASSUME StrandTyped, NEW r \in Run, Placed(r), NEW ok, NEW st \in [Strand -> States],
         \A s \in Strand : st[s] \notin Open,
         aborted[r] \/ \A s \in Strand : st[s] \in Ended,
         status[r] = "running", Finish(r, ok, st)
  PROVE  Keeps(r)
<1>. USE DEF StrandTyped, Phase, Creating, Executing, Goto, askVars, loopVars, watchVars
<1>0. UNCHANGED <<mode, level, wave>>
  BY DEF Finish, Fail, Conclude
<1>1. CASE IsBench(r) /\ ~aborted[r] /\ ~ok /\ Fail(r, st)
  <2>1. StrandTyped' /\ \A q \in Run \ {r} : Same(q)
    BY <1>1 DEF Fail, Same
  <2>2. RunOk(r)'
    BY <1>0, <1>1 DEF Fail, RunOk, Placed, Closed
  <2>. QED
    BY <2>1, <2>2 DEF Keeps
<1>2. CASE /\ IsBench(r) /\ (aborted[r] \/ ok)
           /\ Goto(r, "reading")
           /\ cancelled' = [cancelled EXCEPT ![r] = aborted[r]]
           /\ strand' = [strand EXCEPT ![r] = st]
           /\ UNCHANGED <<askVars, status, aborted, lease, loopVars, order, watchVars>>
  <2>1. StrandTyped' /\ \A q \in Run \ {r} : Same(q)
    BY <1>2 DEF Same
  <2>2. RunOk(r)'
    BY <1>0, <1>2 DEF RunOk, Placed, Closed, AllEnded, IsBench
  <2>. QED
    BY <2>1, <2>2 DEF Keeps
<1>3. CASE /\ ~IsBench(r)
           /\ cancelled' = [cancelled EXCEPT ![r] = aborted[r]]
           /\ strand' = [strand EXCEPT ![r] = IF aborted[r] THEN CancelWaiting(st) ELSE st]
           /\ Conclude(r, IF aborted[r] THEN "cancelled" ELSE "done")
  <2>. DEFINE end == IF aborted[r] THEN CancelWaiting(st) ELSE st
  <2>1. end \in [Strand -> States] /\ \A s \in Strand : end[s] \in Ended
    <3>1. CASE aborted[r]
      BY <3>1 DEF CancelWaiting, States, Ended, Open
    <3>2. CASE ~aborted[r]
      BY <3>2
    <3>. QED
      BY <3>1, <3>2
  <2>2. strand' = [strand EXCEPT ![r] = end]
    BY <1>3
  <2>. HIDE DEF end
  <2>3. StrandTyped' /\ \A q \in Run \ {r} : Same(q)
    BY <1>3, <2>1, <2>2 DEF Same, Conclude
  <2>4. RunOk(r)'
    BY <1>0, <1>3, <2>1, <2>2 DEF RunOk, Placed, Closed, AllEnded, Conclude, Open, Ended
  <2>. QED
    BY <2>3, <2>4 DEF Keeps
<1>. QED
  BY <1>1, <1>2, <1>3 DEF Finish

\* Behind the last level there is nothing left.
LEMMA AdvanceKeeps ==
  ASSUME StrandTyped, NEW r \in Run, Placed(r), IsBench(r), NEW ok, NEW st \in [Strand -> States],
         \A s \in Strand : st[s] \notin Open,
         \A s \in Strand : s \in Levels(r) \cup LevelOf(level[r]) => st[s] \in Ended,
         status[r] = "running", Advance(r, ok, st)
  PROVE  Keeps(r)
<1>. USE PlanFacts DEF Placed
<1>1. CASE level[r] < Len(Plan)
  <2>. USE DEF StrandTyped, Phase, Creating, Executing, Goto, askVars, loopVars, watchVars
  <2>1. /\ Goto(r, "begin")
        /\ level' = [level EXCEPT ![r] = @ + 1] /\ wave' = [wave EXCEPT ![r] = 1]
        /\ strand' = [strand EXCEPT ![r] = st]
        /\ UNCHANGED <<mode, status, aborted, cancelled>>
    BY <1>1 DEF Advance
  <2>2. StrandTyped' /\ \A q \in Run \ {r} : Same(q)
    BY <2>1 DEF Same
  <2>3. Placed(r)' /\ wave'[r] = 1
    <3>1. level'[r] = level[r] + 1 /\ wave'[r] = 1
      BY <2>1
    <3>2. level[r] + 1 \in DOMAIN Plan
      BY <1>1
    <3>. QED
      BY <3>1, <3>2
  <2>4. \A s : s \in Levels(r)' => s \in Levels(r) \cup LevelOf(level[r])
    <3>. SUFFICES ASSUME NEW l \in DOMAIN Plan, l < level'[r]
                  PROVE  l < level[r] \/ l = level[r]
      BY DEF Levels
    <3>. QED
      BY <2>1
  <2>5. Waves(r)' = {}
    <3>1. \A w \in DOMAIN Plan[level'[r]] : ~(w < wave'[r])
      BY <2>3
    <3>. QED
      BY <3>1 DEF Waves
  <2>6. AllEnded(r, Levels(r) \cup Waves(r))'
    BY <2>1, <2>4, <2>5 DEF AllEnded
  <2>7. RunOk(r)'
    BY <2>1, <2>3, <2>6 DEF RunOk, Closed, IsBench
  <2>. QED
    BY <2>2, <2>7 DEF Keeps
<1>2. CASE ~(level[r] < Len(Plan))
  <2>1. \A s \in Strand : s \in Levels(r) \cup LevelOf(level[r])
    <3>. SUFFICES ASSUME NEW s \in Strand PROVE s \in Levels(r) \cup LevelOf(level[r])
      OBVIOUS
    <3>1. PICK l \in DOMAIN Plan : \E w \in DOMAIN Plan[l] : s \in Plan[l][w]
      BY StreamRunAssumption
    <3>2. s \in LevelOf(l)
      BY <3>1 DEF LevelOf
    <3>3. l < level[r] \/ l = level[r]
      BY <1>2
    <3>. QED
      BY <3>2, <3>3 DEF Levels
  <2>. QED
    BY <1>2, <2>1, FinishKeeps DEF Advance
<1>. QED
  BY <1>1, <1>2
-----------------------------------------------------------------------------
\* A step that moves to p and keeps all the strands.
Moves(r, p) ==
  /\ phase' = [phase EXCEPT ![r] = p]
  /\ UNCHANGED <<mode, status, aborted, cancelled, strand, level, wave>>

LEMMA MovesKeeps ==
  ASSUME StrandTyped, NEW r \in Run, RunOk(r), NEW p \in Phase \ {"wave"}, Moves(r, p),
         \/ phase[r] \in {"idle"} \cup Creating /\ p \in {"refused"} \cup Creating
         \/ phase[r] = "warmup" /\ p = "begin"
  PROVE  Keeps(r)
<1>. USE PlanFacts DEF StrandTyped, Moves
<1>1. StrandTyped' /\ \A q \in Run \ {r} : Same(q)
  BY DEF Same
<1>2. phase'[r] = p /\ Untouched(r) /\ level[r] = 1 /\ wave[r] = 1 /\ Placed(r)
  BY DEF RunOk
<1>3. Placed(r)' /\ Untouched(r)' /\ Closed(r)'
  BY <1>2 DEF Placed, Untouched, Closed, Open
<1>4. (Levels(r) \cup Waves(r))' = {}
  <2>1. \A l \in DOMAIN Plan : ~(l < level'[r])
    BY <1>2
  <2>2. \A w \in DOMAIN Plan[level'[r]] : ~(w < wave'[r])
    <3>1. level'[r] \in DOMAIN Plan /\ wave'[r] = 1
      BY <1>2, <1>3 DEF Placed
    <3>. QED
      BY <3>1
  <2>. QED
    BY <2>1, <2>2 DEF Levels, Waves
<1>5. AllEnded(r, Levels(r) \cup Waves(r))'
  BY <1>4 DEF AllEnded
<1>6. RunOk(r)'
  BY <1>2, <1>3, <1>5 DEF RunOk, IsBench, Phase, Creating, Executing
<1>. QED
  BY <1>1, <1>6 DEF Keeps

\* An execution starts with all strands waiting.
LEMMA CreateKeeps ==
  ASSUME StrandTyped, NEW r \in Run, RunOk(r), phase[r] \in Creating, Create(r)
  PROVE  Keeps(r)
<1>. USE DEF StrandTyped, Phase, Creating, Executing, Goto, askVars, loopVars
<1>1. PICK now \in SUBSET Strand :
        (IsBench(r) <=> now = {}) /\ strand' = [strand EXCEPT ![r] = Started(r, now)]
  BY DEF Create
<1>2. Started(r, now) \in [Strand -> States]
  BY DEF Started, States, Open, Ended
<1>3. StrandTyped' /\ \A q \in Run \ {r} : Same(q)
  BY <1>1, <1>2 DEF Create, Same
<1>4. Untouched(r) /\ level[r] = 1 /\ wave[r] = 1 /\ Placed(r)
  BY DEF RunOk
<1>5. IsBench(r) => Started(r, now) = strand[r]
  BY <1>1 DEF Started
<1>6. RunOk(r)'
  BY <1>1, <1>2, <1>4, <1>5 DEF RunOk, Create, IsBench, Placed, Untouched, Closed, Open
<1>. QED
  BY <1>3, <1>6 DEF Keeps

LEMMA CreateRunKeeps ==
  ASSUME StrandTyped, NEW r \in Run, RunOk(r), CreateRun(r)
  PROVE  Keeps(r)
<1>1. ASSUME Refuse(r), phase[r] \in {"idle"} \cup Creating PROVE Keeps(r)
  BY <1>1, MovesKeeps DEF Refuse, Moves, Goto, askVars, loopVars, Phase
<1>2. ASSUME NEW p \in Creating, Continue(r, p), phase[r] \in {"idle"} \cup Creating PROVE Keeps(r)
  BY <1>2, MovesKeeps DEF Continue, Moves, Goto, askVars, loopVars, Phase, Creating
<1>3. ASSUME NEW got \in BOOLEAN, LeaseAnswered(r, got) PROVE Keeps(r)
  BY <1>3, MovesKeeps DEF LeaseAnswered, Moves, Goto, askVars, loopVars, Phase, Creating
<1>. QED
  BY <1>1, <1>2, <1>3, CreateKeeps DEF CreateRun, Call, Resolve, CreateFails, Probe, Creating

LEMMA WarmupKeeps ==
  ASSUME StrandTyped, NEW r \in Run, RunOk(r), Warmup(r)
  PROVE  Keeps(r)
<1>. USE DEF StrandTyped, Phase, Creating, Executing, Goto, askVars, loopVars
<1>0. phase[r] = "warmup" /\ Placed(r) /\ IsBench(r) /\ Closed(r) /\ status[r] = "running"
  BY DEF Warmup, RunOk
<1>1. CASE Continue(r, "begin")
  BY <1>0, <1>1, MovesKeeps DEF Continue, Moves
<1>2. CASE Fail(r, strand[r])
  <2>1. StrandTyped' /\ \A q \in Run \ {r} : Same(q)
    BY <1>2 DEF Fail, Same
  <2>2. RunOk(r)'
    BY <1>0, <1>2 DEF Fail, RunOk, Placed, Closed
  <2>. QED
    BY <2>1, <2>2 DEF Keeps
<1>3. CASE aborted[r] /\ Finish(r, okArm[r], strand[r])
  BY <1>0, <1>3, FinishKeeps DEF Closed
<1>. QED
  BY <1>1, <1>2, <1>3 DEF Warmup

\* A wave opens its own strands only.
LEMMA BeginWaveKeeps ==
  ASSUME StrandTyped, NEW r \in Run, RunOk(r), BeginWave(r)
  PROVE  Keeps(r)
<1>. USE DEF StrandTyped, Phase, Creating, Executing, Goto, askVars, loopVars
<1>1. /\ IsBench(r) /\ Placed(r) /\ Closed(r) /\ status[r] = "running"
      /\ AllEnded(r, Levels(r) \cup Waves(r))
  BY DEF BeginWave, RunOk
<1>2. Started(r, Wave(r)) \in [Strand -> States]
  BY DEF Started, States, Open, Ended
<1>3. StrandTyped' /\ \A q \in Run \ {r} : Same(q)
  BY <1>2 DEF BeginWave, Same
<1>4. (Levels(r) \cup Waves(r))' = Levels(r) \cup Waves(r)
  BY DEF BeginWave, Levels, Waves
<1>5. \A s \in Strand \ WaveOf(level[r], wave[r]) : strand'[r][s] = strand[r][s]
  BY <1>1 DEF BeginWave, Started, Wave
<1>6. RunOk(r)'
  BY <1>1, <1>4, <1>5 DEF BeginWave, RunOk, IsBench, Placed, Closed, AllEnded
<1>. QED
  BY <1>3, <1>6 DEF Keeps

LEMMA WaveIsOver ==
  ASSUME StrandTyped, NEW r \in Run, RunOk(r), IsBench(r), phase[r] = "wave",
         \A s \in Wave(r) : strand[r][s] \in Ended
  PROVE  Closed(r) /\ AllEnded(r, Levels(r) \cup Waves(r) \cup WaveOf(level[r], wave[r]))
BY DEF RunOk, Wave, Closed, AllEnded, Open, Ended

LEMMA WaveEndsKeeps ==
  ASSUME StrandTyped, NEW r \in Run, RunOk(r), WaveEnds(r)
  PROVE  Keeps(r)
<1>. DEFINE more == wave[r] < Len(Plan[level[r]]) /\ ~aborted[r]
            burst == more /\ mode[r] = "bench-decode"
            st == IF burst THEN Started(r, WaveOf(level[r], wave[r] + 1)) ELSE strand[r]
<1>0. phase[r] = "wave" /\ Placed(r) /\ status[r] = "running" /\ \A s \in Wave(r) : strand[r][s] \in Ended
  BY DEF WaveEnds, RunOk, Executing
<1>1. CASE ~IsBench(r)
  <2>1. \A s \in Strand : strand[r][s] \in Ended /\ strand[r][s] \notin Open
    BY <1>0, <1>1 DEF Wave, Open, Ended
  <2>. QED
    BY <1>0, <1>1, <2>1, FinishKeeps DEF WaveEnds, StrandTyped
<1>2. CASE IsBench(r)
  <2>1. Closed(r) /\ AllEnded(r, Levels(r) \cup Waves(r) \cup WaveOf(level[r], wave[r]))
    BY <1>0, <1>2, WaveIsOver
  <2>2. /\ phase' = [phase EXCEPT ![r] = IF burst THEN "wave" ELSE IF more THEN "begin" ELSE "end"]
        /\ wave' = [wave EXCEPT ![r] = IF more THEN @ + 1 ELSE @]
        /\ strand' = [strand EXCEPT ![r] = st]
        /\ UNCHANGED <<mode, status, aborted, cancelled, level>>
    BY <1>2 DEF WaveEnds, Goto, askVars
  <2>3. st \in [Strand -> States]
    BY DEF Started, States, Open, Ended, StrandTyped
  <2>4. StrandTyped' /\ \A q \in Run \ {r} : Same(q)
    BY <2>2, <2>3 DEF StrandTyped, Same, Phase, Creating, Executing
  <2>5. Levels(r)' = Levels(r)
    BY <2>2 DEF Levels
  <2>6. CASE more
    <3>1. wave'[r] = wave[r] + 1 /\ level'[r] = level[r] /\ Placed(r)'
      BY <1>0, <2>2, <2>6, PlanFacts DEF Placed, StrandTyped
    <3>2. \A s : s \in Waves(r)' => s \in Waves(r) \cup WaveOf(level[r], wave[r])
      <4>. SUFFICES ASSUME NEW w \in DOMAIN Plan[level[r]], w < wave[r] + 1
                    PROVE  w < wave[r] \/ w = wave[r]
        BY <3>1 DEF Waves
      <4>. QED
        BY <1>0, PlanFacts DEF Placed
    <3>3. CASE burst
      <4>1. phase'[r] = "wave" /\ strand'[r] = Started(r, WaveOf(level[r], wave[r] + 1))
        BY <2>2, <2>6, <3>3 DEF StrandTyped
      <4>2. \A s \in Strand \ WaveOf(level'[r], wave'[r]) : strand'[r][s] = strand[r][s]
        BY <3>1, <4>1 DEF Started
      <4>3. \A s \in Strand \ WaveOf(level'[r], wave'[r]) :
              strand'[r][s] \notin Open /\ (s \in (Levels(r) \cup Waves(r))' => strand'[r][s] \in Ended)
        BY <2>1, <2>5, <3>2, <4>2 DEF Closed, AllEnded
      <4>4. RunOk(r)'
        BY <1>0, <2>2, <3>1, <4>1, <4>3 DEF RunOk, Creating, Executing
      <4>. QED
        BY <2>4, <4>4 DEF Keeps
    <3>4. CASE ~burst
      <4>1. phase'[r] = "begin" /\ strand'[r] = strand[r]
        BY <2>2, <2>6, <3>4 DEF StrandTyped
      <4>2. Closed(r)' /\ AllEnded(r, Levels(r) \cup Waves(r))'
        BY <2>1, <2>5, <3>2, <4>1 DEF Closed, AllEnded
      <4>3. RunOk(r)'
        BY <1>0, <1>2, <2>2, <3>1, <4>1, <4>2 DEF RunOk, Creating, Executing, IsBench
      <4>. QED
        BY <2>4, <4>3 DEF Keeps
    <3>. QED
      BY <3>3, <3>4
  <2>7. CASE ~more
    <3>1. phase'[r] = "end" /\ strand'[r] = strand[r] /\ wave'[r] = wave[r] /\ level'[r] = level[r]
      BY <2>2, <2>7 DEF StrandTyped
    <3>2. ~aborted[r] => \A s : s \in LevelOf(level[r]) => s \in Waves(r) \cup WaveOf(level[r], wave[r])
      <4>. SUFFICES ASSUME ~aborted[r], NEW w \in DOMAIN Plan[level[r]]
                    PROVE  w < wave[r] \/ w = wave[r]
        BY DEF LevelOf, Waves, WaveOf
      <4>. QED
        BY <1>0, <2>7, PlanFacts DEF Placed
    <3>3. aborted'[r] \/ AllEnded(r, Levels(r) \cup LevelOf(level[r]))'
      BY <2>1, <2>2, <2>5, <3>1, <3>2 DEF AllEnded
    <3>4. RunOk(r)'
      BY <1>0, <1>2, <2>1, <2>2, <3>1, <3>3 DEF RunOk, Placed, Closed, Creating, Executing, IsBench
    <3>. QED
      BY <2>4, <3>4 DEF Keeps
  <2>. QED
    BY <2>6, <2>7
<1>. QED
  BY <1>1, <1>2

LEMMA LevelEndsKeeps ==
  ASSUME StrandTyped, NEW r \in Run, RunOk(r), LevelEnds(r)
  PROVE  Keeps(r)
<1>1. /\ phase[r] = "end" /\ Placed(r) /\ IsBench(r) /\ Closed(r) /\ status[r] = "running"
      /\ aborted[r] \/ AllEnded(r, Levels(r) \cup LevelOf(level[r]))
      /\ strand[r] \in [Strand -> States]
  BY DEF LevelEnds, RunOk, Executing, StrandTyped
<1>2. CASE aborted[r]
  BY <1>1, <1>2, FinishKeeps DEF LevelEnds, Closed
<1>3. CASE ~aborted[r]
  <2>1. PICK ok : Advance(r, ok, strand[r])
    BY <1>3 DEF LevelEnds
  <2>. QED
    BY <1>1, <1>3, <2>1, AdvanceKeeps DEF Closed, AllEnded
<1>. QED
  BY <1>2, <1>3

LEMMA BreakKeeps ==
  ASSUME StrandTyped, NEW r \in Run, RunOk(r), Break(r)
  PROVE  Keeps(r)
<1>1. Placed(r) /\ Closed(r) /\ status[r] = "running" /\ strand[r] \in [Strand -> States]
  BY DEF Break, RunOk, Executing, StrandTyped
<1>. QED
  BY <1>1, FinishKeeps DEF Break, Closed

LEMMA SkipLevelKeeps ==
  ASSUME StrandTyped, NEW r \in Run, RunOk(r), SkipLevel(r)
  PROVE  Keeps(r)
<1>. DEFINE st == [s \in Strand |-> IF s \in LevelOf(level[r]) THEN "cancelled" ELSE strand[r][s]]
<1>1. /\ Placed(r) /\ IsBench(r) /\ Closed(r) /\ status[r] = "running"
      /\ AllEnded(r, Levels(r) \cup Waves(r))
  BY DEF SkipLevel, RunOk, Executing
<1>2. st \in [Strand -> States]
  BY DEF States, Ended, StrandTyped
<1>3. \A s \in Strand : st[s] \notin Open /\ (s \in Levels(r) \cup LevelOf(level[r]) => st[s] \in Ended)
  BY <1>1 DEF Closed, AllEnded, Open, Ended
<1>4. Advance(r, okArm[r], st)
  BY DEF SkipLevel
<1>. HIDE DEF st
<1>. QED
  BY <1>1, <1>2, <1>3, <1>4, AdvanceKeeps

\* The two awaits of finish(): a cancelled run ends at the first one.
LEMMA FinishEndsKeeps ==
  ASSUME StrandTyped, NEW r \in Run, RunOk(r), ReadDone(r) \/ ImportDone(r)
  PROVE  Keeps(r)
<1>. USE DEF StrandTyped, Phase, Creating, Executing, Goto, askVars, loopVars, watchVars
<1>1. /\ Placed(r) /\ Closed(r) /\ status[r] = "running" /\ UNCHANGED <<mode, aborted, cancelled, level, wave>>
      /\ phase[r] \in {"reading", "importing"}
      /\ IsBench(r) /\ (AllEnded(r, Strand) \/ (phase[r] = "reading" /\ cancelled[r]))
  BY DEF ReadDone, ImportDone, Conclude, RunOk
<1>2. CASE ReadDone(r) /\ cancelled[r]
  <2>. DEFINE st == CancelWaiting(strand[r])
  <2>1. st \in [Strand -> States] /\ \A s \in Strand : st[s] \in Ended
    BY <1>1 DEF CancelWaiting, States, Closed, Open, Ended
  <2>2. strand' = [strand EXCEPT ![r] = st] /\ Conclude(r, "cancelled")
    BY <1>2 DEF ReadDone
  <2>. HIDE DEF st
  <2>3. StrandTyped' /\ \A q \in Run \ {r} : Same(q)
    BY <1>1, <2>1, <2>2 DEF Conclude, Same
  <2>4. RunOk(r)'
    BY <1>1, <2>1, <2>2 DEF Conclude, RunOk, Placed, Closed, AllEnded, Open, Ended
  <2>. QED
    BY <2>3, <2>4 DEF Keeps
<1>3. CASE (ReadDone(r) /\ ~cancelled[r]) \/ ImportDone(r)
  <2>1. StrandTyped' /\ \A q \in Run \ {r} : Same(q)
    BY <1>1, <1>3 DEF ReadDone, ImportDone, Conclude, Same
  <2>2. AllEnded(r, Strand) /\ UNCHANGED strand
    BY <1>1, <1>3 DEF ReadDone, ImportDone
  <2>3. RunOk(r)'
    BY <1>1, <1>3, <2>2 DEF ReadDone, ImportDone, Conclude, RunOk, Placed, Closed, AllEnded, IsBench
  <2>. QED
    BY <2>1, <2>3 DEF Keeps
<1>. QED
  BY <1>2, <1>3
-----------------------------------------------------------------------------
\* A strand that is open, or waits for its arrival, belongs to the wave under way.
LEMMA StrandStepKeeps ==
  ASSUME StrandTyped, NEW r \in Run, RunOk(r), NEW s \in Strand, StrandStep(r, s)
  PROVE  Keeps(r)
<1>. USE DEF StrandTyped, askVars, loopVars, watchVars
<1>1. PICK st \in States \ {"waiting"} :
        /\ strand' = [strand EXCEPT ![r][s] = st]
        /\ UNCHANGED <<phase, mode, status, aborted, cancelled, level, wave>>
  BY DEF StrandStep, Arrive, FirstToken, StrandEnds, States, Open, Ended
<1>2. phase[r] = "wave" /\ (IsBench(r) => s \in WaveOf(level[r], wave[r]))
  BY DEF StrandStep, Arrive, FirstToken, StrandEnds, RunOk, Closed, Open
<1>3. StrandTyped' /\ \A q \in Run \ {r} : Same(q)
  BY <1>1 DEF Same
<1>4. Levels(r)' = Levels(r) /\ Waves(r)' = Waves(r)
  BY <1>1 DEF Levels, Waves
<1>5. \A t \in Strand \ {s} : strand'[r][t] = strand[r][t]
  BY <1>1
<1>6. status[r] = "running"
  BY <1>2 DEF RunOk, Executing
<1>7. RunOk(r)'
  BY <1>1, <1>2, <1>4, <1>5, <1>6 DEF RunOk, Placed, IsBench, Creating, Executing
<1>. QED
  BY <1>3, <1>7 DEF Keeps

\* An abort that comes sets `aborted` and nothing else of the run.
LEMMA ViewerKeeps ==
  ASSUME StrandTyped, NEW r \in Run, RunOk(r), Viewer(r)
  PROVE  Keeps(r)
<1>. USE DEF StrandTyped, askVars, loopVars
<1>1. /\ aborted' = aborted \/ aborted' = [aborted EXCEPT ![r] = TRUE]
      /\ UNCHANGED <<phase, mode, status, cancelled, strand, level, wave>>
  BY DEF Viewer, Stop, Attach, Detach, IdleFires, Abort
<1>2. StrandTyped' /\ \A q \in Run \ {r} : Same(q)
  <2>1. aborted' \in [Run -> BOOLEAN] /\ \A q \in Run \ {r} : aborted'[q] = aborted[q]
    BY <1>1
  <2>. QED
    BY <1>1, <2>1 DEF Same
<1>3. Levels(r)' = Levels(r) /\ Waves(r)' = Waves(r)
  BY <1>1 DEF Levels, Waves
<1>4. aborted[r] => aborted'[r]
  BY <1>1
<1>5. \A S : AllEnded(r, S)' <=> AllEnded(r, S)
  BY <1>1 DEF AllEnded
<1>6. RunOk(r)'
  BY <1>1, <1>3, <1>4, <1>5 DEF RunOk, Placed, Closed, Untouched, IsBench
<1>. QED
  BY <1>2, <1>6 DEF Keeps
-----------------------------------------------------------------------------
LEMMA StrandInit == Init => StrandInv
<1>. SUFFICES ASSUME Init PROVE StrandInv
  OBVIOUS
<1>1. StrandTyped
  BY DEF Init, StrandTyped, Phase, States
<1>2. ASSUME NEW r \in Run PROVE RunOk(r)
  BY PlanFacts DEF Init, RunOk, Placed, Untouched, Closed, Open, Creating, Executing
<1>. QED
  BY <1>1, <1>2 DEF StrandInv

LEMMA StrandInvStep == StrandInv /\ [Next]_vars => StrandInv'
<1>. SUFFICES ASSUME StrandInv, [Next]_vars PROVE StrandInv'
  OBVIOUS
<1>1. ASSUME NEW r \in Run, Keeps(r) PROVE StrandInv'
  BY <1>1, SameIsOk DEF StrandInv, Keeps
<1>2. ASSUME NEW r \in Run, Execute(r) PROVE Keeps(r)
  BY <1>2, WarmupKeeps, BeginWaveKeeps, WaveEndsKeeps, LevelEndsKeeps, BreakKeeps, SkipLevelKeeps,
     FinishEndsKeeps DEF Execute, StrandInv
<1>3. CASE UNCHANGED vars
  BY <1>3, SameIsOk DEF StrandInv, StrandTyped, Same, vars, askVars, loopVars
<1>. QED
  BY <1>1, <1>2, <1>3, CreateRunKeeps, StrandStepKeeps, ViewerKeeps DEF Next, StrandInv

\* Nothing is emitted after `done`: no request outlives its run, and a run that is done or
\* cancelled has no strand left waiting (execute's loops, fail and finish).
THEOREM StrandsEndFirst == Spec => []NoStrandOutlivesRun
<1>1. StrandInv => NoStrandOutlivesRun
  BY DEF StrandInv, StrandTyped, RunOk, NoStrandOutlivesRun, Closed, AllEnded, Phase, Creating, Executing
<1>. QED
  BY <1>1, StrandInit, StrandInvStep, PTL DEF Spec
-----------------------------------------------------------------------------
(* What a run holds.                                                       *)

USE DEF askVars, loopVars, watchVars, Goto, Creating, Executing, IsBench
-----------------------------------------------------------------------------
\* The types the theorems need.
RunTyped ==
  /\ phase \in [Run -> Phase]
  /\ mode \in [Run -> Mode] /\ base \in [Run -> Base]
  /\ status \in [Run -> {"none", "running", "done", "cancelled", "error"}]
  /\ aborted \in [Run -> BOOLEAN]
  /\ lease \in [Run -> BOOLEAN]
  /\ watched \in [Run -> BOOLEAN] /\ idle \in [Run -> BOOLEAN]

\* What a run holds.
holdVars == <<phase, mode, base, status, aborted, lease, watched, idle>>

\* createRun or execute reaches the next await; it may take or drop the lease.
GoesOn(r) ==
  /\ \E p \in Creating \cup Executing : phase' = [phase EXCEPT ![r] = p]
  /\ \/ UNCHANGED lease
     \/ \E got \in BOOLEAN : lease' = [lease EXCEPT ![r] = got]
  /\ UNCHANGED <<mode, base, status, aborted, watched, idle>>

\* fail() or the end of finish().
Ends(r) ==
  /\ phase' = [phase EXCEPT ![r] = "over"]
  /\ \E st \in {"done", "cancelled", "error"} : status' = [status EXCEPT ![r] = st]
  /\ aborted' = aborted \/ aborted' = [aborted EXCEPT ![r] = TRUE]
  /\ lease' = [lease EXCEPT ![r] = FALSE]
  /\ idle' = [idle EXCEPT ![r] = FALSE]
  /\ UNCHANGED <<mode, base, watched>>

LEMMA FinishShape ==
  ASSUME NEW r \in Run, NEW ok, NEW st, Finish(r, ok, st)
  PROVE  GoesOn(r) \/ Ends(r)
BY DEF Finish, Fail, Conclude, GoesOn, Ends

LEMMA AdvanceShape ==
  ASSUME NEW r \in Run, NEW ok, NEW st, Advance(r, ok, st)
  PROVE  GoesOn(r) \/ Ends(r)
BY FinishShape DEF Advance, GoesOn

\* Where a strand moves, what the run holds does not.
LEMMA StrandShape ==
  ASSUME NEW r \in Run, NEW s \in Strand, StrandStep(r, s)
  PROVE  UNCHANGED holdVars
BY DEF StrandStep, Arrive, FirstToken, StrandEnds, holdVars

LEMMA ExecuteShape ==
  ASSUME NEW r \in Run, Execute(r)
  PROVE  GoesOn(r) \/ Ends(r)
<1>1. ASSUME Warmup(r) PROVE GoesOn(r) \/ Ends(r)
  BY <1>1, FinishShape DEF Warmup, Continue, Fail, GoesOn, Ends
<1>2. ASSUME BeginWave(r) PROVE GoesOn(r)
  BY <1>2 DEF BeginWave, GoesOn
<1>3. ASSUME WaveEnds(r) PROVE GoesOn(r) \/ Ends(r)
  BY <1>3, FinishShape DEF WaveEnds, GoesOn
<1>4. ASSUME LevelEnds(r) PROVE GoesOn(r) \/ Ends(r)
  BY <1>4, FinishShape, AdvanceShape DEF LevelEnds
<1>5. ASSUME Break(r) PROVE GoesOn(r) \/ Ends(r)
  BY <1>5, FinishShape DEF Break
<1>6. ASSUME SkipLevel(r) PROVE GoesOn(r) \/ Ends(r)
  BY <1>6, AdvanceShape DEF SkipLevel
<1>7. ASSUME ReadDone(r) PROVE GoesOn(r) \/ Ends(r)
  BY <1>7 DEF ReadDone, Conclude, GoesOn, Ends
<1>8. ASSUME ImportDone(r) PROVE Ends(r)
  BY <1>8 DEF ImportDone, Conclude, Ends
<1>. QED
  BY <1>1, <1>2, <1>3, <1>4, <1>5, <1>6, <1>7, <1>8 DEF Execute

LEMMA CreateRunShape ==
  ASSUME NEW r \in Run, CreateRun(r)
  PROVE  GoesOn(r) \/ Refuse(r) \/ (Create(r) /\ ~Active(base[r]))
BY DEF CreateRun, Call, Resolve, CreateFails, Probe, LeaseAnswered, Continue, GoesOn

LEMMA StepShape ==
  ASSUME [Next]_vars
  PROVE  \/ UNCHANGED holdVars
         \/ \E r \in Run : \/ GoesOn(r) \/ Ends(r) \/ Refuse(r)
                           \/ Create(r) /\ ~Active(base[r])
                           \/ Viewer(r)
BY StrandShape, ExecuteShape, CreateRunShape DEF Next, vars, holdVars
-----------------------------------------------------------------------------
HoldInv ==
  /\ RunTyped
  /\ OneRunPerEndpoint
  /\ LeaseFollowsRun
  /\ UnwatchedLoadIsTimed

LEMMA HoldStep ==
  ASSUME HoldInv, [Next]_vars
  PROVE  HoldInv'
<1> USE DEF HoldInv, RunTyped, OneRunPerEndpoint, LeaseFollowsRun,
            UnwatchedLoadIsTimed, Running, Phase
<1>1. CASE UNCHANGED holdVars
  BY <1>1 DEF holdVars
<1>2. ASSUME NEW r \in Run, GoesOn(r) PROVE HoldInv'
  BY <1>2 DEF GoesOn
<1>3. ASSUME NEW r \in Run, Ends(r) PROVE HoldInv'
  <2>1. RunTyped'
    <3>1. aborted' \in [Run -> BOOLEAN]
      BY <1>3 DEF Ends
    <3>2. status' \in [Run -> {"none", "running", "done", "cancelled", "error"}]
      BY <1>3 DEF Ends
    <3>3. phase' \in [Run -> Phase]
      BY <1>3 DEF Ends
    <3>4. lease' \in [Run -> BOOLEAN] /\ idle' \in [Run -> BOOLEAN]
      BY <1>3 DEF Ends
    <3>5. UNCHANGED <<mode, base, watched>>
      BY <1>3 DEF Ends
    <3>. QED
      BY <3>1, <3>2, <3>3, <3>4, <3>5
  <2>2. OneRunPerEndpoint'
    BY <1>3 DEF Ends
  <2>3. LeaseFollowsRun'
    BY <1>3 DEF Ends
  <2>4. UnwatchedLoadIsTimed'
    BY <1>3 DEF Ends
  <2>. QED
    BY <2>1, <2>2, <2>3, <2>4
<1>4. ASSUME NEW r \in Run, Refuse(r) PROVE HoldInv'
  BY <1>4 DEF Refuse
<1>5. ASSUME NEW r \in Run, Create(r), ~Active(base[r]) PROVE HoldInv'
  BY <1>5 DEF Create, Active
<1>6. ASSUME NEW r \in Run, Stop(r) PROVE HoldInv'
  BY <1>6 DEF Stop, Abort
<1>7. ASSUME NEW r \in Run, Attach(r) PROVE HoldInv'
  BY <1>7 DEF Attach
<1>8. ASSUME NEW r \in Run, Detach(r) PROVE HoldInv'
  BY <1>8 DEF Detach
<1>9. ASSUME NEW r \in Run, IdleFires(r) PROVE HoldInv'
  BY <1>9 DEF IdleFires, Abort
<1>. QED
  BY <1>1, <1>2, <1>3, <1>4, <1>5, <1>6, <1>7, <1>8, <1>9, StepShape DEF Viewer

LEMMA HoldCorrect == Spec => []HoldInv
<1>1. Init => HoldInv
  BY DEF Init, HoldInv, RunTyped, OneRunPerEndpoint, LeaseFollowsRun,
         UnwatchedLoadIsTimed, Running, Phase
<1>. QED
  BY <1>1, HoldStep, PTL DEF Spec

\* Two runs never measure one endpoint, however many createRuns interleave at
\* their awaits.
THEOREM EndpointsAreExclusive == Spec => []OneRunPerEndpoint
<1>1. HoldInv => OneRunPerEndpoint
  BY DEF HoldInv
<1>. QED
  BY <1>1, HoldCorrect, PTL

\* No path through createRun, execute, fail and finish leaks the bench lease.
THEOREM LeaseIsGivenBack == Spec => []LeaseFollowsRun
<1>1. HoldInv => LeaseFollowsRun
  BY DEF HoldInv
<1>. QED
  BY <1>1, HoldCorrect, PTL

\* A load run without a viewer has its idle timer armed or its abort under way.
THEOREM UnwatchedIsTimed == Spec => []UnwatchedLoadIsTimed
<1>1. HoldInv => UnwatchedLoadIsTimed
  BY DEF HoldInv
<1>. QED
  BY <1>1, HoldCorrect, PTL
=============================================================================
