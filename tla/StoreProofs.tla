----------------------------- MODULE StoreProofs -----------------------------
(***************************************************************************)
(* What the controller keeps: the public shares of the lab, a directory of *)
(* files, and the token counters, a table of the database.                 *)
(*                                                                         *)
(* That runs and shares match, for any number of runs and slugs and        *)
(* wherever a handler is cut: a slug belongs to the one run that drew it   *)
(* (Owned), and the handler under way knows where its run and its slug     *)
(* stand (Handling).  The builder changes none of what the invariant       *)
(* speaks of.                                                              *)
(*                                                                         *)
(* That no token is booked twice or forgotten, for any number of           *)
(* processes, URLs, backends, edits and restarts, as long as one pass is   *)
(* under way at a time: the reading kept of a process is its highest one   *)
(* (KeptIsHighest), at most one URL keeps it, and a process that was read  *)
(* loses it only to a later process of the same URL, when it is gone       *)
(* (Lost).                                                                 *)
(***************************************************************************)
EXTENDS LabShare, UsageMeter, SequenceTheorems, TLAPS

-----------------------------------------------------------------------------
(* The lab's shares                                                        *)

\* The types the theorem needs.
LabTyped ==
  /\ meta \in [Run -> {"none", "torn", "private"} \cup Slug]
  /\ pub \in [Slug -> Files]
  /\ of \in [Slug -> Run \cup {None}]
  /\ op \in [at : {"idle", "saving", "removing", "copying", "whole", "writing"},
             run : Run \cup {None}, public : BOOLEAN, slug : Slug \cup {None}, again : BOOLEAN]
  /\ cut \in [Slug -> {"no", "first", "again"}]

Draws(r) == {s \in Slug : of[s] = r}

\* Only the run that drew a slug is public under it; nobody's slug has no files, and a run
\* that was never imported has drawn none.
Owned ==
  /\ \A r \in Run : meta[r] \in Slug => of[meta[r]] = r
  /\ \A s \in Slug : of[s] = None => pub[s] = "absent"
  /\ \A r \in Run : meta[r] = "none" => Draws(r) = {}

\* What a handler that publishes or withdraws has found out or done.
OnSlug ==
  /\ op.slug \in Slug /\ of[op.slug] = op.run
  /\ op.again <=> meta[op.run] = op.slug
  /\ meta[op.run] \in {"private", op.slug}

\* The files are as the new meta.json will say.
Settled ==
  IF op.slug = None THEN ~op.public
  ELSE of[op.slug] = op.run /\ pub[op.slug] = (IF op.public THEN "whole" ELSE "absent")

Handling ==
  /\ op.at = "idle" <=> op.run = None
  /\ op.at = "idle" => op.slug = None
  /\ op.at = "saving" => (op.slug = None /\ meta[op.run] = "torn" /\ Draws(op.run) = {})
  /\ op.at = "removing" => OnSlug /\ op.again
  /\ op.at = "copying" => OnSlug /\ op.public
  /\ op.at = "whole" => /\ Settled
                         /\ IF op.slug = None THEN meta[op.run] = "private" ELSE OnSlug
  \* Of what its run drew before, only cut first publishes are left.
  /\ op.at = "writing" =>
       /\ Settled /\ meta[op.run] = "torn"
       /\ \A s \in Draws(op.run) : (s # op.slug => pub[s] = "absent" \/ cut[s] = "first")

LabInv == LabTyped /\ Owned /\ Handling /\ SharesMatch
-----------------------------------------------------------------------------
LEMMA LabInit == Init => LabInv
BY LabAssumption
   DEF Init, Idle, Files, LabInv, LabTyped, Owned, Draws, Handling, SharesMatch

\* A publish starts from what Owned and SharesMatch say of the run.
LEMMA PublishStep ==
  ASSUME LabInv, NEW r \in Run, op.at = "idle", meta[r] \notin {"none", "torn"},
         Publish(r), UNCHANGED <<meta, pub, cut>>
  PROVE  LabInv'
<1>. USE LabAssumption DEF LabInv, LabTyped, Files
<1>1. PICK s \in IF meta[r] \in Slug THEN {meta[r]} ELSE Fresh :
        /\ op' = [at |-> IF pub[s] = "absent" THEN "copying" ELSE "removing",
                  run |-> r, public |-> TRUE, slug |-> s, again |-> meta[r] = s]
        /\ of' = [of EXCEPT ![s] = r]
  BY DEF Publish
<1>2. s \in Slug /\ (meta[r] = s => of[s] = r) /\ (meta[r] # s => meta[r] = "private" /\ of[s] = None)
  BY <1>1 DEF Fresh, Owned
<1>3. LabTyped'
  BY <1>1, <1>2
<1>4. Owned'
  BY <1>1, <1>2 DEF Owned, Draws
<1>5. Handling'
  BY <1>1, <1>2 DEF Owned, Handling, OnSlug
<1>6. SharesMatch'
  BY <1>1, <1>2 DEF Owned, SharesMatch, Handling
<1>. QED
  BY <1>3, <1>4, <1>5, <1>6

LEMMA UnpublishStep ==
  ASSUME LabInv, NEW r \in Run, op.at = "idle", meta[r] \notin {"none", "torn"},
         Unpublish(r), UNCHANGED <<meta, pub, cut>>
  PROVE  LabInv'
<1>. USE LabAssumption DEF LabInv, LabTyped, Files, Unpublish
<1>1. LabTyped'
  OBVIOUS
<1>2. Owned'
  BY DEF Owned, Draws
<1>3. Handling'
  BY DEF Owned, Handling, OnSlug, Settled
<1>4. SharesMatch'
  BY DEF Owned, SharesMatch, Handling
<1>. QED
  BY <1>1, <1>2, <1>3, <1>4

LEMMA ImportStep ==
  ASSUME LabInv, NEW r \in Run, NEW share \in BOOLEAN, Import(r, share)
  PROVE  LabInv'
<1>. USE LabAssumption DEF LabInv, LabTyped, Files, Import, Idle
<1>1. LabTyped'
  OBVIOUS
<1>2. Owned'
  BY DEF Owned, Draws
<1>3. Handling'
  BY DEF Owned, Handling, Draws
<1>4. SharesMatch'
  BY DEF Owned, SharesMatch, Handling, Draws
<1>. QED
  BY <1>1, <1>2, <1>3, <1>4

LEMMA RemoveStep == LabInv /\ Remove => LabInv'
<1>. SUFFICES ASSUME LabInv, Remove PROVE LabInv'
  OBVIOUS
<1>. USE LabAssumption DEF LabInv, LabTyped, Files, Remove, Goto
<1>1. OnSlug /\ op.again
  BY DEF Handling
<1>2. LabTyped'
  BY <1>1 DEF OnSlug
<1>3. Owned'
  BY <1>1 DEF Owned, Draws, OnSlug
<1>4. Handling'
  BY <1>1 DEF Handling, OnSlug, Settled
<1>5. SharesMatch'
  BY <1>1 DEF SharesMatch, OnSlug
<1>. QED
  BY <1>2, <1>3, <1>4, <1>5

LEMMA CopyStep == LabInv /\ Copy => LabInv'
<1>. SUFFICES ASSUME LabInv, Copy PROVE LabInv'
  OBVIOUS
<1>. USE LabAssumption DEF LabInv, LabTyped, Files, Copy, Goto
<1>1. OnSlug /\ op.public /\ op.run \in Run
  BY DEF Handling
<1>2. LabTyped'
  BY <1>1 DEF OnSlug
<1>3. Owned'
  BY <1>1 DEF Owned, Draws, OnSlug
<1>4. Handling'
  BY <1>1 DEF Handling, OnSlug, Settled
<1>5. SharesMatch'
  BY <1>1 DEF SharesMatch, OnSlug
<1>. QED
  BY <1>2, <1>3, <1>4, <1>5

\* While meta.json is torn, what SharesMatch says of the run's older slugs is kept by Handling.
LEMMA TruncateStep == LabInv /\ Truncate => LabInv'
<1>. SUFFICES ASSUME LabInv, Truncate PROVE LabInv'
  OBVIOUS
<1>. USE LabAssumption DEF LabInv, LabTyped, Files, Truncate, Goto
<1>1. op.run \in Run /\ Settled /\ meta[op.run] \in {"private", op.slug}
      /\ (IF op.slug = None THEN meta[op.run] = "private" ELSE op.slug \in Slug)
  BY DEF Handling, OnSlug
<1>2. LabTyped'
  BY <1>1
<1>3. Owned'
  BY <1>1 DEF Owned, Draws
<1>4. \A s \in Draws(op.run) : s # op.slug => pub[s] = "absent" \/ cut[s] = "first"
  <2>. SUFFICES ASSUME NEW s \in Slug, of[s] = op.run, s # op.slug, pub[s] # "absent"
                PROVE  cut[s] = "first"
    BY DEF Draws
  <2>1. CASE meta[op.run] = "private"
    BY <2>1 DEF SharesMatch
  <2>2. CASE meta[op.run] = op.slug /\ op.slug \in Slug
    BY <2>2 DEF SharesMatch
  <2>. QED
    BY <1>1, <2>1, <2>2
<1>5. Handling'
  BY <1>1, <1>4 DEF Handling, Settled, Draws
<1>6. SharesMatch'
  BY <1>1 DEF SharesMatch, Owned
<1>. QED
  BY <1>2, <1>3, <1>5, <1>6

LEMMA WrittenStep == LabInv /\ Written => LabInv'
<1>. SUFFICES ASSUME LabInv, Written PROVE LabInv'
  OBVIOUS
<1>. USE LabAssumption DEF LabInv, LabTyped, Files, Written, Idle
<1>1. op.run \in Run /\ Settled /\ meta[op.run] = "torn" /\ (op.public => op.slug \in Slug)
      /\ \A s \in Draws(op.run) : (s # op.slug => pub[s] = "absent" \/ cut[s] = "first")
  BY DEF Handling, Settled
<1>2. LabTyped'
  BY <1>1
<1>3. Owned'
  BY <1>1 DEF Owned, Draws, Settled
<1>4. Handling'
  BY <1>1 DEF Handling
<1>5. SharesMatch'
  BY <1>1 DEF SharesMatch, Owned, Draws, Settled
<1>. QED
  BY <1>2, <1>3, <1>4, <1>5

LEMMA CutStep == LabInv /\ Cut => LabInv'
<1>. SUFFICES ASSUME LabInv, Cut PROVE LabInv'
  OBVIOUS
<1>. USE LabAssumption DEF LabInv, LabTyped, Files, Cut, Idle
<1>1. op.run \in Run /\ (op.slug # None => of[op.slug] = op.run)
  BY DEF Handling, OnSlug, Settled
<1>2. op.slug # None => (meta[op.run] = op.slug => op.again) /\ (op.again => meta[op.run] \in {op.slug, "torn"})
  BY <1>1 DEF Handling, OnSlug
<1>3. LabTyped'
  OBVIOUS
<1>4. Owned'
  BY DEF Owned, Draws
<1>5. Handling'
  BY DEF Handling
<1>6. SharesMatch'
  BY <1>1, <1>2 DEF SharesMatch, Owned
<1>. QED
  BY <1>3, <1>4, <1>5, <1>6

\* An import that is shared at once draws its first slug.
LEMMA SavedStep == LabInv /\ Saved => LabInv'
<1>. SUFFICES ASSUME LabInv, Saved PROVE LabInv'
  OBVIOUS
<1>. USE LabAssumption DEF LabInv, LabTyped, Files, Saved
<1>1. op.run \in Run /\ op.slug = None /\ meta[op.run] = "torn" /\ Draws(op.run) = {}
  BY DEF Handling
<1>2. CASE op' = Idle /\ UNCHANGED of
  <2>. USE <1>1, <1>2 DEF Idle
  <2>1. LabTyped'
    OBVIOUS
  <2>2. Owned'
    BY DEF Owned, Draws
  <2>3. Handling'
    BY DEF Handling
  <2>4. SharesMatch'
    BY DEF SharesMatch, Owned, Draws
  <2>. QED
    BY <2>1, <2>2, <2>3, <2>4
<1>3. CASE Publish(op.run)
  <2>1. PICK s \in Fresh :
          /\ op' = [at |-> IF pub[s] = "absent" THEN "copying" ELSE "removing",
                    run |-> op.run, public |-> TRUE, slug |-> s, again |-> FALSE]
          /\ of' = [of EXCEPT ![s] = op.run]
    BY <1>1, <1>3 DEF Publish, Fresh
  <2>2. s \in Slug /\ of[s] = None /\ pub[s] = "absent"
    BY <2>1 DEF Fresh, Owned
  <2>. HIDE <1>3
  <2>. USE <1>1, <2>1, <2>2
  <2>3. LabTyped'
    OBVIOUS
  <2>4. Owned'
    BY DEF Owned, Draws
  <2>5. Handling'
    BY DEF Handling, OnSlug
  <2>6. SharesMatch'
    BY DEF SharesMatch, Owned, Draws
  <2>. QED
    BY <2>3, <2>4, <2>5, <2>6
<1>. QED
  BY <1>2, <1>3
-----------------------------------------------------------------------------
\* The builder leaves the directories it reads as they are.
LEMMA SiteStep == LabInv /\ (Site \/ UNCHANGED vars) => LabInv'
<1>1. Site \/ UNCHANGED vars => UNCHANGED <<meta, pub, of, op, cut>>
  BY DEF Site, BuildStart, Begun, Builder, Look, CopyPage, BuildRaises, BuildEnds, Deploy,
         vars, labVars
<1>2. LabInv /\ UNCHANGED <<meta, pub, of, op, cut>> => LabInv'
  BY DEF LabInv, LabTyped, Owned, Draws, Handling, OnSlug, Settled, SharesMatch
<1>. QED
  BY <1>1, <1>2

LEMMA LabStep == LabInv /\ Lab => LabInv'
<1>. SUFFICES ASSUME LabInv, Lab PROVE LabInv'
  OBVIOUS
<1>1. ASSUME NEW r \in Run, NEW public \in BOOLEAN, Share(r, public) PROVE LabInv'
  BY <1>1, PublishStep, UnpublishStep DEF Share
<1>2. ASSUME NEW r \in Run, NEW share \in BOOLEAN, Import(r, share) PROVE LabInv'
  BY <1>2, ImportStep
<1>. QED
  BY <1>1, <1>2, SavedStep, RemoveStep, CopyStep, TruncateStep, WrittenStep, CutStep
     DEF Lab, Request, Handler

\* Whatever is published, withdrawn, imported or built, and wherever a handler is cut, a run
\* is shown public only with its files there and private only with its files gone, but for
\* the cuts SharesMatch names (publishLabRun, writeMeta and the import route).
THEOREM SharesAlwaysMatch == Spec => []SharesMatch
<1>1. LabInv /\ [Next]_vars => LabInv'
  BY LabStep, SiteStep DEF Next
<1>2. LabInv => SharesMatch
  BY DEF LabInv
<1>. QED
  BY LabInit, <1>1, <1>2, PTL DEF Spec
-----------------------------------------------------------------------------
(* What the builder leaves, next to whatever the controller does.          *)

SiteTyped ==
  /\ dist \in [Slug -> Files]
  /\ build \in [at : {"off", "on", "built"}, todo : SUBSET Slug, looks : Slug \cup {None}]
  /\ seen \subseteq Slug /\ steady \subseteq Slug
  /\ build.at = "built" => build.todo = {} /\ build.looks = None

\* Torn for good: no handler is about to write the run's meta.json.
Wrecked(r) == r \in Run /\ meta[r] = "torn" /\ op.run # r

Building == build.at # "off"

\* A page that got into the tree was shared at some time of the build, or is a leftover.
Justified ==
  /\ \A s \in Slug : Named(s) \/ op.slug = s => s \in seen
  /\ \A s \in Slug : dist[s] # "absent" => of[s] \in Run /\ (s \in seen \/ cut[s] = "first" \/ Wrecked(of[s]))

\* A page that is shared all the time has been copied, or will be.
Covered ==
  \A s \in steady :
    /\ Named(s) /\ pub[s] = "whole"
    /\ art[of[s]] = "page" => s \in build.todo \/ build.looks = s \/ dist[s] = "whole"

SiteInv == SiteTyped /\ (Building => Justified /\ Covered)

LEMMA SiteInit == Init => SiteInv
BY DEF Init, NoBuild, Files, SiteInv, SiteTyped, Building

\* What a handler's step leaves alone.
Kept ==
  /\ UNCHANGED <<art, build, dist>>
  /\ \A s \in Slug : of[s] \in Run => of'[s] = of[s]
  /\ \A s \in Slug : cut[s] = "first" => cut'[s] = "first" \/ op.slug = s
  /\ \A r \in Run : Wrecked(r) => Wrecked(r)'

LEMMA PublishKeeps ==
  ASSUME LabInv, NEW r \in Run, Publish(r)
  PROVE  \A s \in Slug : of[s] \in Run => of'[s] = of[s]
<1>1. PICK t \in IF meta[r] \in Slug THEN {meta[r]} ELSE Fresh : of' = [of EXCEPT ![t] = r]
  BY DEF Publish
<1>2. t \in Slug /\ of[t] \in {None, r}
  BY <1>1 DEF Fresh, LabInv, Owned
<1>. QED
  BY <1>1, <1>2, LabAssumption DEF LabInv, LabTyped

LEMMA LabKeeps == LabInv /\ Lab => Kept
<1>. SUFFICES ASSUME LabInv, Lab PROVE Kept
  OBVIOUS
<1>. USE LabAssumption DEF Wrecked
<1>0. UNCHANGED <<build, dist>>
  BY DEF Lab, siteVars
<1>1. ASSUME NEW r \in Run, NEW public \in BOOLEAN, Share(r, public) PROVE Kept
  <2>1. op'.run = r /\ meta[r] # "torn" /\ UNCHANGED <<art, meta, cut>>
    BY <1>1 DEF Share, Publish, Unpublish
  <2>2. \A s \in Slug : of[s] \in Run => of'[s] = of[s]
    BY <1>1, PublishKeeps DEF Share, Unpublish
  <2>. QED
    BY <1>0, <2>1, <2>2 DEF Kept
<1>2. ASSUME NEW r \in Run, NEW share \in BOOLEAN, Import(r, share) PROVE Kept
  BY <1>0, <1>2 DEF Kept, Import, Idle, LabInv, LabTyped
<1>3. CASE Saved
  <2>1. \A s \in Slug : of[s] \in Run => of'[s] = of[s]
    BY <1>3, PublishKeeps DEF Saved, LabInv, LabTyped, Handling
  <2>2. op.run \in Run /\ meta' = [meta EXCEPT ![op.run] = "private"] /\ op'.run \in {op.run, None}
        /\ UNCHANGED <<art, cut>>
    BY <1>3 DEF Saved, Publish, Idle, LabInv, LabTyped, Handling
  <2>. QED
    BY <1>0, <2>1, <2>2 DEF Kept, LabInv, LabTyped
<1>4. CASE Remove \/ Copy
  BY <1>0, <1>4 DEF Kept, Remove, Copy, Goto, LabInv, LabTyped
<1>5. CASE Truncate
  BY <1>0, <1>5 DEF Kept, Truncate, Goto, LabInv, LabTyped
<1>6. CASE Written
  BY <1>0, <1>6 DEF Kept, Written, Idle, LabInv, LabTyped
<1>7. CASE Cut
  BY <1>0, <1>7 DEF Kept, Cut, Idle, LabInv, LabTyped
<1>. QED
  BY <1>1, <1>2, <1>3, <1>4, <1>5, <1>6, <1>7 DEF Lab, Request, Handler

LEMMA SiteKeptByLab == LabInv /\ SiteInv /\ Lab => SiteInv'
<1>. SUFFICES ASSUME LabInv, SiteInv, Lab PROVE SiteInv'
  OBVIOUS
<1>1. Kept
  BY LabKeeps
<1>2. /\ seen' = seen \cup {s \in Slug : Named(s)' \/ op'.slug = s}
      /\ steady' = {s \in steady : Named(s)' /\ pub'[s] = "whole"}
  BY DEF Lab
<1>3. \A s \in Slug : Named(s) => of[s] \in Run
  BY DEF Named, LabInv, Owned
<1>4. SiteTyped'
  BY <1>1, <1>2 DEF SiteInv, SiteTyped, Kept
<1>5. ASSUME Building' PROVE Justified'
  <2>1. Building /\ Justified
    BY <1>1, <1>5 DEF SiteInv, Building, Kept
  <2>2. \A s \in Slug : Named(s)' \/ op'.slug = s => s \in seen'
    BY <1>2
  <2>3. ASSUME NEW s \in Slug, dist[s] # "absent"
        PROVE  of'[s] \in Run /\ (s \in seen' \/ cut'[s] = "first" \/ Wrecked(of[s])')
    BY <1>1, <1>2, <2>1, <2>3 DEF Kept, Justified, Wrecked
  <2>. QED
    BY <1>1, <2>1, <2>2, <2>3 DEF Kept, Justified, Wrecked
<1>6. ASSUME Building' PROVE Covered'
  <2>1. Building /\ Covered
    BY <1>1, <1>6 DEF SiteInv, Building, Kept
  <2>2. \A s \in steady' : s \in steady /\ s \in Slug /\ Named(s)' /\ pub'[s] = "whole" /\ of'[s] = of[s]
    BY <1>1, <1>2, <1>3, <2>1 DEF Covered, Kept, SiteInv, SiteTyped
  <2>. QED
    BY <1>1, <2>1, <2>2 DEF Covered, Kept
<1>. QED
  BY <1>4, <1>5, <1>6 DEF SiteInv

\* Files that are there are shared, about to be, or a leftover.
LEMMA FilesAreJustified ==
  ASSUME LabInv, NEW s \in Slug, pub[s] # "absent"
  PROVE  of[s] \in Run /\ (Named(s) \/ op.slug = s \/ cut[s] = "first" \/ Wrecked(of[s]))
<1>1. of[s] \in Run
  BY DEF LabInv, LabTyped, Owned
<1>2. meta[of[s]] \in {s, "torn"} \/ cut[s] = "first" \/ op.slug = s
  BY DEF LabInv, SharesMatch
<1>3. CASE meta[of[s]] = "torn" /\ op.run = of[s]
  <2>1. op.at \in {"saving", "writing"} /\ s \in Draws(op.run)
    BY <1>1, <1>3, LabAssumption DEF LabInv, LabTyped, Handling, OnSlug, Draws
  <2>. QED
    BY <1>1, <2>1 DEF LabInv, Handling
<1>. QED
  BY <1>1, <1>2, <1>3 DEF Named, Wrecked

LEMMA SiteKeptBySite == LabInv /\ SiteInv /\ Site => SiteInv'
<1>. SUFFICES ASSUME LabInv, SiteInv, Site PROVE SiteInv'
  OBVIOUS
<1>. USE LabAssumption DEF SiteInv, SiteTyped, Building
<1>1. CASE BuildStart
  BY <1>1 DEF BuildStart, Begun, Listed, Justified, Covered, Named, Files, labVars
<1>2. ASSUME NEW s \in Slug, Look(s) PROVE SiteInv'
  <2>1. PICK page \in HasPage(s) :
          build' = [build EXCEPT !.todo = @ \ {s}, !.looks = IF page THEN s ELSE None]
    BY <1>2 DEF Look
  <2>2. /\ build.at = "on" /\ build.looks = None
        /\ UNCHANGED <<art, meta, pub, of, op, cut, dist, seen, steady>>
    BY <1>2 DEF Look, Builder, labVars
  <2>3. build'.at = "on" /\ build'.todo = build.todo \ {s} /\ build'.looks = (IF page THEN s ELSE None)
    BY <2>1, <2>2
  <2>4. SiteTyped'
    BY <2>1, <2>2, <2>3
  <2>5. Justified'
    BY <2>2 DEF Justified, Named, Wrecked
  <2>6. pub[s] = "whole" /\ art[of[s]] = "page" => page
    BY <2>1 DEF HasPage
  <2>7. Covered'
    BY <2>2, <2>3, <2>6 DEF Covered, Named
  <2>. QED
    BY <2>4, <2>5, <2>7
<1>3. CASE CopyPage
  BY <1>3, FilesAreJustified DEF CopyPage, Builder, labVars, Justified, Covered, Named, Wrecked, LabInv, LabTyped
<1>4. CASE BuildRaises \/ Deploy
  BY <1>4 DEF BuildRaises, Deploy, NoBuild, Builder
<1>5. CASE BuildEnds
  BY <1>5 DEF BuildEnds, Builder, labVars, Justified, Covered, Named, Wrecked
<1>. QED
  BY <1>1, <1>2, <1>3, <1>4, <1>5 DEF Site

\* A built site shows what was shared while it was built, and leftovers; it shows whole what
\* was shared all the time, whatever the controller did meanwhile (lab-site-build's main).
THEOREM SiteAlwaysPublic == Spec => []SiteIsPublic
<1>1. SiteInv /\ UNCHANGED vars => SiteInv'
  BY DEF SiteInv, SiteTyped, Building, Justified, Covered, Named, Wrecked, vars, labVars, siteVars
<1>2. LabInv /\ SiteInv /\ [Next]_vars => LabInv' /\ SiteInv'
  BY <1>1, LabStep, SiteStep, SiteKeptByLab, SiteKeptBySite DEF Next
<1>3. SiteInv => SiteIsPublic
  BY LabAssumption DEF SiteInv, SiteTyped, Building, Justified, Covered, SiteIsPublic, Wrecked
<1>. QED
  BY LabInit, SiteInit, <1>2, <1>3, PTL DEF Spec

-----------------------------------------------------------------------------
(* The token meter                                                         *)

\* The types the theorem needs.
Typed ==
  /\ stage \in [Proc -> {"off", "up", "gone"}] /\ tokens \in [Proc -> Nat]
  /\ pass \in [Pass -> [left : Seq(Url), reading : Readings \cup {Nothing}, at : Url \cup {Nothing}]]
  /\ url \in [Backend -> Url]
  /\ last \in [Url -> Readings \cup {Nothing}]
  /\ booked \in [Proc -> Nat] /\ read \in [Proc -> Nat]

Keeps(u, p) == last[u] # Nothing /\ last[u].of = p
Carries(i, p) == pass[i].reading # Nothing /\ pass[i].reading.of = p

\* A process is read while it is up, and its counter never goes back.
Counted ==
  /\ \A p \in Proc : read[p] <= tokens[p] /\ (stage[p] = "off" => read[p] = 0)
  /\ \A p, q \in Proc : stage[p] = "up" /\ stage[q] = "up" /\ p # q => UrlsOf[p] \cap UrlsOf[q] = {}

\* What a URL keeps is the highest reading of a process that is reached under it, and no
\* other URL keeps one of that process.
KeptIsHighest ==
  \A u \in Url, p \in Proc : Keeps(u, p) =>
    /\ u \in UrlsOf[p] /\ stage[p] # "off" /\ last[u].count = read[p]
    /\ \A v \in Url : Keeps(v, p) => v = u

\* A process without a kept reading was never read, or will never be read again.
Lost ==
  \A p \in Proc : (\A u \in Url : ~Keeps(u, p)) =>
    read[p] = 0 \/ (stage[p] = "gone" /\ \A i \in Pass : ~Carries(i, p))

\* The reading on its way is not below the highest one, and its URL keeps no reading of a
\* process that is still up.
Carried ==
  \A i \in Pass, p \in Proc : Carries(i, p) =>
    /\ pass[i].at \in UrlsOf[p] /\ pass[i].at # Nothing /\ stage[p] # "off"
    /\ read[p] <= pass[i].reading.count /\ pass[i].reading.count <= tokens[p]
    /\ \A q \in Proc \ {p} : Keeps(pass[i].at, q) => stage[q] = "gone"

MeterInv == Typed /\ Counted /\ KeptIsHighest /\ Lost /\ Carried /\ BookedOnce

OnePass == \A i, j \in Pass : i = j

USE DEF Readings
-----------------------------------------------------------------------------
LEMMA MeterInvStarts == MeterInit => MeterInv
BY MeterAssumption
   DEF MeterInit, NoPass, MeterInv, Typed, Counted, KeptIsHighest, Lost, Carried, BookedOnce, Keeps, Carries

\* A step of the processes that lets no counter go back and none start again, and no two serve
\* one URL, keeps the invariant.
LEMMA ProcessesMove ==
  ASSUME MeterInv, UNCHANGED <<url, pass, last, booked, read>>,
         stage' \in [Proc -> {"off", "up", "gone"}], tokens' \in [Proc -> Nat],
         \A q \in Proc : /\ tokens[q] <= tokens'[q]
                         /\ stage'[q] = "off" => stage[q] = "off"
                         /\ stage[q] = "gone" => stage'[q] = "gone",
         \A q, r \in Proc : stage'[q] = "up" /\ stage'[r] = "up" /\ q # r => UrlsOf[q] \cap UrlsOf[r] = {}
  PROVE  MeterInv'
<1>1. /\ \A u \in Url, q \in Proc : Keeps(u, q)' = Keeps(u, q)
      /\ \A i \in Pass, q \in Proc : Carries(i, q)' = Carries(i, q)
  BY DEF Keeps, Carries
<1>2. Typed'
  BY DEF MeterInv, Typed
<1>3. \A q \in Proc : read[q] \in Nat /\ tokens[q] \in Nat /\ tokens'[q] \in Nat
  BY DEF MeterInv, Typed
<1>4. Counted'
  <2>1. ASSUME NEW q \in Proc PROVE read[q] <= tokens'[q] /\ (stage'[q] = "off" => read[q] = 0)
    <3>1. read[q] <= tokens[q] /\ (stage[q] = "off" => read[q] = 0)
      BY DEF MeterInv, Counted
    <3>. QED
      BY <1>3, <3>1
  <2>. QED
    BY <2>1 DEF Counted
<1>5. KeptIsHighest'
  <2>1. ASSUME NEW u \in Url, NEW q \in Proc, Keeps(u, q)
        PROVE  /\ u \in UrlsOf[q] /\ stage'[q] # "off" /\ last[u].count = read[q]
               /\ \A v \in Url : Keeps(v, q)' => v = u
    BY <1>1, <2>1 DEF MeterInv, KeptIsHighest
  <2>. QED
    BY <1>1, <2>1 DEF KeptIsHighest
<1>6. Lost' /\ BookedOnce'
  BY <1>1 DEF MeterInv, Lost, BookedOnce
<1>7. Carried'
  <2>. SUFFICES ASSUME NEW i \in Pass, NEW q \in Proc, Carries(i, q)
                PROVE  /\ pass[i].at \in UrlsOf[q] /\ pass[i].at # Nothing /\ stage'[q] # "off"
                       /\ read[q] <= pass[i].reading.count /\ pass[i].reading.count <= tokens'[q]
                       /\ \A r \in Proc \ {q} : Keeps(pass[i].at, r)' => stage'[r] = "gone"
    BY <1>1 DEF Carried
  <2>1. /\ pass[i].at \in UrlsOf[q] /\ pass[i].at # Nothing /\ stage[q] # "off"
        /\ read[q] <= pass[i].reading.count /\ pass[i].reading.count <= tokens[q]
        /\ \A r \in Proc \ {q} : Keeps(pass[i].at, r) => stage[r] = "gone"
    BY DEF MeterInv, Carried
  <2>2. pass[i].reading.count \in Nat
    BY DEF MeterInv, Typed, Carries
  <2>3. \A r \in Proc : Keeps(pass[i].at, r)' = Keeps(pass[i].at, r)
    BY DEF Keeps
  <2>4. /\ read[q] \in Nat /\ tokens[q] \in Nat /\ tokens'[q] \in Nat /\ tokens[q] <= tokens'[q]
        /\ stage'[q] = "off" => stage[q] = "off"
    BY <1>3
  <2>5. \A r \in Proc : stage[r] = "gone" => stage'[r] = "gone"
    OBVIOUS
  <2>. QED
    BY ONLY <2>1, <2>2, <2>3, <2>4, <2>5
<1>. QED
  BY <1>2, <1>4, <1>5, <1>6, <1>7 DEF MeterInv

LEMMA ProcessStep ==
  ASSUME MeterInv, NEW p \in Proc, Start(p) \/ Generate(p) \/ Exit(p)
  PROVE  MeterInv'
<1>. USE DEF MeterInv, Typed
<1>1. \A q \in Proc : tokens[q] \in Nat /\ tokens[q] <= tokens[q]
  OBVIOUS
<1>2. CASE Start(p)
  <2>1. /\ stage' \in [Proc -> {"off", "up", "gone"}] /\ tokens' \in [Proc -> Nat]
        /\ UNCHANGED <<tokens, url, pass, last, booked, read>>
    BY <1>2 DEF Start
  <2>2. /\ stage'[p] = "up" /\ stage[p] = "off"
        /\ \A q \in Proc \ {p} : stage'[q] = stage[q]
        /\ \A q \in Proc : stage[q] = "up" => UrlsOf[q] \cap UrlsOf[p] = {}
    BY <1>2 DEF Start
  <2>3. \A q, r \in Proc : stage[q] = "up" /\ stage[r] = "up" /\ q # r => UrlsOf[q] \cap UrlsOf[r] = {}
    BY DEF Counted
  <2>4. \A q, r \in Proc : stage'[q] = "up" /\ stage'[r] = "up" /\ q # r => UrlsOf[q] \cap UrlsOf[r] = {}
    BY <2>2, <2>3
  <2>5. \A q \in Proc : /\ tokens[q] <= tokens'[q]
                        /\ stage'[q] = "off" => stage[q] = "off"
                        /\ stage[q] = "gone" => stage'[q] = "gone"
    BY <1>1, <2>1, <2>2
  <2>. QED
    BY <2>1, <2>4, <2>5, ProcessesMove
<1>3. CASE Generate(p)
  <2>1. /\ tokens' \in [Proc -> Nat] /\ \A q \in Proc : tokens[q] <= tokens'[q]
    BY <1>3 DEF Generate
  <2>. QED
    BY <1>3, <2>1, ProcessesMove DEF Generate, Counted
<1>4. CASE Exit(p)
  <2>1. /\ stage' \in [Proc -> {"off", "up", "gone"}] /\ tokens' \in [Proc -> Nat]
        /\ UNCHANGED <<tokens, url, pass, last, booked, read>>
    BY <1>4 DEF Exit
  <2>2. \A q \in Proc : stage'[q] = stage[q] \/ (stage[q] = "up" /\ stage'[q] = "gone")
    BY <1>4 DEF Exit
  <2>3. \A q, r \in Proc : stage'[q] = "up" /\ stage'[r] = "up" /\ q # r => UrlsOf[q] \cap UrlsOf[r] = {}
    BY <2>2 DEF Counted
  <2>4. \A q \in Proc : /\ tokens[q] <= tokens'[q]
                        /\ stage'[q] = "off" => stage[q] = "off"
                        /\ stage[q] = "gone" => stage'[q] = "gone"
    BY <1>1, <2>1, <2>2
  <2>. QED
    BY <2>1, <2>3, <2>4, ProcessesMove
<1>. QED
  BY <1>2, <1>3, <1>4

LEMMA ConfigureStep ==
  ASSUME MeterInv, NEW b \in Backend, NEW u \in Url, Configure(b, u)
  PROVE  MeterInv'
BY DEF Configure, MeterInv, Typed, Counted, KeptIsHighest, Lost, Carried, BookedOnce, Keeps, Carries

LEMMA CrashStep == MeterInv /\ Crash => MeterInv'
BY MeterAssumption
   DEF Crash, NoPass, MeterInv, Typed, Counted, KeptIsHighest, Lost, Carried, BookedOnce, Keeps, Carries

\* What keeps the readings, keeps the invariant.
LEMMA SameReadings ==
  ASSUME MeterInv, Typed', UNCHANGED <<stage, tokens, last, booked, read>>,
         \A j \in Pass : pass'[j].reading = pass[j].reading /\ pass'[j].at = pass[j].at
  PROVE  MeterInv'
<1>1. \A u \in Url, p \in Proc : Keeps(u, p)' = Keeps(u, p)
  BY DEF Keeps
<1>2. \A j \in Pass, p \in Proc : Carries(j, p)' = Carries(j, p)
  BY DEF Carries
<1>3. Counted' /\ BookedOnce'
  BY DEF MeterInv, Counted, BookedOnce
<1>4. KeptIsHighest' /\ Lost'
  BY <1>1, <1>2 DEF MeterInv, KeptIsHighest, Lost
<1>5. Carried'
  <2>. SUFFICES ASSUME NEW j \in Pass, NEW p \in Proc, Carries(j, p)
                PROVE  /\ pass[j].at \in UrlsOf[p] /\ pass[j].at # Nothing /\ stage[p] # "off"
                       /\ read[p] <= pass[j].reading.count /\ pass[j].reading.count <= tokens[p]
                       /\ \A q \in Proc \ {p} : Keeps(pass[j].at, q)' => stage[q] = "gone"
    BY <1>2 DEF Carried
  <2>. QED
    BY DEF MeterInv, Carried, Keeps
<1>. QED
  BY <1>3, <1>4, <1>5 DEF MeterInv

LEMMA BeginStep ==
  ASSUME MeterInv, NEW i \in Pass, Begin(i)
  PROVE  MeterInv'
<1>1. [k \in Backend |-> url[k]] \in Seq(Url)
  <2>1. [k \in Backend |-> url[k]] \in [1..Backends -> Url]
    BY DEF MeterInv, Typed, Backend
  <2>. QED
    BY <2>1, SeqDef, MeterAssumption
<1>2. \A j \in Pass : pass'[j].reading = pass[j].reading /\ pass'[j].at = pass[j].at
  BY DEF Begin, NoPass, MeterInv, Typed
<1>3. Typed'
  BY <1>1 DEF Begin, MeterInv, Typed
<1>. QED
  BY <1>2, <1>3, SameReadings DEF Begin

\* A reading is taken of a process that is up, so those kept at its URL of others are not.
LEMMA ScrapeStep ==
  ASSUME MeterInv, NEW i \in Pass, Scrape(i)
  PROVE  MeterInv'
<1>. DEFINE u == Head(pass[i].left)
<1>. USE MeterAssumption DEF MeterInv
<1>1. u \in Url /\ Tail(pass[i].left) \in Seq(Url)
  BY DEF Scrape, Typed
<1>2. ASSUME NEW p \in Serving(u),
             pass' = [pass EXCEPT ![i] = [left |-> Tail(@.left), at |-> u,
                                          reading |-> [of |-> p, count |-> tokens[p]]]]
      PROVE  MeterInv'
  <2>1. p \in Proc /\ stage[p] = "up" /\ u \in UrlsOf[p]
    BY DEF Serving
  <2>2. pass'[i].reading = [of |-> p, count |-> tokens[p]] /\ pass'[i].at = u
    BY <1>2 DEF Typed
  <2>3. \A j \in Pass \ {i} : pass'[j] = pass[j]
    BY <1>2 DEF Typed
  <2>4. Typed'
    BY <1>1, <1>2, <2>1 DEF Scrape, Typed
  <2>5. Counted' /\ KeptIsHighest' /\ BookedOnce'
    BY DEF Scrape, Counted, KeptIsHighest, BookedOnce, Keeps
  <2>6. Lost'
    BY <2>1, <2>2, <2>3 DEF Scrape, Lost, Keeps, Carries
  <2>7. \A q \in Proc \ {p} : Keeps(u, q) => stage[q] = "gone"
    BY <1>1, <2>1 DEF KeptIsHighest, Counted, Typed
  <2>8. Carried'
    <3>. SUFFICES ASSUME NEW j \in Pass, NEW q \in Proc, Carries(j, q)'
                  PROVE  /\ pass'[j].at \in UrlsOf[q] /\ pass'[j].at # Nothing /\ stage[q] # "off"
                         /\ read[q] <= pass'[j].reading.count /\ pass'[j].reading.count <= tokens[q]
                         /\ \A o \in Proc \ {q} : Keeps(pass'[j].at, o) => stage[o] = "gone"
      BY DEF Scrape, Carried, Keeps
    <3>1. CASE j = i
      BY <1>1, <2>1, <2>2, <2>7, <3>1 DEF Carries, Counted, Typed
    <3>2. CASE j # i
      BY <2>3, <3>2 DEF Carries, Carried
    <3>. QED
      BY <3>1, <3>2
  <2>. QED
    BY <2>4, <2>5, <2>6, <2>8
<1>3. ASSUME pass' = [pass EXCEPT ![i].left = Tail(@)]
      PROVE  MeterInv'
  <2>1. \A j \in Pass : pass'[j].reading = pass[j].reading /\ pass'[j].at = pass[j].at
    BY <1>3 DEF Typed
  <2>2. pass' \in [Pass -> [left : Seq(Url), reading : Readings \cup {Nothing}, at : Url \cup {Nothing}]]
    BY <1>1, <1>3 DEF Typed
  <2>3. Typed'
    BY <2>2 DEF Scrape, Typed
  <2>. QED
    BY <2>1, <2>3, SameReadings DEF Scrape
<1>. QED
  BY <1>2, <1>3 DEF Scrape

\* The heart of it: what the reading of a process is compared with.
LEMMA RecordBooks ==
  ASSUME MeterInv, NEW i \in Pass, pass[i].reading # Nothing
  PROVE  LET r == pass[i].reading IN
         /\ CounterDelta(Previous(pass[i].at, r), r) = r.count - read[r.of]
         /\ read[r.of] <= r.count
         /\ \A v \in Url : Keeps(v, r.of) => v = pass[i].at \/ v \in Moved(pass[i].at, r)
<1>. DEFINE r == pass[i].reading
            u == pass[i].at
<1>. USE MeterAssumption DEF MeterInv
<1>1. r \in Readings /\ u \in Url /\ Carries(i, r.of)
  BY DEF Typed, Carries, Carried
<1>2. read[r.of] <= r.count /\ read[r.of] \in Nat
  BY <1>1 DEF Typed, Carried
<1>3. CASE Keeps(u, r.of)
  <2>1. Moved(u, r) = {}
    BY <1>3 DEF Moved, Keeps
  <2>2. last[u].of = r.of /\ last[u].count = read[r.of] /\ last[u] # Nothing
    BY <1>1, <1>3 DEF KeptIsHighest, Keeps
  <2>3. \A v \in Url : Keeps(v, r.of) => v = u
    BY <1>1, <1>3 DEF KeptIsHighest
  <2>. QED
    BY <1>1, <1>2, <2>1, <2>2, <2>3 DEF Previous, CounterDelta
<1>4. CASE ~Keeps(u, r.of) /\ \E v \in Url : Keeps(v, r.of)
  <2>1. Moved(u, r) = {v \in Url \ {u} : Keeps(v, r.of)}
    BY <1>4 DEF Moved, Elsewhere, Keeps
  <2>2. Moved(u, r) # {}
    BY <1>4, <2>1
  <2>. DEFINE w == CHOOSE v \in Moved(u, r) : TRUE
  <2>3. w \in Moved(u, r)
    BY <2>2
  <2>4. last[w].of = r.of /\ last[w].count = read[r.of] /\ last[w] # Nothing
    <3>1. ASSUME NEW v \in Url, Keeps(v, r.of)
          PROVE  last[v].of = r.of /\ last[v].count = read[r.of] /\ last[v] # Nothing
      BY <1>1, <3>1 DEF KeptIsHighest, Keeps
    <3>. QED
      BY <2>1, <2>3, <3>1
  <2>5. Previous(u, r) = last[w]
    BY <2>2 DEF Previous
  <2>6. CounterDelta(Previous(u, r), r) = r.count - read[r.of]
    BY <1>1, <1>2, <2>4, <2>5 DEF CounterDelta
  <2>. QED
    BY <1>2, <1>4, <2>1, <2>6
<1>5. CASE \A v \in Url : ~Keeps(v, r.of)
  <2>1. read[r.of] = 0
    BY <1>1, <1>5 DEF Lost
  <2>2. Moved(u, r) = {}
    BY <1>5 DEF Moved, Elsewhere, Keeps
  <2>3. Previous(u, r) = last[u]
    BY <2>2 DEF Previous
  <2>4. last[u] = Nothing \/ last[u].of # r.of
    BY <1>1, <1>5 DEF Keeps
  <2>. QED
    BY <1>1, <1>2, <1>5, <2>1, <2>3, <2>4 DEF CounterDelta
<1>. QED
  BY <1>3, <1>4, <1>5

LEMMA RecordStep ==
  ASSUME MeterInv, OnePass, NEW i \in Pass, Record(i)
  PROVE  MeterInv'
<1>. USE MeterAssumption DEF MeterInv
<1>. PICK r, u, p : r = pass[i].reading /\ u = pass[i].at /\ p = r.of
  OBVIOUS
<1>1. /\ r \in Readings /\ r # Nothing /\ u \in Url /\ p \in Proc /\ Carries(i, p)
      /\ u \in UrlsOf[p] /\ stage[p] # "off" /\ read[p] <= r.count /\ r.count <= tokens[p]
      /\ \A q \in Proc \ {p} : Keeps(u, q) => stage[q] = "gone"
  BY DEF Record, Typed, Carries, Carried
<1>2. /\ CounterDelta(Previous(u, r), r) = r.count - read[p]
      /\ \A v \in Url : Keeps(v, p) => v = u \/ v \in Moved(u, r)
  BY RecordBooks DEF Record
<1>3. \A j \in Pass : pass'[j].reading = Nothing
  BY DEF Record, OnePass, Typed
<1>4. \A q \in Proc : /\ read'[q] = IF q = p THEN r.count ELSE read[q]
                      /\ booked'[q] = read'[q]
  BY <1>1, <1>2 DEF Record, Typed, BookedOnce
<1>5. \A v \in Url : v # u => v \in Moved(u, r) \/ last'[v] = last[v]
  BY DEF Record
<1>6. last'[u] = r /\ \A v \in Url \ {u} : v \in Moved(u, r) => last'[v] = Nothing
  BY <1>1 DEF Record
<1>7. \A v \in Moved(u, r) : Keeps(v, p)
  BY DEF Moved, Elsewhere, Keeps
<1>8. \A q \in Proc, v \in Url : Keeps(v, q)' <=> IF v = u THEN q = p ELSE q # p /\ Keeps(v, q)
  <2>. SUFFICES ASSUME NEW q \in Proc, NEW v \in Url
                PROVE  Keeps(v, q)' <=> IF v = u THEN q = p ELSE q # p /\ Keeps(v, q)
    OBVIOUS
  <2>1. CASE v = u
    BY <1>1, <1>6, <2>1 DEF Keeps
  <2>2. CASE v # u /\ v \in Moved(u, r)
    BY <1>6, <1>7, <2>2 DEF Keeps
  <2>3. CASE v # u /\ v \notin Moved(u, r)
    BY <1>2, <1>5, <2>3 DEF Keeps
  <2>. QED
    BY <2>1, <2>2, <2>3
<1>9. Typed'
  <2>1. pass' \in [Pass -> [left : Seq(Url), reading : Readings \cup {Nothing}, at : Url \cup {Nothing}]]
    BY ZenonT(40) DEF Record, Typed
  <2>2. last' \in [Url -> Readings \cup {Nothing}]
    BY <1>1 DEF Record, Typed
  <2>3. booked' \in [Proc -> Nat] /\ read' \in [Proc -> Nat]
    BY <1>1, <1>2 DEF Record, Typed
  <2>. QED
    BY <2>1, <2>2, <2>3 DEF Record, Typed
<1>0. UNCHANGED <<stage, tokens>>
  BY DEF Record
<1>10. Counted' /\ BookedOnce'
  <2>1. ASSUME NEW q \in Proc PROVE read'[q] <= tokens[q] /\ (stage[q] = "off" => read'[q] = 0)
    BY <1>1, <1>4 DEF Counted
  <2>. QED
    BY <1>0, <1>4, <2>1 DEF Counted, BookedOnce
<1>11. KeptIsHighest'
  <2>. SUFFICES ASSUME NEW v \in Url, NEW q \in Proc, Keeps(v, q)'
                PROVE  /\ v \in UrlsOf[q] /\ stage[q] # "off" /\ last'[v].count = read'[q]
                       /\ \A x \in Url : Keeps(x, q)' => x = v
    BY <1>0 DEF KeptIsHighest
  <2>1. CASE v = u
    BY <1>1, <1>4, <1>6, <1>8, <2>1
  <2>2. CASE v # u
    <3>1. q # p /\ Keeps(v, q)
      BY <1>8, <2>2
    <3>2. last'[v] = last[v]
      BY <1>5, <1>7, <2>2, <3>1 DEF Keeps
    <3>. QED
      BY <1>4, <1>8, <3>1, <3>2 DEF KeptIsHighest
  <2>. QED
    BY <2>1, <2>2
<1>12. Lost'
  <2>. SUFFICES ASSUME NEW q \in Proc, \A v \in Url : ~Keeps(v, q)'
                PROVE  read'[q] = 0 \/ stage[q] = "gone"
    BY <1>3 DEF Lost, Carries, Record
  <2>1. q # p
    BY <1>1, <1>8
  <2>2. \A v \in Url \ {u} : ~Keeps(v, q)
    BY <1>8, <2>1
  <2>. QED
    BY <1>1, <1>4, <2>1, <2>2 DEF Lost
<1>13. Carried'
  BY <1>3 DEF Carried, Carries
<1>. QED
  BY <1>9, <1>10, <1>11, <1>12, <1>13

LEMMA MeterStep == MeterInv /\ OnePass /\ [MeterNext]_meterVars => MeterInv'
<1>. SUFFICES ASSUME MeterInv, OnePass, [MeterNext]_meterVars PROVE MeterInv'
  OBVIOUS
<1>1. CASE UNCHANGED meterVars
  <2>1. Typed'
    BY <1>1 DEF meterVars, MeterInv, Typed
  <2>. QED
    BY <1>1, <2>1, SameReadings DEF meterVars
<1>2. CASE MeterNext
  BY <1>2, ProcessStep, ConfigureStep, BeginStep, ScrapeStep, RecordStep, CrashStep DEF MeterNext
<1>. QED
  BY <1>1, <1>2

\* Whatever is restarted, moved or edited, each token of a process is booked once, up to its
\* last reading, if passes do not overlap.
THEOREM TokensBookedOnce ==
  ASSUME OnePass PROVE MeterSpec => []BookedOnce
<1>1. MeterInit => MeterInv
  BY MeterInvStarts
<1>2. MeterInv /\ [MeterNext]_meterVars => MeterInv'
  BY MeterStep
<1>3. MeterInv => BookedOnce
  BY DEF MeterInv
<1>. QED
  BY <1>1, <1>2, <1>3, PTL DEF MeterSpec
=============================================================================
