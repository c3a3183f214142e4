------------------------------ MODULE LabShare ------------------------------
(***************************************************************************)
(* The lab gallery's public shares: backend/src/lab/store.ts behind the    *)
(* controller's routes, and scripts/lab-site-build.ts, which reads the     *)
(* same directories from another process.                                  *)
(*                                                                         *)
(* A handler of the controller runs to its end before the next one starts; *)
(* its steps are told apart since the builder reads between them, and an   *)
(* I/O error or the end of the process may cut it after any of them.       *)
(***************************************************************************)
EXTENDS FiniteSets

CONSTANTS
  Run,     \* ids of lab runs
  Slug,    \* random slugs: a fresh one is one never drawn
  None

ASSUME LabAssumption ==
  /\ None \notin Run \cup Slug
  /\ Slug \cap {"none", "torn", "private"} = {}

VARIABLES
  art,     \* art[r]: what the run's artifacts are: "page" (they have an HTML
           \* file), "plain" (none), "secret" (a scanned file looks like one)
  meta,    \* meta[r]: share of lab-runs/<r>/meta.json: "none" (no file),
           \* "torn" (not JSON), "private", or the slug it is public under
  pub,     \* pub[s]: lab-public/<s>: "absent", "partial" or "whole"
  of,      \* of[s]: the run that drew the slug s
  op,      \* the handler under way
  cut,     \* cut[s]: a publish of s was cut: the "first" one, or a later one
           \* or an unpublish ("again")
  build,   \* the process of lab-site-build: directories to do, the one it looks at
  dist,    \* dist[s]: site/dist/dgx/.../<s>
  seen,    \* slugs that were public, or about to be, since the build began
  steady   \* slugs that were public and whole all the time since then

labVars == <<art, meta, pub, of, op, cut>>
siteVars == <<build, dist>>
vars == <<labVars, siteVars, seen, steady>>

Files == {"absent", "partial", "whole"}
Idle == [at |-> "idle", run |-> None, public |-> FALSE, slug |-> None, again |-> FALSE]
NoBuild == [at |-> "off", todo |-> {}, looks |-> None]

TypeOK ==
  /\ art \in [Run -> {"page", "plain", "secret"}]
  /\ meta \in [Run -> {"none", "torn", "private"} \cup Slug]
  /\ pub \in [Slug -> Files] /\ dist \in [Slug -> Files]
  /\ of \in [Slug -> Run \cup {None}]
  /\ op \in [at : {"idle", "saving", "removing", "copying", "whole", "writing"},
             run : Run \cup {None}, public : BOOLEAN, slug : Slug \cup {None}, again : BOOLEAN]
  /\ cut \in [Slug -> {"no", "first", "again"}]
  /\ build \in [at : {"off", "on", "built"}, todo : SUBSET Slug, looks : Slug \cup {None}]
  /\ seen \subseteq Slug /\ steady \subseteq Slug

Init ==
  /\ art \in [Run -> {"page", "plain", "secret"}]
  /\ meta = [r \in Run |-> "none"]
  /\ pub = [s \in Slug |-> "absent"] /\ dist = [s \in Slug |-> "absent"]
  /\ of = [s \in Slug |-> None] /\ cut = [s \in Slug |-> "no"]
  /\ op = Idle /\ build = NoBuild
  /\ seen = {} /\ steady = {}

Named(s) == \E r \in Run : meta[r] = s
Fresh == {s \in Slug : of[s] = None}
-----------------------------------------------------------------------------
(* The handlers                                                            *)

Goto(at) == op' = [op EXCEPT !.at = at]

\* scanArtifactsForSecrets: an import or a publish of such artifacts is refused,
\* and so is an unpublish.
Scanned(r) == art[r] # "secret"

\* publishLabRun: a run keeps the slug it has.
Publish(r) ==
  \E s \in IF meta[r] \in Slug THEN {meta[r]} ELSE Fresh :
    /\ op' = [at |-> IF pub[s] = "absent" THEN "copying" ELSE "removing",
              run |-> r, public |-> TRUE, slug |-> s, again |-> meta[r] = s]
    /\ of' = [of EXCEPT ![s] = r]

\* Mistake: only meta.json says that the run is private again.
UnpublishKeepingFiles(r) ==
  /\ op' = [at |-> "whole", run |-> r, public |-> FALSE,
            slug |-> IF meta[r] \in Slug THEN meta[r] ELSE None, again |-> meta[r] \in Slug]
  /\ UNCHANGED of

Unpublish(r) ==
  /\ op' = [at |-> IF meta[r] \in Slug THEN "removing" ELSE "whole", run |-> r, public |-> FALSE,
            slug |-> IF meta[r] \in Slug THEN meta[r] ELSE None, again |-> meta[r] \in Slug]
  /\ UNCHANGED of

\* POST /lab/runs/:id/share, of a run whose meta.json can be read.
Share(r, public) ==
  /\ op.at = "idle" /\ meta[r] \notin {"none", "torn"} /\ Scanned(r)
  /\ IF public THEN Publish(r) ELSE Unpublish(r)
  /\ UNCHANGED <<art, meta, pub, cut>>

\* POST /lab/runs/import: what it copies before meta.json is there, nobody lists.
Import(r, share) ==
  /\ op.at = "idle" /\ meta[r] = "none" /\ Scanned(r)
  /\ op' = [Idle EXCEPT !.at = "saving", !.run = r, !.public = share]
  /\ meta' = [meta EXCEPT ![r] = "torn"]
  /\ UNCHANGED <<art, pub, of, cut>>

\* Its first meta.json; share_public goes on to publishLabRun.
Saved ==
  /\ op.at = "saving"
  /\ meta' = [meta EXCEPT ![op.run] = "private"]
  /\ IF op.public THEN Publish(op.run) ELSE op' = Idle /\ UNCHANGED of
  /\ UNCHANGED <<art, pub, cut>>

\* rmrf of the slug's directory.
Remove ==
  /\ op.at = "removing"
  /\ IF pub[op.slug] = "whole"
       THEN pub' = [pub EXCEPT ![op.slug] = "partial"] /\ UNCHANGED op
       ELSE /\ pub' = [pub EXCEPT ![op.slug] = "absent"]
            /\ Goto(IF op.public THEN "copying" ELSE "whole")
  /\ UNCHANGED <<art, meta, of, cut>>

\* mkdir; copyTree, index.html and share.json.
Copy ==
  /\ op.at = "copying"
  /\ IF pub[op.slug] = "absent"
       THEN pub' = [pub EXCEPT ![op.slug] = "partial"] /\ UNCHANGED op
       ELSE pub' = [pub EXCEPT ![op.slug] = "whole"] /\ Goto("whole")
  /\ UNCHANGED <<art, meta, of, cut>>

\* writeMeta: writeFileSync empties the file and writes it.
Truncate ==
  /\ op.at = "whole"
  /\ meta' = [meta EXCEPT ![op.run] = "torn"]
  /\ Goto("writing")
  /\ UNCHANGED <<art, pub, of, cut>>
Written ==
  /\ op.at = "writing"
  /\ meta' = [meta EXCEPT ![op.run] = IF op.public THEN op.slug ELSE "private"]
  /\ cut' = [s \in Slug |-> IF s = op.slug THEN "no" ELSE cut[s]]
  /\ op' = Idle
  /\ UNCHANGED <<art, pub, of>>

\* An I/O call raises, which the route answers with 400, or the process ends.
Cut ==
  /\ op.at # "idle"
  /\ op' = Idle
  /\ cut' = [s \in Slug |-> IF s # op.slug THEN cut[s] ELSE IF op.again THEN "again" ELSE "first"]
  /\ UNCHANGED <<art, meta, pub, of>>

Handler == Saved \/ Remove \/ Copy \/ Truncate \/ Written \/ Cut
Request == \E r \in Run, b \in BOOLEAN : Share(r, b) \/ Import(r, b)

Lab ==
  /\ Request \/ Handler
  /\ seen' = seen \cup {s \in Slug : Named(s)' \/ op'.slug = s}
  /\ steady' = {s \in steady : Named(s)' /\ pub'[s] = "whole"}
  /\ UNCHANGED siteVars
-----------------------------------------------------------------------------
(* lab-site-build, of all slugs (a build of one slug is wiped by the next   *)
(* deploy), and lab-site-deploy.sh, which pushes what a build left.         *)

Listed == {s \in Slug : pub[s] # "absent"}
Begun(s) ==
  /\ build' = [at |-> "on", todo |-> s, looks |-> None]
  /\ seen' = {t \in Slug : Named(t) \/ op.slug = t}
  /\ steady' = {t \in Slug : Named(t) /\ pub[t] = "whole"}

\* Mistake: the site is not wiped, as with --slug.
BuildStartMerging ==
  /\ build.at = "off" /\ Listed # {} /\ Begun(Listed)
  /\ UNCHANGED <<labVars, dist>>

\* rmrf(outDir); readdirSync(labPublic).
BuildStart ==
  /\ build.at = "off" /\ Listed # {} /\ Begun(Listed)
  /\ dist' = [s \in Slug |-> "absent"]
  /\ UNCHANGED labVars

Builder == UNCHANGED <<labVars, seen, steady>>

\* A directory without any HTML file is left out.
HasPage(s) == IF pub[s] = "whole" THEN {art[of[s]] = "page"} ELSE BOOLEAN
Look(s) ==
  /\ build.at = "on" /\ build.looks = None /\ s \in build.todo /\ pub[s] # "absent"
  /\ \E page \in HasPage(s) :
       build' = [build EXCEPT !.todo = @ \ {s}, !.looks = IF page THEN s ELSE None]
  /\ UNCHANGED dist /\ Builder

CopyPage ==
  /\ build.looks # None /\ pub[build.looks] # "absent"
  /\ dist' = [dist EXCEPT ![build.looks] = pub[build.looks]]
  /\ build' = [build EXCEPT !.looks = None]
  /\ Builder

\* A directory or a file of it has gone since it was listed: the build raises,
\* and the deploy stops (set -e).
BuildRaises ==
  /\ build.at = "on"
  /\ \E s \in IF build.looks = None THEN build.todo ELSE {build.looks} : pub[s] # "whole"
  /\ build' = NoBuild
  /\ UNCHANGED dist /\ Builder

\* catalog.json and the gallery's index.html.
BuildEnds ==
  /\ build.at = "on" /\ build.looks = None /\ build.todo = {}
  /\ build' = [build EXCEPT !.at = "built"]
  /\ UNCHANGED dist /\ Builder

\* The tree is pushed, or not.
Deploy ==
  /\ build.at = "built"
  /\ build' = NoBuild
  /\ UNCHANGED dist /\ Builder

Site == BuildStart \/ (\E s \in Slug : Look(s)) \/ CopyPage \/ BuildRaises \/ BuildEnds \/ Deploy

Next == Lab \/ Site
Spec == Init /\ [][Next]_vars
-----------------------------------------------------------------------------
\* "Unpublish: deletes public slug tree" (docs, lab share security), and a link the page
\* shows plays.  Whatever is cut: a run is shown public only when its files are all there,
\* and private only when they are gone, unless it is the publish or unpublish of that very
\* slug that was cut, or is under way.  Cut first publishes leave the only files no run is
\* shown to share (or whose run cannot be read any more).
SharesMatch ==
  /\ \A r \in Run :
       meta[r] \in Slug => pub[meta[r]] = "whole" \/ cut[meta[r]] = "again" \/ op.slug = meta[r]
  /\ \A s \in Slug :
       pub[s] # "absent" => meta[of[s]] \in {s, "torn"} \/ cut[s] = "first" \/ op.slug = s

\* "Unpublish in L.A.I.L Lab UI (removes lab-public slug), then lab:site-deploy again": a
\* site that was built shows only what was shared while it was built, and what cut first
\* publishes or torn runs left; and it has, whole, every page that was shared all the time,
\* whatever was published, withdrawn or cut next to the build.
SiteIsPublic ==
  build.at = "built" =>
    /\ \A s \in Slug : dist[s] # "absent" => s \in seen \/ cut[s] = "first" \/ meta[of[s]] = "torn"
    /\ \A s \in steady : art[of[s]] = "page" => dist[s] = "whole"
=============================================================================
