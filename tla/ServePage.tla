------------------------------ MODULE ServePage ------------------------------
(***************************************************************************)
(* The Serve page of the browser (app/server/page.tsx) and the server's    *)
(* side of its two requests: auto-configure, which recommends a form, and  *)
(* Start, whose job checks the form once more before it launches a rank on *)
(* every node (services/serve.py, serve_model).                            *)
(*                                                                         *)
(* Between a recommendation and its Start nodes join and leave, the Hub    *)
(* stops answering, the user edits the form, switches the engine while an  *)
(* answer is on its way, or fills the form from a preset or a card recipe. *)
(***************************************************************************)
EXTENDS Planning, Sequences, SequencesExt

CONSTANTS
  Model, None,
  Worlds,      \* what the models of an instance are, each way a function of Model
  Presets,     \* the vLLM presets of the page: a model, its backend and its sequences
  Local,       \* the node of the serve-engine, always online
  Others,      \* the other nodes, in the order the cluster lists them
  MaxSteps,    \* bound: steps of the user
  MaxChanges   \* bound: nodes joining or leaving, the Hub starting or ceasing to answer

\* What of a checkpoint and its recipes is a number, and what is a list.
Recipe == [at : DOMAIN Section, moe : STRING, kv : STRING, image : Nat, quant : BOOLEAN,
           cute : BOOLEAN, window : Nat, seqs : Nat, mtp : BOOLEAN, foreign : BOOLEAN]
Described(f) ==
  /\ {f.size, f.index, f.heuristic, f.floor, f.native, f.pin, f.ranks, f.vendorTp} \subseteq Nat
  /\ IsFiniteSet(f.files) /\ \A b \in f.files : b.gib \in Nat
  /\ f.shape \in [layers : Nat, attending : Nat, heads : Nat, dim : Nat]
  /\ f.recipes \cup f.vendor \subseteq Recipe /\ IsFiniteSet(f.recipes \cup f.vendor)
  /\ f.overlay \in [kind : {"none", "gap", "owning"}, moe : STRING, kv : STRING, image : Nat,
                    window : Nat, seqs : Nat, mtp : BOOLEAN]

ASSUME PageAssumption ==
  /\ \A w \in Worlds : DOMAIN w = Model /\ \A m \in Model : Described(w[m])
  /\ \A x \in Presets : x.model \in Model
  /\ Others \in Seq(Range(Others)) /\ IsInjective(Others) /\ Local \notin Range(Others)

VARIABLES
  facts,    \* facts[m]: what the Hub holds of model m
  online,   \* the nodes the sampler lists as online
  hub,      \* the Hub answers
  cached,   \* models in the local cache
  engine,   \* the engine the page has selected
  form,     \* its fields
  rec,      \* the recommendation the page shows
  asked,    \* the auto-configure request under way, and its answer
  job,      \* the serve job the page tracks
  steps, changes

page == <<engine, form, rec, asked>>
world == <<online, hub, cached>>
vars == <<facts, online, hub, cached, engine, form, rec, asked, job, steps, changes>>

Node == {Local} \cup Range(Others)
\* _cluster_topology: the other nodes that are online, in their order.
Workers ==
  LET upto[k \in 0..Len(Others)] ==
        IF k = 0 THEN <<>>
        ELSE IF Others[k] \in online THEN Append(upto[k - 1], Others[k]) ELSE upto[k - 1]
  IN upto[Len(Others)]
Avail == Cardinality(online)

Blank == [model |-> None, moe |-> "", image |-> NoImage, window |-> 0, seqs |-> 0, util |-> 0, tp |-> 0]
Fields == {"moe", "image", "window", "seqs", "util", "tp"}

\* The fields an engine's adapter turns into flags; the image is not one of them.
TranslatesButRanks ==
  [vllm |-> Fields \ {"tp"}, sglang |-> Fields \ {"moe"}, llamacpp |-> {"image", "window"},
   tensorfold |-> {"image", "window"}]

Translates ==
  [vllm |-> Fields, sglang |-> Fields \ {"moe"}, llamacpp |-> {"image", "window"},
   tensorfold |-> {"image", "window", "tp"}]

Init ==
  /\ facts \in Worlds
  /\ online \in {{Local} \cup S : S \in SUBSET Range(Others)}
  /\ hub = TRUE /\ cached \in SUBSET Model
  /\ engine = "vllm" /\ form = Blank /\ rec = None /\ asked = None /\ job = None
  /\ steps = 0 /\ changes = 0

Step == steps < MaxSteps /\ steps' = steps + 1 /\ UNCHANGED changes

JobRunning == job # None /\ job.stage # "refused"

-----------------------------------------------------------------------------
\* The form.

Type(m) ==
  /\ Step /\ form' = [form EXCEPT !.model = m]
  /\ UNCHANGED <<facts, world, engine, rec, asked, job>>

TypeTp(n) ==
  /\ Step /\ form' = [form EXCEPT !.tp = n]
  /\ UNCHANGED <<facts, world, engine, rec, asked, job>>

\* selectEngine clears what the old engine's recipe filled; the model stays.
SelectEngine(e) ==
  /\ Step /\ ~JobRunning /\ e # engine
  /\ engine' = e /\ form' = [Blank EXCEPT !.model = form.model] /\ rec' = None
  /\ UNCHANGED <<facts, world, asked, job>>

ClearForm ==
  /\ Step /\ form' = Blank /\ rec' = None
  /\ UNCHANGED <<facts, world, engine, asked, job>>

\* applyConfig: image, window, utilisation and rank count stay when the recipe has none.
Filled(old, r) ==
  [old EXCEPT !.moe = r.moe, !.seqs = r.seqs, !.image = Default(r.image, @), !.window = Default(r.window, @)]
Applied(old, cfg) ==
  [Filled(old, cfg) EXCEPT !.tp = Default(cfg.tp, @), !.util = Default(cfg.util, @)]

\* A preset is a vLLM recipe without image, window, utilisation and rank count.
ApplyExample(x) ==
  /\ Step
  /\ engine' = "vllm"
  /\ form' = [(IF engine = "vllm" THEN form ELSE Blank)
                EXCEPT !.model = x.model, !.moe = x.moe, !.seqs = x.seqs]
  /\ rec' = None
  /\ UNCHANGED <<facts, world, asked, job>>

\* "Apply" beside one of the card's recipes.
ApplyRecipe(r) ==
  /\ Step
  /\ form' = Filled(form, r)
  /\ UNCHANGED <<facts, world, engine, rec, asked, job>>

-----------------------------------------------------------------------------
\* Auto-configure.

Ask ==
  /\ Step /\ asked = None /\ form.model # None
  /\ asked' = [model |-> form.model, engine |-> engine, answer |-> None]
  /\ UNCHANGED <<facts, world, engine, form, rec, job>>

Recipes(m, how) == {c.recipe : c \in Candidates(facts[m], Analyze(facts[m], how), how, hub)}

\* The server's answer, with the nodes it was computed for.
Answer(r) ==
  LET m == asked.model
      how == Known(hub, m \in cached)
  IN [model |-> m, engine |-> asked.engine, nodes |-> online, known |-> how, byHub |-> hub,
      moe |-> r.moe, kv |-> r.kv, image |-> r.image, window |-> r.window, seqs |-> r.seqs, util |-> r.util,
      tp |-> r.tp, weights |-> r.weights, blocked |-> r.blocked,
      recipes |-> IF asked.engine = "vllm" THEN Recipes(m, how) ELSE {}]

Compute ==
  /\ asked # None /\ asked.answer = None
  /\ \E r \in {Recommend(facts[asked.model], asked.engine, hub, asked.model \in cached, Avail)} :
       asked' = [asked EXCEPT !.answer = Answer(r)]
  /\ UNCHANGED <<facts, world, engine, form, rec, job, steps, changes>>

\* The answer fills the form as it is by now.
Show ==
  /\ asked # None /\ asked.answer # None
  /\ rec' = asked.answer
  /\ form' = [Applied(form, asked.answer) EXCEPT !.model = asked.answer.model]
  /\ asked' = None
  /\ UNCHANGED <<facts, world, engine, job, steps, changes>>

AskFails ==
  /\ asked # None
  /\ asked' = None /\ rec' = None
  /\ UNCHANGED <<facts, world, engine, form, job, steps, changes>>

-----------------------------------------------------------------------------
\* Start and the serve job.

Sent(e) == [f \in Fields |-> IF f \in Translates[e] THEN form[f] ELSE Blank[f]]

\* The Start button is off without a model, while the job runs, and while the shown
\* recommendation is blocked.
Start(download) ==
  /\ Step /\ form.model # None /\ ~JobRunning
  /\ rec # None => ~rec.blocked
  /\ job' = [stage |-> "queued", model |-> form.model, engine |-> engine, shown |-> rec,
             body |-> Sent(engine), typed |-> form, kept |-> FALSE, weights |-> 0, nodes |-> {}, ranks |-> <<>>]
  /\ cached' = IF download THEN cached \cup {form.model} ELSE cached
  /\ UNCHANGED <<facts, online, hub, page>>

Tp(j) == Default(j.body.tp, 1)
ImageOf(j) == Default(j.body.image, OwnImage[j.engine])

\* The weights the job measures: its own copy of config.json is the local cache's.
Measured(j) == EstimateWeights(facts[j.model], hub, j.model \in cached)

NodesUsedOfPlan(tp, w) == NodesNeeded(w, Avail)
NodesUsed(tp, w) == Min({tp, Avail})

GuardedById(j) ==
  IF Unsafe(j.body.moe, Analyze(facts[j.model], FALSE), ImageOf(j))
  THEN [j.body EXCEPT !.moe = ""] ELSE j.body

\* The guards drop a backend the checkpoint does not take, as far as the cache tells.
Guarded(j) ==
  IF Unsafe(j.body.moe, Analyze(facts[j.model], j.model \in cached), ImageOf(j))
  THEN [j.body EXCEPT !.moe = ""] ELSE j.body

\* serve_model up to the launch: the engine's rank limit, the fit, the guards, and whether
\* the engine can spread over nodes at all.
Gate ==
  /\ job # None /\ job.stage = "queued"
  /\ LET w == Measured(job)
         passes == /\ TpAllowed(job.engine, Tp(job))
                   /\ Fits(w, NodesUsed(Tp(job), w))
                   /\ Tp(job) >= 2 => job.engine \in Together
     IN job' = [job EXCEPT !.stage = IF passes THEN "gated" ELSE "refused",
                           !.weights = w, !.nodes = online, !.body = Guarded(job),
                           !.kept = job.model \in cached]
  /\ UNCHANGED <<facts, world, page, steps, changes>>

RankNodes(tp, w) == <<Local>> \o SubSeq(Workers, 1, tp - 1)

\* The launch reads the cluster again; a container fetches the model into the cache.
Launch ==
  /\ job # None /\ job.stage = "gated"
  /\ IF Tp(job) >= 2 /\ Avail < Tp(job)
     THEN /\ job' = [job EXCEPT !.stage = "refused", !.nodes = online]
          /\ UNCHANGED cached
     ELSE /\ job' = [job EXCEPT !.stage = "launched", !.ranks = RankNodes(Tp(job), job.weights)]
          /\ cached' = cached \cup {job.model}
  /\ UNCHANGED <<facts, online, hub, page, steps, changes>>

JobEnds ==
  /\ job # None /\ job.stage \in {"refused", "launched"}
  /\ job' = None
  /\ UNCHANGED <<facts, world, page, steps, changes>>

-----------------------------------------------------------------------------
\* The world around.

Change == changes < MaxChanges /\ changes' = changes + 1 /\ UNCHANGED <<facts, page, job, steps>>

Joins(n) == Change /\ n \notin online /\ online' = online \cup {n} /\ UNCHANGED <<hub, cached>>
Leaves(n) == Change /\ n \in online \ {Local} /\ online' = online \ {n} /\ UNCHANGED <<hub, cached>>
HubFlips == Change /\ hub' = ~hub /\ UNCHANGED <<online, cached>>

Next ==
  \/ \E m \in Model : Type(m)
  \/ \E n \in 0..Cardinality(Node) : TypeTp(n)
  \/ \E e \in Engine : SelectEngine(e)
  \/ ClearForm
  \/ \E x \in Presets : ApplyExample(x)
  \/ \E r \in (IF rec = None THEN {} ELSE rec.recipes) : ApplyRecipe(r)
  \/ Ask \/ Compute \/ Show \/ AskFails
  \/ \E d \in BOOLEAN : Start(d)
  \/ Gate \/ Launch \/ JobEnds
  \/ \E n \in Node : Joins(n) \/ Leaves(n)
  \/ HubFlips

Spec == Init /\ [][Next]_vars

-----------------------------------------------------------------------------
\* Properties

\* A form as auto-configure left it, started with the engine it was asked for.
AsRecommended(j) ==
  /\ j.shown # None /\ j.shown.model = j.model /\ j.shown.engine = j.engine
  /\ \A f \in {"tp", "image", "moe"} : j.typed[f] = j.shown[f]

\* A serve is launched on as many different nodes as it asked ranks for, the local one first,
\* and the weights measured at the gate fit exactly those, however the cluster changed
\* between the gate's look at it and the launch's (serve.py:709-767, 838-871).
LaunchFits ==
  job # None /\ job.stage = "launched" =>
    /\ Len(job.ranks) = Tp(job) /\ IsInjective(job.ranks) /\ job.ranks[1] = Local
    /\ Fits(job.weights, Len(job.ranks))

\* "Start and Auto-configure agree" (serve.py:721): a vLLM or TensorFold form that was
\* recommended, not blocked, is not refused while the same nodes are online and the weights
\* measure the same.
RecommendedIsTaken ==
  job # None /\ job.stage = "refused" /\ job.engine \in {"vllm", "tensorfold"} /\ AsRecommended(job)
    => job.nodes # job.shown.nodes \/ job.weights # job.shown.weights

\* And a recommendation is never blocked for weights that fit, however the Hub's
\* repository packs them: "Summing both doubles the weight and falsely serve_blocks a 1-Spark
\* node" (autoconfig.py:1065-1070).
StartAgrees ==
  /\ RecommendedIsTaken
  /\ rec # None /\ rec.blocked /\ rec.byHub /\ rec.engine # "tensorfold"
       => ~Fits(facts[rec.model].size, Cardinality(rec.nodes))

\* An answer that fits leaves the window, the cache and the runtime room within its share.
SizedWell(f, a) ==
  (a.engine = "vllm" /\ ~a.blocked) =>
    LET per == (a.weights * 1024) \div Default(a.tp, 1)
        unit == KvCache(f.shape, Latent(f, a.kv), a.kv)
        kv == a.window * Default(a.seqs, 4) * unit
        share == a.util * Ram * 1024
        half == 512 * Ram
    IN a.known /\ 2 * unit <= Budget(per) /\ Budget(per) >= 8 * 1024 =>
         /\ (per + kv + Pad * 1024) * 100 <= share + half
         /\ share - half <= (Ram - Reserve) * 1024 * 100
         /\ f.native > 0 => a.window <= f.native

\* A vLLM form that fits, of a checkpoint whose config.json is known, holds on every node the
\* weights, the cache of its window and the runtime, within the share of memory it names, and
\* leaves the reserve to the system (half a percent is lost to rounding); its window is one
\* the checkpoint was trained for (autoconfig.py:4754-4960).
SizedAsPromised == rec # None => SizedWell(facts[rec.model], rec)

\* A vLLM recommendation that goes through the first-boot defaults, from a known config.json.
FirstBoots(f, a) == a.engine = "vllm" /\ a.known /\ f.overlay = NoOverlay

\* What auto-configure recommends from a known config.json never forces a MoE backend that
\* crashes this checkpoint on the image it recommends; and Start's own guards, which look in
\* the local cache, neither let one through nor drop the recommended one when config.json is
\* there (autoconfig.py:3827-3990, serve.py:771-824).
BackendIsSafe ==
  /\ rec # None /\ FirstBoots(facts[rec.model], rec)
       => ~Unsafe(rec.moe, Analyze(facts[rec.model], TRUE), rec.image)
  /\ job # None /\ job.stage = "launched" /\ job.engine = "vllm" /\ job.kept
       => /\ ~Unsafe(job.body.moe, Analyze(facts[job.model], TRUE), ImageOf(job))
          /\ AsRecommended(job) /\ FirstBoots(facts[job.model], job.shown)
               => job.body.moe = job.shown.moe

=============================================================================
