------------------------------- MODULE Planning -------------------------------
(***************************************************************************)
(* Auto-configure (services/autoconfig.py, recommend and its siblings):    *)
(* from what the Hub or the local cache tells of a model and from the      *)
(* nodes that are online, the form of a serve for one of four engines, and *)
(* whether Start is blocked because the weights do not fit.                *)
(*                                                                         *)
(* A form's field that is 0 or "" is absent from the recommendation.       *)
(***************************************************************************)
EXTENDS Recipes

Engine == {"vllm", "sglang", "llamacpp", "tensorfold"}
MaxTp == [llamacpp |-> 1, tensorfold |-> 2]          \* the others have no limit
TpAllowed(engine, tp) == engine \in DOMAIN MaxTp => tp <= MaxTp[engine]
Together == Engine \ {"llamacpp"}                    \* has a port for its ranks to meet

\* The image an engine runs when none is named; an engine other than vLLM has its own.
OwnImage == [vllm |-> Lab, sglang |-> 111, llamacpp |-> 112, tensorfold |-> 113]

\* What a source tells: the Hub when it answers, else the copy in the local cache.
Known(hub, kept) == hub \/ kept

-----------------------------------------------------------------------------
\* vLLM, in the order of recommend().

\* The winning recipe fills the form; its image is settled apart.  An overlay that owns its
\* family's path leaves the card out.
CardFilled(f, cands) ==
  IF f.overlay.kind = "owning" \/ Poor(cands) THEN Empty
  ELSE [Best(cands).recipe EXCEPT !.image = NoImage]

\* _apply_checkpoint_safety
Safe(cfg, det) ==
  [cfg EXCEPT !.moe = IF Unsafe(@, det, cfg.image) THEN "" ELSE @,
              !.kv = IF @ = "" /\ (det.nvfp4 \/ det.moe \/ det.fp8) THEN "fp8" ELSE @,
              !.seqs = IF det.moe /\ @ = 0 THEN 4 ELSE @]

NoOverlay == [kind |-> "none", moe |-> "", kv |-> "", image |-> NoImage, window |-> 0, seqs |-> 0, mtp |-> FALSE]

\* The family overlay wins over the card, or only fills the backend and the KV
\* dtype the card left open.
OverlayApplied(cfg, o) ==
  IF o.kind = "none" THEN cfg
  ELSE [cfg EXCEPT !.moe    = IF o.kind = "gap" /\ @ # "" THEN @ ELSE o.moe,
                   !.kv     = IF o.kv = "" \/ (o.kind = "gap" /\ @ # "") THEN @ ELSE o.kv,
                   !.image  = Default(o.image, @),
                   !.window = Default(o.window, @),
                   !.seqs   = Default(o.seqs, @),
                   !.mtp    = IF o.kind = "gap" THEN @ ELSE o.mtp]

\* _apply_first_boot_defaults: no backend but a harmless one or one that suits this
\* checkpoint and image; speculative decoding only with the latter.
FirstBoot(cfg, det) ==
  LET suits == {b \in {"marlin", "b12x"} : ~Unsafe(b, det, cfg.image)}
      moe == IF Unsafe(cfg.moe, det, cfg.image) \/ (det.moe /\ cfg.moe \notin suits \cup {"", "triton"})
             THEN "" ELSE cfg.moe
  IN [cfg EXCEPT !.moe = moe, !.mtp = @ /\ moe \in {"marlin", "b12x"}]

\* _apply_hardware_envelope
Enveloped(cfg, det, tp) ==
  LET least == Default(det.native, WorkflowWindow)
  IN [cfg EXCEPT !.window = IF tp < 2 THEN Min({Default(@, least), WorkflowWindow}) ELSE Default(@, least)]

NativeCapped(window, det) == IF det.native > 0 THEN Min({window, det.native}) ELSE window

\* recommend, up to the sizing: the card's or the cookbook's form, made safe,
\* overlaid, fitted to the node and given an image.
VllmConfig(f, det, config, hub, tp) ==
  LET cands == Candidates(f, det, config, hub)
      card == IF config THEN f.pin ELSE NoImage
      pins == {card} \cup {c.recipe.image : c \in IF cands = {} THEN {} ELSE {Best(cands)}}
      filled == CardFilled(f, cands)
      gated == Safe([filled EXCEPT !.image = ResolveImage(filled, f, det, pins)], det)
      own == OverlayApplied(gated, f.overlay)
      boot == IF f.overlay = NoOverlay THEN FirstBoot(own, det) ELSE own
      wide == Enveloped(boot, det, tp)
  IN [wide EXCEPT !.image = ResolveImage(wide, f, det, IF f.overlay = NoOverlay THEN pins ELSE {}),
                  !.moe = IF @ = "humming" THEN "" ELSE @]

\* And the sizing of form cfg, for weights w on the planned nodes.
VllmSized(cfg, f, det, config, w, plan, tp) ==
  LET kv == KvCache(Shape(f, config, cfg.kv), Latent(f, cfg.kv), cfg.kv)
      size == SizeMemory(NativeCapped(cfg.window, det), cfg.seqs, plan.per, kv)
  IN [moe |-> cfg.moe, kv |-> cfg.kv, image |-> cfg.image, window |-> size.window, seqs |-> size.seqs,
      util |-> size.util, tp |-> tp, weights |-> w, blocked |-> ~plan.fits]

RecommendVllm(f, hub, kept, avail) ==
  LET config == Known(hub, kept)
      det == Analyze(f, config)
      w == EstimateWeights(f, hub, config)
      plan == PlanPlacement(w, avail)
      tp == IF plan.nodes >= 2 THEN plan.nodes ELSE 0
  IN VllmSized(VllmConfig(f, det, config, hub, tp), f, det, config, w, plan, tp)

-----------------------------------------------------------------------------
\* The other engines.

\* _engine_form: a single rank names no tensor-parallel size.
EngineForm(engine, window, util, tp, w, blocked) ==
  [moe |-> "", kv |-> "", image |-> OwnImage[engine], window |-> window, seqs |-> 0, util |-> util,
   tp |-> IF tp >= 2 THEN tp ELSE 0, weights |-> w, blocked |-> blocked]

\* recommend_llamacpp: one node whatever the plan says, a window of f16 cache beside all the
\* weights, whatever the family; the local cache is not asked.
RecommendLlamacpp(f, hub, avail) ==
  LET w == EstimateWeights(f, hub, hub)
      left == (Ram - w - Reserve - Pad) * 1024
      native == IF hub THEN f.native ELSE 0
      rungs == {n \in {native} \cup {l \in Ladder : l < native} : n * KvCache(Shape(f, hub, "f16"), FALSE, "f16") <= left}
      window == IF native = 0 THEN 1 ELSE Max({Min({1, native})} \cup rungs)
  IN EngineForm("llamacpp", window, 0, 1, w, ~PlanPlacement(w, avail).fits)

\* recommend_sglang: the vendor's rank count stays when the plan has as many nodes.
RecommendSglang(f, hub, kept, avail) ==
  LET w == EstimateWeights(f, hub, Known(hub, kept))
      det == Analyze(f, Known(hub, kept))
      plan == PlanPlacement(w, avail)
      left == (Ram - Reserve - Pad) * 1024 - plan.per
      rungs == {l \in Ladder : l <= det.native /\ l * 256 <= left}
      window == IF det.native = 0 THEN 0 ELSE Min({det.native, Max({1} \cup rungs)})
      vendor == IF Known(hub, kept) THEN f.vendorTp ELSE 0
      tp == IF vendor \in 1..plan.nodes THEN vendor ELSE plan.nodes
  IN EngineForm("sglang", window, RecommendedUtil(plan.per, 0), tp, w, ~plan.fits)

\* recommend_tensorfold: some families need more ranks than their weights do.
RecommendTensorfold(f, hub, kept, avail) ==
  LET w == EstimateWeights(f, hub, Known(hub, kept))
      plan == PlanPlacement(w, avail)
      tp == Max({plan.nodes, f.ranks})
      blocked == ~plan.fits \/ ~TpAllowed("tensorfold", tp) \/ tp > avail \/ ~Fits(w, tp)
  IN EngineForm("tensorfold", 0, 0, tp, w, blocked)

\* GET /serve/recommend
Recommend(f, engine, hub, kept, avail) ==
  CASE engine = "vllm"       -> RecommendVllm(f, hub, kept, avail)
    [] engine = "sglang"     -> RecommendSglang(f, hub, kept, avail)
    [] engine = "llamacpp"   -> RecommendLlamacpp(f, hub, avail)
    [] engine = "tensorfold" -> RecommendTensorfold(f, hub, kept, avail)

=============================================================================
