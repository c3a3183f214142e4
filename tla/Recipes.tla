------------------------------- MODULE Recipes -------------------------------
(***************************************************************************)
(* What auto-configure knows of a checkpoint and of its recipes            *)
(* (services/autoconfig.py): the layout config.json and the model's id     *)
(* tell, the serve commands on the model card and on vendor pages, their   *)
(* scores, and which MoE backends crash on which image.                    *)
(*                                                                         *)
(* A recipe is the flags the later steps look at, kv for its               *)
(* --kv-cache-dtype; parsers, environment and extra flags are left out,    *)
(* "quant" and "cute" stand for them where they make a recipe worth more.  *)
(* An image is the minor version of the stock vLLM image, or one of the    *)
(* named others.                                                           *)
(***************************************************************************)
EXTENDS Placement

CONSTANT Lab    \* the lab's stock image (SPARK_VLLM_IMAGE / LAB_VLLM_IMAGE_MAX)

NoImage == 0
Playbook == 101     \* an NVIDIA playbook tag that is not a version (gemma4-cu130)
Anemll == 102       \* the overlay's own build
Foreign == 103      \* another repository's image
Stock(image) == image \in 1..100

ASSUME LabAssumption == Stock(Lab)

Empty == [moe |-> "", kv |-> "", image |-> NoImage, window |-> 0, seqs |-> 0, mtp |-> FALSE]

\* analyze_config: the id alone names a layout; config.json, when there is one, tells the rest.
Analyze(f, config) ==
  LET layout == f.named \cup (IF config THEN f.layout ELSE {})
      method == IF config THEN f.method ELSE "none"
  IN [family |-> f.family, native |-> IF config THEN f.native ELSE 0,
      moe |-> "moe" \in layout, nvfp4 |-> "nvfp4" \in layout, fp8 |-> "fp8" \in layout,
      method |-> method,
      mixed |-> {"nvfp4", "fp8"} \subseteq layout /\ method \in {"compressed", "modelopt"}]

\* One latent vector a layer and token: by the family, or by the dtype of the cache.
Latent(f, kv) == f.family = "deepseek" \/ kv \in {"fp8_ds_mla", "nvfp4_ds_mla"}

\* Without config.json, a shape that is taken for granted.
Shape(f, config, kv) ==
  IF config THEN f.shape
  ELSE [layers |-> IF Latent(f, kv) THEN 60 ELSE 32, attending |-> 0, heads |-> 8, dim |-> 512]

-----------------------------------------------------------------------------
\* What a checkpoint weighs.  A file of the repository stands for all parts of one dump of
\* the weights: its format, which dump it is, and its GiB; a GGUF's dump is its place in the
\* list of preferred quants, 0 for a sidecar.

Total(files) == MapThenSumSet(LAMBDA b : b.gib, files)
Part(files, dump) == {b \in files : b.dump = dump}

Safetensors(files) ==
  IF \E b \in files : b.format = "safetensors" THEN {b \in files : b.format = "safetensors"} ELSE files

\* Mistake: every dump of the same tensors is counted.
AllWeightBlobs(files) == files

\* One dump of the tensors, and the files beside it; without a dump of a known name, all.
SelectWeightBlobs(files) ==
  LET dumps == <<"shards", "consolidated", "single">>
      has == {i \in 1..3 : Part(files, dumps[i]) # {}}
  IN IF has = {} THEN Safetensors(files)
     ELSE Safetensors(Part(files, dumps[Min(has)])) \cup Part(files, "extra")

\* One quant; nobody asked for another than the preferred one.
PickSparkGguf(files) ==
  LET quants == {b.dump : b \in files} \ {0}
  IN IF quants = {} THEN files ELSE Part(files, Min(quants))

\* A repository with both is served from its safetensors.
HubBlobMeasure(f) ==
  LET gguf == {b \in f.files : b.format = "gguf"}
  IN Total(IF gguf = f.files THEN PickSparkGguf(gguf) ELSE SelectWeightBlobs(f.files \ gguf))

\* The floor of a family known by its name, or of many experts whose number is not
\* explained by a small size in the name.
WeightFloor(f, config) ==
  CASE f.floor > 0 -> f.floor
    [] f.floor = 0 /\ config /\ f.experts >= 64 /\ ~f.compact -> 400
    [] OTHER -> 0

\* The Hub's files, its index of them, an estimate from config.json that is not below the
\* floor, the floor.
EstimateWeights(f, hub, config) ==
  CASE hub /\ HubBlobMeasure(f) > 0 -> HubBlobMeasure(f)
    [] hub /\ HubBlobMeasure(f) = 0 /\ f.index > 0 -> f.index
    [] OTHER -> Max({WeightFloor(f, config), IF config THEN f.heuristic ELSE 0})

-----------------------------------------------------------------------------
\* Which backends crash.

\* _image_at_least(image, 0, 27): a tag that is not a version counts as current.
AtLeast27(image) == Stock(image) => image >= 27

B12xUnsafe(det, image) ==
  \/ ~det.moe
  \/ /\ ~AtLeast27(image)
     /\ det.mixed \/ (det.fp8 /\ det.method \in {"compressed", "modelopt"})

MarlinUnsafe(det, image) ==
  /\ det.family # "nemotron"
  /\ CASE det.mixed -> ~(det.method = "modelopt" /\ AtLeast27(image))
       [] det.nvfp4 -> ~AtLeast27(image)
       [] OTHER -> det.family = "qwen" \/ det.moe \/ det.method \in {"compressed", "modelopt"}

Unsafe(moe, det, image) ==
  \/ moe = "b12x" /\ B12xUnsafe(det, image)
  \/ moe = "marlin" /\ MarlinUnsafe(det, image)

\* _resolve_image_for_gates: never below the lab's stock image, raised by stock pins and by
\* what the checkpoint needs; a playbook's tag replaces it, the overlay's build stays.
NeededImage(det, moe) ==
  IF det.mixed \/ det.nvfp4 \/ (moe = "marlin" /\ det.family = "nemotron") THEN 27 ELSE NoImage

ResolveImage(cfg, f, det, pins) ==
  IF cfg.image = Anemll THEN Anemll
  ELSE IF f.playbook THEN Playbook
  ELSE Max({i \in {cfg.image, Lab, NeededImage(det, cfg.moe)} \cup pins : Stock(i)})

-----------------------------------------------------------------------------
\* The serve commands of the card and of vendor pages.

Rich(r) == r.quant \/ r.moe # "" \/ r.kv # "" \/ r.cute \/ r.image # NoImage
Bare(r) == ~r.quant /\ r.moe = "" /\ r.kv = "" /\ ~r.cute /\ r.window = 0 /\ r.seqs = 0 /\ ~r.mtp

Section == [spark |-> 50, vllm |-> 50, usage |-> 15, other |-> -30, none |-> 0]

Worth(condition, points) == IF condition THEN points ELSE 0

\* score_candidate
Score(r, det) ==
  LET unsafe == Unsafe(r.moe, det, r.image)
  IN Section[r.at]
     + Worth(r.moe \notin {"", "humming"} /\ ~unsafe, 25)
     + Worth(r.cute, 35) + Worth(r.quant, 20) + Worth(r.kv # "", 10) + Worth(r.seqs > 0, 8) + Worth(r.mtp, -25)
     + Worth(r.window = 1, -25) + Worth(r.window >= 8, 8)
     + Worth(Bare(r), IF det.method # "none" \/ det.moe \/ det.nvfp4 THEN -20 ELSE 1)
     + Worth(~Bare(r) /\ ~r.quant /\ r.moe = "" /\ ~r.cute, 3)
     + Worth(r.quant /\ det.method # "none", 15)
     + Worth(unsafe, -80) + Worth(unsafe /\ (r.cute \/ r.at = "spark"), 55)

\* _sanitize_moe_backend_on_candidate, against the image the recipe itself names
Sanitized(r, det) == IF Unsafe(r.moe, det, r.image) THEN [r EXCEPT !.moe = ""] ELSE r

Scored(recipes, det) ==
  {[recipe |-> Sanitized(r, det), score |-> Score(r, det)] : r \in recipes}

Best(cands) == CHOOSE c \in cands : \A d \in cands : d.score <= c.score

\* candidates_recipe_poor
Poor(cands) == cands = {} \/ ~Rich(Best(cands).recipe) \/ Best(cands).score < 20
Thin(cands) == cands # {} => ~Best(cands).recipe.quant /\ Best(cands).recipe.kv = ""

\* extract_serve_candidates on the card, and _augment_candidates_from_cookbooks: vendor
\* pages are read only when the card's recipes are poor or thin, and a command of theirs that
\* names another family, generation, size or variant is left out.
Candidates(f, det, card, web) ==
  LET own == IF card THEN Scored(f.recipes, det) ELSE {}
  IN IF web /\ (Poor(own) \/ Thin(own)) THEN own \cup Scored({r \in f.vendor : ~r.foreign}, det) ELSE own

=============================================================================
