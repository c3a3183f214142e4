----------------------------- MODULE MCServePage -----------------------------
EXTENDS ServePage
CONSTANTS m1, m2, n1, n2, n3

TwoMore == <<n2, n3>>

Spark == [at |-> "spark", moe |-> "b12x", kv |-> "", image |-> 25, quant |-> TRUE, cute |-> TRUE,
          window |-> 0, seqs |-> 4, mtp |-> FALSE, foreign |-> FALSE]
Marlin == [at |-> "vllm", moe |-> "marlin", kv |-> "auto", image |-> NoImage, quant |-> TRUE, cute |-> FALSE,
           window |-> 64, seqs |-> 8, mtp |-> TRUE, foreign |-> FALSE]
Ampere == [Marlin EXCEPT !.at = "other", !.moe = "humming", !.window = 1]
Demo == [Marlin EXCEPT !.at = "none", !.moe = "", !.kv = "", !.quant = FALSE, !.window = 0, !.seqs = 0, !.mtp = FALSE]

\* How a repository packs weights of s GiB.
Sharded(s) == {[format |-> "safetensors", dump |-> "shards", gib |-> s]}
Twice(s) == Sharded(s) \cup {[format |-> "safetensors", dump |-> "consolidated", gib |-> s]}
Pickled(s) == {[format |-> x, dump |-> "single", gib |-> s - 10] : x \in {"bin", "safetensors"}}
                \cup {[format |-> "safetensors", dump |-> "extra", gib |-> 10]}
Quants(s) == {[format |-> "gguf", dump |-> 1, gib |-> s], [format |-> "gguf", dump |-> 4, gib |-> s + 40],
              [format |-> "gguf", dump |-> 0, gib |-> 2]}
Packed(pack, s) == CASE pack = "sharded" -> Sharded(s) [] pack = "twice" -> Twice(s)
                     [] pack = "pickled" -> Pickled(s) [] pack = "quants" -> Quants(s)
                     [] pack = "index" -> {}

Checkpoint == [size |-> 60, pack |-> "sharded", files |-> {}, index |-> 0, heuristic |-> 60, floor |-> 0,
               experts |-> 0, compact |-> FALSE, native |-> 32,
               shape |-> [layers |-> 32, attending |-> 0, heads |-> 8, dim |-> 256],
               named |-> {}, layout |-> {}, method |-> "none", family |-> "llama",
               recipes |-> {Demo}, vendor |-> {}, pin |-> NoImage, playbook |-> FALSE,
               overlay |-> NoOverlay, ranks |-> 1, vendorTp |-> 0]

DSpark == [kind |-> "owning", moe |-> "b12x", kv |-> "nvfp4_ds_mla", image |-> Anemll, window |-> 128, seqs |-> 6, mtp |-> FALSE]

\* The layouts and recipes of the first model, and its sizes.
Layouts == {
  [Checkpoint EXCEPT !.layout = {"moe", "nvfp4", "fp8"}, !.method = "compressed", !.family = "qwen",
                     !.recipes = {Spark, Demo}, !.vendor = {Marlin},
                     !.pack = "twice"],
  [Checkpoint EXCEPT !.layout = {"moe", "fp8"}, !.named = {"moe"}, !.method = "modelopt",
                     !.recipes = {Demo}, !.vendor = {Spark, Ampere}, !.pin = 28,
                     !.pack = "pickled", !.experts = 128, !.compact = TRUE],
  [Checkpoint EXCEPT !.layout = {"moe", "nvfp4"}, !.method = "modelopt", !.family = "nemotron",
                     !.shape.layers = 52, !.shape.attending = 16,
                     !.recipes = {[Marlin EXCEPT !.kv = "nvfp4"], Ampere}, !.vendor = {[Spark EXCEPT !.foreign = TRUE]}],
  [Checkpoint EXCEPT !.recipes = {[Spark EXCEPT !.kv = "auto"]}, !.playbook = TRUE, !.native = 3, !.pack = "quants"],
  [Checkpoint EXCEPT !.overlay = DSpark, !.layout = {"moe", "nvfp4"}, !.native = 128,
                     !.family = "deepseek", !.shape.layers = 40,
                     !.vendorTp = 1, !.pack = "index", !.experts = 256]}

First == {[f EXCEPT !.size = s, !.files = Packed(f.pack, s), !.index = s, !.heuristic = s - 20, !.ranks = IF s = 60 THEN 2 ELSE 1] :
            f \in Layouts, s \in {60, 150, 250}}
Second == [Checkpoint EXCEPT !.size = 0, !.heuristic = 0, !.native = 0]

AllWorlds == {m1 :> f @@ m2 :> Second : f \in First}
OnePreset == {[model |-> m1, moe |-> "b12x", seqs |-> 4]}
=============================================================================
