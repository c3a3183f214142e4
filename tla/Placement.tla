------------------------------ MODULE Placement ------------------------------
(***************************************************************************)
(* The memory arithmetic of the serve-engine (services/autoconfig.py): how *)
(* many nodes a checkpoint is spread over, how long a context window the   *)
(* rest of a node's memory holds, and the share of the memory the server   *)
(* is given.                                                               *)
(*                                                                         *)
(* Weights and node memory are GiB, a node's part of them and the KV cache *)
(* MiB, a window counts units of 8192 tokens, a share is a percentage.     *)
(* 0 stands for "unknown" and for a field left empty.                      *)
(***************************************************************************)
EXTENDS Integers, FiniteSets, FiniteSetsExt

CONSTANT Ram    \* memory of a node; all nodes are alike

ASSUME RamAssumption == Ram \in 19..150

Reserve == 15                       \* _UMA_RESERVE_GIB
Pad == 4                            \* _RUNTIME_PAD_GIB
Ladder == {2, 4, 8, 16, 32, 64, 128}
WorkflowWindow == 32                \* WORKFLOW_MAX_LEN

Default(n, otherwise) == IF n = 0 THEN otherwise ELSE n

\* check_serve_loadability: weights spread over n nodes stay under 85 % of each, less the reserve.
Holds(w, n) == w * 100 <= n * (Ram * 85 - Reserve * 100)
Fits(w, n) == w = 0 \/ Holds(w, n)

\* plan_placement: the fewest nodes that hold the weights, all of them when none do.
NodesNeeded(w, avail) ==
  IF w = 0 THEN 1
  ELSE CHOOSE n \in 1..avail : /\ n = avail \/ Holds(w, n)
                               /\ \A k \in 1..(n - 1) : ~Holds(w, k)

PlanPlacement(w, avail) ==
  LET n == NodesNeeded(w, avail)
  IN [nodes |-> n, fits |-> Fits(w, n), per |-> (w * 1024) \div n]

-----------------------------------------------------------------------------
\* recommended_gpu_util, in hundredths of a percent until it is rounded.
Share(mib) == (mib * 625) \div (Ram * 64)

Cap == Min({9000, Max({5000, 10000 - (Reserve * 10000) \div Ram})})

RecommendedUtil(per, kv) ==
  LET need == ((per + kv + Pad * 1024) * 675) \div (Ram * 64)      \* with 8 % slack
      least == Min({Cap, Share(per + Reserve * 1024)})
  IN (Min({Cap, Max({least, need, 5000})}) + 50) \div 100

\* _kv_bytes_per_token, for a unit of one sequence and with a tenth of slack: two vectors per
\* head of every layer that attends, of a width the dtype tells, or one latent per layer.
\* The dtype nobody named is fp8.
HalfBytes(dtype) ==
  CASE dtype \in {"nvfp4", "nvfp4_ds_mla"}   -> 1
    [] dtype \in {"", "fp8", "fp8_ds_mla"}   -> 2
    [] OTHER                                 -> 4

KvCache(shape, latent, dtype) ==
  LET attending == Default(shape.attending, shape.layers)
      halves == IF latent THEN shape.layers * (IF HalfBytes(dtype) = 1 THEN 640 ELSE 1168)
                ELSE attending * 2 * shape.heads * shape.dim * HalfBytes(dtype)
  IN (halves * 11) \div 2560

\* _size_memory_for_spark: the longest window first, then the most sequences; kv is the
\* cache of one unit of one sequence.
Budget(per) == (Ram - Reserve - Pad) * 1024 - per

SizeMemoryForOne(window, seqs, per, kv) ==
  LET rungs == {window} \cup {l \in Ladder : l < window}
      longest == Max({2} \cup {l \in rungs : l * kv <= Budget(per)})
  IN [window |-> longest, seqs |-> seqs, util |-> RecommendedUtil(per, longest * kv)]

SizeMemory(window, seqs, per, kv) ==
  LET asked == Default(seqs, 4)
      rungs == {window} \cup {l \in Ladder : l < window}
      counts == {n \in {asked, 4, 2, 1} : n <= asked}
      fitting == {p \in rungs \X counts : p[1] * p[2] * kv <= Budget(per)}
      best == IF fitting = {} THEN <<2, 1>>
              ELSE CHOOSE p \in fitting : \A q \in fitting :
                     q[1] < p[1] \/ (q[1] = p[1] /\ q[2] <= p[2])
  IN IF window = 0 \/ Budget(per) < 8 * 1024
     THEN [window |-> window, seqs |-> seqs, util |-> RecommendedUtil(per, 0)]
     ELSE [window |-> best[1],
           seqs |-> IF best[2] = asked THEN seqs ELSE best[2],
           util |-> RecommendedUtil(per, best[1] * best[2] * kv)]

=============================================================================
