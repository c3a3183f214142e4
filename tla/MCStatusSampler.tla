--------------------------- MODULE MCStatusSampler ---------------------------
EXTENDS StatusSampler, TLC
CONSTANTS p1, p2, p3, u1, u2, spark, lail, vllm, sglang, r1, r2
TwoUrls == [p \in Proc |-> IF p = p2 THEN u2 ELSE u1]
TwoNames == [p \in Proc |-> IF p = p2 THEN lail ELSE spark]
Interchangeable == Permutations(Reader) \cup Permutations({p1, p3})
TwoKinds == [p \in Proc |-> IF p = p2 THEN sglang ELSE vllm]
=============================================================================
