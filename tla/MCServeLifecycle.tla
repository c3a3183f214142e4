--------------------------- MODULE MCServeLifecycle ---------------------------
(* Two serves and a stop on two nodes, seen in the cluster summary.         *)
EXTENDS ClusterView, TLC

\* At most one serve leaves the others alone, and then it has another shape than
\* they: a container of its own name is removed in any case.
MCAsks ==
  {a \in [Serve -> Request] :
     \/ \A j \in Serve : a[j].stop_first
     \/ \E j \in Serve : \A i \in Serve \ {j} : a[i].stop_first /\ a[i].multi # a[j].multi}

\* States that differ in nothing any later step reads are one: the cancel event of a
\* serve that is over, the outcome noted before the last clean-up.
Relevant ==
  <<stage, ask, line, {j \in flagged : Live(j)}, before, box, late, file, todo, visit,
    [j \in Serve |-> IF stage[j] \in Cleaning THEN end[j] ELSE "failed"], troubles, marred>>

Interchangeable == Permutations(Serve)
=============================================================================
