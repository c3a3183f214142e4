----------------------------- MODULE ClusterView -----------------------------
(***************************************************************************)
(* What the cluster summary says of the containers that ServeLifecycle     *)
(* starts and removes: the inventory of a node (app/services/node_probe.py)*)
(* and its summary over the nodes (app/services/cluster.py).               *)
(*                                                                         *)
(* A sample is a function of the containers: the slow tick keeps nothing   *)
(* from one to the next.  The nodes are listed at one instant, docker      *)
(* inspect answers, and the model a server names is the serve it is for.   *)
(***************************************************************************)
EXTENDS ServeLifecycle

CONSTANT SaysTp  \* engines whose command for one node names a tensor-parallel size

ASSUME ViewAssumption == IsFiniteSet(Worker)

\* A value that may be missing (None) is a set of at most one.
None == {}
The(s) == CHOOSE x \in s : TRUE
AnyOf(s) == IF s = {} THEN {None} ELSE {{x} : x \in s}

\* How a worker can be reached, besides by ssh.
Silence == {"ping", "nothing"}

RankOn == CHOOSE f \in [Node -> 0..Cardinality(Worker)] :
            f[Host] = 0 /\ \A m, n \in Node : f[m] = f[n] => m = n
-----------------------------------------------------------------------------
(* One node: docker ps, docker inspect, /v1/models.                         *)

\* Its engine's container name, which for a rank ends in -n<rank>.
ListedName(b) == [stem |-> b.name[1], rank |-> IF b.name[2] = "rank" THEN {RankOn[b.node]} ELSE None]

rank_from_container_name(name) == name.rank

\* --tensor-parallel-size of the container's command.
TpSize(b) == IF b.name[2] = "rank" THEN {Cardinality(Node)}
             ELSE IF b.name[1] \in SaysTp THEN {1} ELSE None

\* A rank >= 1 is started without an HTTP server.
Headless(b) == \E r \in rank_from_container_name(ListedName(b)) : r >= 1

enrich_containers(b) ==
  [name |-> ListedName(b), up |-> Up(b), owner |-> b.owner, headless |-> Headless(b),
   node_rank |-> rank_from_container_name(ListedName(b)), tp |-> TpSize(b)]

\* Containers whose port lists a model; the first of their ports answers for the node.
probe_models(n) == {b \in box : b.node = n /\ b.state = "ready" /\ ~Headless(b)}

\* The first container, in docker's order, that names a size speaks for the node.
inventory(n, young) ==
  LET here == {b \in box : b.node = n} IN
  {[online |-> TRUE, ping |-> TRUE, young |-> young, model_id |-> m, tp |-> t,
    containers |-> {enrich_containers(b) : b \in here}]
     : m \in AnyOf({b.owner : b \in probe_models(n)}), t \in AnyOf(UNION {TpSize(b) : b \in here})}

\* ssh failed or timed out: whether the host is up is told apart by a ping.
ProbeFails(answer) ==
  [online |-> FALSE, ping |-> answer = "ping", young |-> FALSE, model_id |-> None,
   tp |-> None, containers |-> {}]
-----------------------------------------------------------------------------
(* The states of the nodes.                                                 *)

UpOf(v) == {c \in v.containers : c.up}

\* The number is taken off the name of a rank: what is left is the same for the
\* ranks of every serve of the engine and for its single-node container.
container_serve_family(name) == name.stem
node_serve_families(v) == {container_serve_family(c.name) : c \in UpOf(v)}

\* By a known name of a worker, or by --headless with a known rank.
multinode_worker_rank(v) ==
  LET named == {r \in UNION {rank_from_container_name(c.name) : c \in UpOf(v)} : r >= 1}
      headless == {r \in UNION {c.node_rank : c \in {c \in UpOf(v) : c.headless}} : r >= 1}
  IN IF named # {} THEN {The(named)} ELSE IF headless # {} THEN {The(headless)} ELSE None

\* Mistake: the head's size is not compared with the rank.
FamilyOnly(worker, head, rank) ==
  node_serve_families(head) \cap node_serve_families(worker) # {}

worker_aligned_with_head(worker, head, rank) ==
  /\ \A tp \in head.tp : rank < tp
  /\ node_serve_families(head) \cap node_serve_families(worker) # {}

\* 45 minutes after its start a container without an endpoint does not load any more.
loading_or_stray(v) == IF v.young THEN "loading" ELSE "stray"

\* This host is never offline to itself.
node_state(v) ==
  IF ~v.online THEN IF v.ping THEN "unreachable" ELSE "offline"
  ELSE IF v.model_id # None THEN "serving"
  ELSE IF multinode_worker_rank(v) # None THEN "serving_worker"
  ELSE IF UpOf(v) # {} THEN loading_or_stray(v) ELSE "idle"
-----------------------------------------------------------------------------
(* The summary over all nodes; view[n] is what was found on n.              *)

Heads(view) == {n \in Node : node_state(view[n]) = "serving"}

\* Without a live head every worker rank counts; with one, those it may belong to.
Workers(view) ==
  {w \in Node : /\ node_state(view[w]) = "serving_worker"
                /\ Heads(view) # {} =>
                     \E h \in Heads(view), r \in multinode_worker_rank(view[w]) :
                        worker_aligned_with_head(view[w], view[h], r)}

\* A headless worker serves the model of the first node that answers.
ShownModel(view, n) ==
  IF n \in Workers(view) /\ Heads(view) # {}
    THEN view[IF Host \in Heads(view) THEN Host ELSE The(Heads(view))].model_id
    ELSE view[n].model_id

tensor_parallel_hint(view) ==
  {0} \cup UNION {view[n].tp : n \in Node}
      \cup IF Workers(view) # {} /\ Heads(view) # {}
             THEN {Cardinality(Heads(view)) + Cardinality(Workers(view))} ELSE {}

Mode(view) ==
  LET serving == Heads(view) \cup Workers(view)
      models == UNION {ShownModel(view, n) : n \in serving} IN
  IF serving = {} THEN IF \E n \in Node : node_state(view[n]) = "loading" THEN "loading" ELSE "none"
  ELSE IF Cardinality(serving) = 1
    THEN IF Workers(view) = {} /\ \E hint \in tensor_parallel_hint(view) : hint >= 2
           THEN "multi_partial" ELSE "single"
  ELSE IF Cardinality(models) = 1 THEN "multi_aligned" ELSE "multi_mismatch"
-----------------------------------------------------------------------------
(* This host in process, every other node over ssh.                         *)
probe_local(young) == inventory(Host, young)

probe_remote_ssh(w, young, silent, answer) ==
  IF w \in silent THEN {ProbeFails(answer)} ELSE inventory(w, young)

collect_cluster(young, silent, answer) ==
  LET may == [n \in Node |-> IF n = Host THEN probe_local(young)
                             ELSE probe_remote_ssh(n, young, silent, answer)]
  IN {v \in [Node -> UNION {may[n] : n \in Node}] : \A n \in Node : v[n] \in may[n]}
-----------------------------------------------------------------------------
HasAll(j) == {b.node : b \in RunningOf(j)} = IF ask[j].multi THEN Node ELSE {Host}
OnePerNode == \A b, c \in box : b.node = c.node => b = c
\* Something went wrong for it, it ended, and docker may still have started it.
Ghost(j) == j \in marred /\ stage[j] \in {"failed", "cancelled"}

\* What a reader must be told of a serve whose containers are the only ones.
Truth(j, young, silent) ==
  IF probe_models(Host) = {} THEN IF young THEN "loading" ELSE "none"
  ELSE IF ~ask[j].multi THEN "single"
  ELSE IF silent = Worker THEN "multi_partial" ELSE "multi_aligned"

\* The summary never passes a container off as part of a serve that did not start
\* it: a rank that an earlier serve left on a worker is not shown with the model of
\* the server on this host (two containers on a node are not told apart, nor are
\* those of a serve that came up after it had failed).  And a serve that runs alone
\* and complete is told as what it is, whatever nodes answer.
SummaryIsTrue ==
  /\ \A b \in probe_models(Host), c \in {c \in box : c.node # Host /\ Up(c)} :
       b.owner # c.owner /\ OnePerNode /\ ~Ghost(b.owner) /\ ~Ghost(c.owner)
       => \A view \in collect_cluster(TRUE, {}, "ping") : ShownModel(view, c.node) # {b.owner}
  /\ \A j \in Serve \ marred :
       box = RunningOf(j) /\ HasAll(j) /\ (ask[j].multi => probe_models(Host) # {})
       => \A young \in BOOLEAN, silent \in SUBSET Worker, answer \in Silence :
            \A view \in collect_cluster(young, silent, answer) : Mode(view) = Truth(j, young, silent)
=============================================================================
