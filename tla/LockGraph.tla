------------------------------ MODULE LockGraph ------------------------------
(***************************************************************************)
(* cargo_reachability_snapshot: which locked packages the local packages   *)
(* depend on, over the entries of Cargo.lock alone.                        *)
(*                                                                         *)
(* A node has a name, a version, a source ("local" for the packages of the *)
(* workspace) and the dependencies it lists; a dependency has a name and,  *)
(* if the lock file says so, a version.  The queue of the code is kept as  *)
(* a sequence of nodes: nodes are numbers, their records are in nodes.     *)
(***************************************************************************)
EXTENDS Naturals, Sequences, FiniteSets, SequencesExt

Roots(nodes) == {i \in DOMAIN nodes : nodes[i].source = "local"}

\* The nodes a dependency may mean; two versions of a name, or two sources of a version,
\* cannot be told apart without more words.
Candidates(nodes, dep) ==
  {i \in DOMAIN nodes : nodes[i].name = dep.name /\ (dep.version = "any" \/ dep.version = nodes[i].version)}
Ambiguous(nodes, dep) == Cardinality(Candidates(nodes, dep)) # 1

\* One round of the loop: the head of the queue is visited unless it was before.
Visit(nodes, s) ==
  LET i == Head(s.queue) IN
  IF i \in s.reachable THEN [s EXCEPT !.queue = Tail(@)]
  ELSE [queue     |-> Tail(s.queue) \o
                      FlattenSeq(SetToSeq({SetToSeq(Candidates(nodes, d)) : d \in nodes[i].deps})),
        reachable |-> s.reachable \cup {i},
        ambiguous |-> s.ambiguous \cup {<<i, d>> : d \in {x \in nodes[i].deps : Ambiguous(nodes, x)}}]

RECURSIVE Loop(_, _)
Loop(nodes, s) == IF s.queue = <<>> THEN s ELSE Loop(nodes, Visit(nodes, s))

\* No local package is an error.
Fails(nodes) == Roots(nodes) = {}
Snapshot(nodes) ==
  Loop(nodes, [queue |-> SetToSeq(Roots(nodes)), reachable |-> {}, ambiguous |-> {}])

-----------------------------------------------------------------------------
(* The definition it is checked against.                                   *)

Edges(nodes) ==
  UNION {{<<i, j>> : j \in UNION {Candidates(nodes, d) : d \in nodes[i].deps}} : i \in DOMAIN nodes}

\* The least set with the roots that is closed under the edges.
Closed(nodes, set) ==
  Roots(nodes) \subseteq set /\ \A e \in Edges(nodes) : e[1] \in set => e[2] \in set
Closure(nodes) ==
  {i \in DOMAIN nodes : \A set \in SUBSET DOMAIN nodes : Closed(nodes, set) => i \in set}

\* Every package of the closure is reported, whatever cycles and doubles the file has, and a
\* dependency that stays open is reported with it (graph.rs:87-118).
SnapshotIsClosure(nodes) ==
  LET s == Snapshot(nodes) IN
  /\ s.reachable = Closure(nodes)
  /\ s.ambiguous = {<<i, d>> \in Closure(nodes) \X UNION {nodes[i].deps : i \in DOMAIN nodes} :
                      d \in nodes[i].deps /\ Ambiguous(nodes, d)}
=============================================================================
