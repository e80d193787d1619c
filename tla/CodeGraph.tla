----------------------------- MODULE CodeGraph -----------------------------
(***************************************************************************)
(* The code graph (domain/graph.py, domain/models.py) as a value: a set of *)
(* node ids and a function from pairs of ids to edge kinds.  networkx's    *)
(* DiGraph keeps one edge per ordered pair: a second add_edge replaces the *)
(* kind of the first.  A node's attributes are fixed by its id.            *)
(***************************************************************************)
EXTENDS Integers, FiniteSets, Sequences, Functions, TLC

CONSTANTS Ids,      \* node ids
          KindOf,   \* [Ids -> NodeKinds]
          PathOf,   \* [Ids -> paths, or NoPath]
          RepoOf,   \* [Ids -> repositories]
          NoPath    \* path is None

SymbolKinds    == {"function", "method", "class", "type", "constant", "api_endpoint"}
ContainerKinds == {"repository", "module", "file"}
NodeKinds      == SymbolKinds \cup ContainerKinds \cup {"config"}
CrossRepoKinds == {"api_calls", "shared_lib", "proto_defines"}
EdgeKinds      == {"contains", "calls", "imports", "inherits", "implements",
                   "uses_type", "reads_config", "exposes_api"} \cup CrossRepoKinds

ASSUME GraphAssumption ==
  /\ IsFiniteSet(Ids)
  /\ KindOf \in [Ids -> NodeKinds]
  /\ DOMAIN PathOf = Ids /\ DOMAIN RepoOf = Ids

IsGraph(g) == /\ g.nodes \subseteq Ids
              /\ DOMAIN g.edge \subseteq g.nodes \X g.nodes
              /\ \A e \in DOMAIN g.edge : g.edge[e] \in EdgeKinds

EmptyGraph == [nodes |-> {}, edge |-> <<>>]

-----------------------------------------------------------------------------
(* Mutation.                                                               *)

AddNode(g, n) == [g EXCEPT !.nodes = @ \cup {n}]

(* An endpoint that is not registered: the edge is skipped.                *)
AddEdge(g, s, t, kind) ==
  IF {s, t} \subseteq g.nodes THEN [g EXCEPT !.edge = (<<s, t>> :> kind) @@ @] ELSE g

-----------------------------------------------------------------------------
(* Queries: neighbours over edges of the given kinds.                      *)

Incoming(g, n, kinds) ==
  {m \in g.nodes : <<m, n>> \in DOMAIN g.edge /\ g.edge[<<m, n>>] \in kinds}

Outgoing(g, n, kinds) ==
  {m \in g.nodes : <<n, m>> \in DOMAIN g.edge /\ g.edge[<<n, m>>] \in kinds}
=============================================================================
