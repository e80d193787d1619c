----------------------------- MODULE Retrieval -----------------------------
(***************************************************************************)
(* One get_context request: search (services/retrieval/service.py,         *)
(* matching.py, graph_ops.py, domain/subgraph.py, services/intent.py) and  *)
(* the session's cut of its answer (adapters/shared/session_context.py).   *)
(* After the query is embedded nothing is awaited, so the steps are the    *)
(* loops of one thread.  Scores decide orders and ties: any order is       *)
(* possible, and what the query finds relevant is an input.                *)
(***************************************************************************)
EXTENDS VectorIndex

CONSTANTS Graphs,      \* graphs of the active generation
          Full,        \* [Ids -> token_estimate of the node]
          Brief,       \* [Ids -> its token_estimate without raw_code]
          Summarised,  \* nodes with raw_code and summary
          Budgets,     \* token budgets
          Hops,        \* expansion_hops of the intents
          RepoFilters, \* the repos argument, {} if there is none
          Relevances,  \* what may pass the gate of a query
          MaxSeeds     \* bound: seeds of a query

ASSUME RetrievalAssumption ==
  /\ Full \in [Ids -> Nat \ {0}] /\ Brief \in [Ids -> Nat \ {0}]
  /\ Summarised \subseteq Ids
  /\ Budgets \subseteq Nat \ {0} /\ Hops \subseteq Nat /\ MaxSeeds \in Nat
  /\ \A r \in RepoFilters : IsFiniteSet(r)
  /\ \A g \in Graphs : IsGraph(g)

VARIABLES
  graph,     \* the code graph
  pc,        \* step of the request
  query,     \* [budget, hops, repos, relevant]
  seeds,     \* nodes found, best first, trimmed
  ranked,    \* history: the nodes found, best first
  nodes,     \* subgraph.nodes
  links,     \* subgraph.edges, as pairs
  stripped,  \* nodes of the subgraph without raw_code
  frontier, visited, hop   \* of expand_subgraph

sub  == <<nodes, links, stripped>>
found == <<query, seeds, ranked>>
walk == <<frontier, visited, hop>>
vars == <<vectors, graph, pc, found, sub, walk>>

NoQuery == [budget |-> 0, hops |-> 0, repos |-> {}, relevant |-> {}]

Init ==
  /\ VectorInit
  /\ graph \in Graphs
  /\ pc = "idle" /\ query = NoQuery /\ seeds = <<>> /\ ranked = <<>>
  /\ nodes = {} /\ links = {} /\ stripped = {}
  /\ frontier = {} /\ visited = {} /\ hop = 0

-----------------------------------------------------------------------------
(***************************************************************************)
(* The parts of a search.                                                  *)
(***************************************************************************)

Cost(n, without) == IF n \in without THEN Brief[n] ELSE Full[n]
Tokens(ns, without) == MapThenSumSet(LAMBDA n : Cost(n, without), ns)

(* Nodes the repos argument lets through.                                  *)
Allowed(repos) == IF repos = {} THEN Ids ELSE {n \in Ids : RepoOf[n] \in repos}

(* The vector search filters by metadata only for a single repository.     *)
Stored(repos) == Hits(IF Cardinality(repos) = 1 THEN Allowed(repos) ELSE Ids)

(* Mutation of VectorHits: a hit is not looked up in the graph.            *)
VectorHitsUnchecked(repos) == Stored(repos)

(* Ids the graph has no node for are passed over.                          *)
VectorHits(repos) == Stored(repos) \cap graph.nodes

(* What the graph's nodes match by words, by name or path, and by route.   *)
Bm25Matches(repos) == graph.nodes \cap Allowed(repos)
NameMatches(repos) == graph.nodes \cap Allowed(repos)
RouteMatches(repos) == {n \in graph.nodes \cap Allowed(repos) : KindOf[n] = "api_endpoint"}

(* Any of them may be among the seeds beside the hits; with several        *)
(* repositories the hits are filtered only here.                           *)
SeedSets(hits, repos) ==
  {(hits \cap Allowed(repos)) \cup extra :
     extra \in SUBSET (Bm25Matches(repos) \cup NameMatches(repos) \cup RouteMatches(repos))}

(* Scores blended, boosted and sorted: any order.                          *)
Rankings(ns) == {r \in [1 .. Cardinality(ns) -> ns] : IsInjective(r)}

RunningCost(ranking, k) == FoldLeft(LAMBDA t, n : t + Full[n], 0, SubSeq(ranking, 1, k))

(* Mutation of TrimSeeds: a first seed that is too large is dropped too.   *)
TrimSeedsStrict(ranking, budget) ==
  LET fits == {k \in 0 .. Len(ranking) : RunningCost(ranking, k) <= (budget * 3) \div 4}
  IN  SubSeq(ranking, 1, Max(fits))

(* The best seeds within 75% of the budget, and the first whatever it is.  *)
TrimSeeds(ranking, budget) ==
  LET fits == {k \in 0 .. Len(ranking) :
                 k <= 1 \/ RunningCost(ranking, k) <= (budget * 3) \div 4}
  IN  SubSeq(ranking, 1, Max(fits))

Touching(g, active) == {e \in DOMAIN g.edge : e[1] \in active \/ e[2] \in active}
Ends(pairs) == {e[1] : e \in pairs} \cup {e[2] : e \in pairs}

(* Mutation of Reached: the gate only keeps a node from being walked on.   *)
ReachedAll(g, active, have, relevant) == Ends(Touching(g, active)) \ have

(* What a hop from the active nodes adds: neighbours that pass the gate    *)
(* (relevant: similar enough, or without an embedding).                    *)
Reached(g, active, have, relevant) == (Ends(Touching(g, active)) \cap relevant) \ have

(* add_type_context, add_config_context: targets of the nodes' edges of    *)
(* that kind which are not there yet, each with the first such edge.       *)
ContextTargets(g, have, kind) == UNION {Outgoing(g, n, {kind}) : n \in have} \ have

(* Mutation of FirstLinks: the node comes without its edge.                *)
NoLinks(g, have, kind, targets) == {{}}

FirstLinks(g, have, kind, targets) ==
  {{<<f[m], m>> : m \in targets} :
     f \in {h \in [targets -> have] : \A m \in targets : m \in Outgoing(g, h[m], {kind})}}

(* find_least_important_leaf: a node that is no seed and no edge's target, *)
(* else any node that is no seed (the one with the lowest score).          *)
Candidates(ns, edges, kept) ==
  LET free == ns \ kept
      leaves == free \ {e[2] : e \in edges}
  IN  IF leaves # {} THEN leaves ELSE free

(* Mutation of WithoutNode: only the edges out of the node go.             *)
WithoutSource(edges, n) == {e \in edges : n # e[1]}
WithoutNode(edges, n) == {e \in edges : n \notin {e[1], e[2]}}

-----------------------------------------------------------------------------
(***************************************************************************)
(* The request.                                                            *)
(***************************************************************************)

(* The index run or the watcher writes vectors; a generation's graph is    *)
(* loaded and its missing vectors are added.                               *)
Write ==
  /\ pc = "idle"
  /\ WriteVectors(graph)
  /\ UNCHANGED <<graph, pc, found, sub, walk>>

(* Steps 0 - 2: without a vector hit that is in the graph the answer is    *)
(* empty, whatever the keywords would have found.                          *)
FindSeeds ==
  /\ pc = "idle"
  /\ \E q \in [budget : Budgets, hops : Hops, repos : RepoFilters, relevant : Relevances] :
     \E hits \in SUBSET VectorHits(q.repos) :
       /\ query' = q
       /\ \/ /\ hits = {}
             /\ pc' = "answered" /\ UNCHANGED <<seeds, ranked, nodes, frontier>>
          \/ /\ hits # {}
             /\ \E all \in SeedSets(hits, q.repos) :
                  Cardinality(all) <= MaxSeeds /\ ranked' \in Rankings(all)
             /\ seeds' = TrimSeeds(ranked', q.budget)
             /\ nodes' = ToSet(seeds') /\ frontier' = ToSet(seeds')
             /\ pc' = "expand"
  /\ UNCHANGED <<vectors, graph, links, stripped, visited, hop>>

(* Step 3, one iteration of the loop over hops.                            *)
ExpandHop ==
  /\ pc = "expand" /\ hop < query.hops
  /\ LET active == frontier \ visited
         new == Reached(graph, active, nodes, query.relevant)
     IN  /\ nodes' = nodes \cup new
         /\ links' = links \cup {e \in Touching(graph, active) : {e[1], e[2]} \subseteq nodes'}
         /\ frontier' = new /\ visited' = visited \cup active
  /\ hop' = hop + 1
  /\ UNCHANGED <<vectors, graph, pc, found, stripped>>

ExpandEnd ==
  /\ pc = "expand" /\ hop = query.hops
  /\ pc' = "types"
  /\ UNCHANGED <<vectors, graph, found, sub, walk>>

(* Step 4.                                                                 *)
AddContext(from, kind, to) ==
  /\ pc = from
  /\ LET targets == ContextTargets(graph, nodes, kind)
     IN  /\ nodes' = nodes \cup targets
         /\ \E new \in FirstLinks(graph, nodes, kind, targets) : links' = links \cup new
  /\ pc' = to
  /\ UNCHANGED <<vectors, graph, found, stripped, walk>>

(* Step 4b changes scores only: what Fit takes is any candidate.           *)
AdjustQuality ==
  /\ pc = "quality" /\ pc' = "fit"
  /\ UNCHANGED <<vectors, graph, found, sub, walk>>

(* fit_to_budget, one iteration: a node with code and summary loses its    *)
(* code first; when that is not enough it goes all the same.               *)
Fit(from, kept) ==
  /\ pc = from /\ Tokens(nodes, stripped) > query.budget
  /\ \E n \in Candidates(nodes, links, kept) :
       LET brief == stripped \cup ({n} \cap Summarised)
       IN  \/ /\ Tokens(nodes, brief) <= query.budget
              /\ stripped' = brief /\ UNCHANGED <<nodes, links>>
           \/ /\ Tokens(nodes, brief) > query.budget
              /\ nodes' = nodes \ {n} /\ links' = WithoutNode(links, n)
              /\ stripped' = stripped \ {n}
  /\ UNCHANGED <<vectors, graph, pc, found, walk>>

(* Mutation of Fits: the loop only ends when the answer fits.              *)
FitsOnly(kept) == Tokens(nodes, stripped) <= query.budget
Fits(kept) == Tokens(nodes, stripped) <= query.budget \/ nodes \subseteq kept

FitEnd(from, kept, to) ==
  /\ pc = from /\ Fits(kept)
  /\ pc' = to
  /\ UNCHANGED <<vectors, graph, found, sub, walk>>

(* apply_session_context: session_dedup takes out what the client knows    *)
(* and strips what fades (module Sessions); then the budget once more,     *)
(* with no seeds to spare.                                                 *)
Dedup ==
  /\ pc = "answered"
  /\ \E rest \in SUBSET nodes : \E fading \in SUBSET rest :
       /\ nodes' = rest
       /\ links' = {e \in links : {e[1], e[2]} \subseteq rest}
       /\ stripped' = (stripped \cap rest) \cup fading
  /\ pc' = "session"
  /\ UNCHANGED <<vectors, graph, found, walk>>

Step ==
  \/ ExpandHop \/ ExpandEnd
  \/ AddContext("types", "uses_type", "configs")
  \/ AddContext("configs", "reads_config", "quality")
  \/ AdjustQuality
  \/ Fit("fit", ToSet(seeds)) \/ FitEnd("fit", ToSet(seeds), "answered")
  \/ Fit("session", {}) \/ FitEnd("session", {}, "done")

Next == Write \/ FindSeeds \/ Dedup \/ Step

(* A thread that has begun to assemble an answer does not stop; a request  *)
(* need not have a session.                                                *)
Spec == Init /\ [][Next]_vars /\ WF_vars(Step)

-----------------------------------------------------------------------------
(***************************************************************************)
(* Properties.                                                             *)
(***************************************************************************)

Steps == {"idle", "expand", "types", "configs", "quality", "fit",
          "answered", "session", "done"}

TypeOK ==
  /\ graph \in Graphs /\ pc \in Steps /\ hop \in Nat
  /\ pc # "idle" => /\ query.budget \in Budgets /\ query.hops \in Hops
                    /\ query.repos \in RepoFilters /\ query.relevant \in Relevances
  /\ nodes \subseteq graph.nodes /\ frontier \subseteq graph.nodes /\ visited \subseteq graph.nodes
  /\ stripped \subseteq nodes

(* Whatever was cut, by the budget or by the session, the edges of the     *)
(* bundle join nodes of the bundle and are edges of the graph              *)
(* (remove_node; the client is told of no node it does not get).           *)
EdgesWithin == links \subseteq DOMAIN graph.edge \cap (nodes \X nodes)

(* Trimming and fitting never take a seed or its code, and the best one    *)
(* found is always among them: a query that found something is answered.   *)
SeedsSurvive ==
  /\ pc \notin {"idle", "session", "done"} => ToSet(seeds) \subseteq nodes \ stripped
  /\ ranked # <<>> => seeds # <<>> /\ Head(seeds) = Head(ranked)

(* Nodes within k steps, against or along edges, of the nodes from, over   *)
(* relevant nodes.                                                         *)
Near(g, prev, relevant) ==
  prev \cup {m \in relevant : \E n \in prev : {<<m, n>>, <<n, m>>} \cap DOMAIN g.edge # {}}

Within(g, from, relevant, k) ==
  LET layer[j \in 0 .. k] == IF j = 0 THEN from ELSE Near(g, layer[j - 1], relevant)
  IN  layer[k]

(* The loop with its frontier and visited set finds exactly what is within *)
(* the hops of a seed, on paths no irrelevant node interrupts.             *)
ExpansionExact ==
  pc = "types" => nodes = Within(graph, ToSet(seeds), query.relevant, query.hops)

(* The subgraph as a graph of its own.                                     *)
Bundle == [edge |-> [e \in links |-> 0]]

(* Until the budget is applied every node is tied to a seed by the         *)
(* bundle's own edges: no node is there that the edges do not explain.     *)
ContextExplained ==
  pc \in {"types", "configs", "quality"} =>
    nodes = Within(Bundle, ToSet(seeds), nodes, Cardinality(nodes))

(* Every request ends: each turn of the budget loop takes a node out or    *)
(* makes the answer fit (a WHILE TRUE in fit_to_budget).                   *)
RequestAnswered ==
  /\ (pc = "expand") ~> (pc = "answered")
  /\ (pc = "session") ~> (pc = "done")

(* What makes them inductive: until a query is taken nothing was found.    *)
IdleOK ==
  pc = "idle" =>
    /\ nodes = {} /\ links = {} /\ stripped = {} /\ frontier = {} /\ visited = {}
    /\ seeds = <<>> /\ ranked = <<>>

(* After any number of hops: what lies within them is there, and only the  *)
(* frontier can still add to it.                                           *)
HopsExact ==
  /\ pc = "idle" => hop = 0
  /\ pc = "expand" =>
       /\ hop <= query.hops /\ frontier \cup visited \subseteq nodes
       /\ nodes = Within(graph, ToSet(seeds), query.relevant, hop)
       /\ Reached(graph, nodes \ (frontier \ visited), nodes, query.relevant) = {}

(* No set of nodes with all seeds is cut off from the others.              *)
Explained ==
  pc \in {"expand", "types", "configs", "quality"} =>
    \A T \in SUBSET nodes :
      /\ ToSet(seeds) \subseteq T
      /\ \A e \in links : e[1] \in T <=> e[2] \in T
      => T = nodes

RetrievalInv == TypeOK /\ IdleOK /\ EdgesWithin /\ SeedsSurvive
ExpansionInv == HopsExact /\ ExpansionExact /\ Explained
=============================================================================
