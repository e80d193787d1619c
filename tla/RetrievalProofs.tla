-------------------------- MODULE RetrievalProofs --------------------------
(* Theorems of Retrieval, for every graph, budget, gate and ranking.       *)
EXTENDS Retrieval, RecursionLemmas, SequenceTheorems

(* Among positions up to some n there is a last one.                       *)
LEMMA LastPosition ==
  ASSUME NEW n \in Nat, NEW S \in SUBSET (0 .. n), S # {}
  PROVE  Max(S) \in S /\ \A k \in S : Max(S) >= k
<1> DEFINE T == {n - k : k \in S}
           Below == {ss \in Nat \X Nat : ss[1] < ss[2]}
<1>0. \A k \in S : k \in Nat /\ n - k \in Nat
  OBVIOUS
<1>1. T \subseteq Nat /\ T # {}
  BY <1>0
<1>2. PICK x \in T : \A y \in T : <<y, x>> \notin Below
  <2>1. IsWellFoundedOn(Below, Nat)
    BY NatLessThanWellFounded, Zenon DEF OpToRel
  <2> HIDE DEF T, Below
  <2>2. QED
    BY <1>1, <2>1, WFMin
<1>3. \A y \in T : ~ (y < x)
  BY <1>1, <1>2
<1>4. PICK m \in S : x = n - m
  BY <1>2
<1>5. ASSUME NEW k \in S PROVE m >= k
  <2>1. ~ (n - k < n - m)
    BY <1>3, <1>4
  <2>2. QED
    BY <1>0, <1>4, <2>1
<1>6. QED
  BY <1>5 DEF Max

(* The trimmed seeds begin as the ranking does and are among it.           *)
LEMMA TrimKeepsFirst ==
  ASSUME NEW S, NEW ranking \in Seq(S), NEW budget
  PROVE  /\ ToSet(TrimSeeds(ranking, budget)) \subseteq ToSet(ranking)
         /\ ranking # <<>> => /\ TrimSeeds(ranking, budget) # <<>>
                              /\ Head(TrimSeeds(ranking, budget)) = Head(ranking)
<1> DEFINE fits == {k \in 0 .. Len(ranking) :
                      k <= 1 \/ RunningCost(ranking, k) <= (budget * 3) \div 4}
           m == Max(fits)
           kept == SubSeq(ranking, 1, m)
<1>1. Len(ranking) \in Nat /\ DOMAIN ranking = 1 .. Len(ranking)
  BY LenProperties
<1>2. fits \subseteq 0 .. Len(ranking) /\ 0 \in fits
  BY <1>1
<1>3. m \in fits /\ \A k \in fits : m >= k
  <2> HIDE DEF fits
  <2>1. QED
    BY <1>1, <1>2, LastPosition
<1>4. m \in 0 .. Len(ranking)
  BY <1>2, <1>3
<1>5. TrimSeeds(ranking, budget) = kept
  BY DEF TrimSeeds
<1>6. /\ Len(kept) = m /\ DOMAIN kept = 1 .. m
      /\ \A i \in 1 .. m : kept[i] = ranking[i]
  <2> HIDE DEF m
  <2>1. \A i \in 1 .. m : ranking[i] \in S
    BY <1>1, <1>4, ElementOfSeq
  <2>2. kept \in Seq(S) /\ Len(kept) = m /\ \A i \in 1 .. m : kept[i] = ranking[i]
    BY <1>4, <2>1, SubSeqProperties
  <2>3. QED
    BY <2>2, LenProperties
<1>7. ToSet(kept) \subseteq ToSet(ranking)
  <2> HIDE DEF m, kept
  <2>1. QED
    BY <1>1, <1>4, <1>6 DEF ToSet
<1>8. ASSUME ranking # <<>> PROVE kept # <<>> /\ Head(kept) = Head(ranking)
  <2>1. Len(ranking) >= 1
    BY <1>8, <1>1, EmptySeq
  <2>2. 1 \in fits
    BY <2>1, <1>1
  <2>3. m >= 1
    BY <2>2, <1>3
  <2> HIDE DEF m, kept
  <2>4. kept[1] = ranking[1] /\ Len(kept) >= 1
    BY <2>3, <1>4, <1>6
  <2>5. QED
    BY <2>1, <2>4, EmptySeq
<1>9. QED
  BY <1>5, <1>7, <1>8

(* A ranking of nodes is a sequence of them.                               *)
LEMMA RankingIsSequence ==
  ASSUME NEW ns \in SUBSET Ids, NEW r \in Rankings(ns)
  PROVE  r \in Seq(ns) /\ ToSet(r) \subseteq ns
<1>1. Cardinality(ns) \in Nat
  BY GraphAssumption, FS_Subset, FS_CardinalityType
<1>2. r \in [1 .. Cardinality(ns) -> ns]
  BY DEF Rankings
<1>3. r \in Seq(ns)
  BY <1>1, <1>2
<1>4. QED
  BY <1>2, <1>3 DEF ToSet

LEMMA GraphEdges ==
  ASSUME NEW g \in Graphs
  PROVE  /\ g.nodes \subseteq Ids
         /\ \A e \in DOMAIN g.edge :
              e[1] \in g.nodes /\ e[2] \in g.nodes /\ e = <<e[1], e[2]>>
  BY RetrievalAssumption DEF IsGraph

LEMMA InitRetrievalInv == Init => RetrievalInv
<1> SUFFICES ASSUME Init PROVE RetrievalInv
  OBVIOUS
<1>1. TypeOK
  BY DEF Init, TypeOK, Steps
<1>2. IdleOK /\ EdgesWithin /\ SeedsSurvive
  BY DEF Init, IdleOK, EdgesWithin, SeedsSurvive
<1>3. QED
  BY <1>1, <1>2 DEF RetrievalInv

(* What a query finds are nodes of the graph, the best one among them.     *)
LEMMA FindSeedsInv == RetrievalInv /\ FindSeeds => RetrievalInv'
<1> SUFFICES ASSUME RetrievalInv, FindSeeds PROVE RetrievalInv'
  OBVIOUS
<1> USE DEF RetrievalInv, TypeOK, IdleOK, EdgesWithin, SeedsSurvive, sub, walk, found, Steps
<1>1. PICK q \in [budget : Budgets, hops : Hops, repos : RepoFilters, relevant : Relevances] :
        \E hits \in SUBSET VectorHits(q.repos) :
          /\ query' = q
          /\ \/ /\ hits = {}
                /\ pc' = "answered" /\ UNCHANGED <<seeds, ranked, nodes, frontier>>
             \/ /\ hits # {}
                /\ \E all \in SeedSets(hits, q.repos) :
                     Cardinality(all) <= MaxSeeds /\ ranked' \in Rankings(all)
                /\ seeds' = TrimSeeds(ranked', q.budget)
                /\ nodes' = ToSet(seeds') /\ frontier' = ToSet(seeds')
                /\ pc' = "expand"
  BY DEF FindSeeds
<1>2. PICK hits \in SUBSET VectorHits(q.repos) :
          /\ query' = q
          /\ \/ /\ hits = {}
                /\ pc' = "answered" /\ UNCHANGED <<seeds, ranked, nodes, frontier>>
             \/ /\ hits # {}
                /\ \E all \in SeedSets(hits, q.repos) :
                     Cardinality(all) <= MaxSeeds /\ ranked' \in Rankings(all)
                /\ seeds' = TrimSeeds(ranked', q.budget)
                /\ nodes' = ToSet(seeds') /\ frontier' = ToSet(seeds')
                /\ pc' = "expand"
  BY <1>1
<1>3. pc = "idle" /\ UNCHANGED <<graph, links, stripped, visited, hop>>
  BY DEF FindSeeds
<1>4. CASE hits = {}
  <2>1. ToSet(<<>>) = {}
    BY DEF ToSet
  <2>2. QED
    BY <1>2, <1>3, <1>4, <2>1
<1>5. CASE hits # {}
  <2>1. PICK all \in SeedSets(hits, q.repos) : ranked' \in Rankings(all)
    BY <1>2, <1>5
  <2>2. all \subseteq graph.nodes
    BY <1>2, <2>1 DEF SeedSets, VectorHits, Bm25Matches, NameMatches, RouteMatches
  <2>3. all \in SUBSET Ids
    BY <2>2, GraphEdges
  <2>4. ranked' \in Seq(all) /\ ToSet(ranked') \subseteq all
    BY <2>1, <2>3, RankingIsSequence
  <2>5. seeds' = TrimSeeds(ranked', q.budget)
    BY <1>2, <1>5
  <2>6. /\ ToSet(seeds') \subseteq ToSet(ranked')
        /\ ranked' # <<>> => seeds' # <<>> /\ Head(seeds') = Head(ranked')
    BY <2>4, <2>5, TrimKeepsFirst
  <2>7. QED
    BY <1>2, <1>3, <1>5, <2>2, <2>4, <2>6
<1>6. QED
  BY <1>4, <1>5

(* A hop adds nodes of the graph, and edges between nodes that are there.  *)
LEMMA ExpandInv == RetrievalInv /\ (ExpandHop \/ ExpandEnd) => RetrievalInv'
<1> SUFFICES ASSUME RetrievalInv, ExpandHop \/ ExpandEnd PROVE RetrievalInv'
  OBVIOUS
<1> USE DEF RetrievalInv, TypeOK, IdleOK, EdgesWithin, SeedsSurvive, sub, walk, found, Steps
<1>1. CASE ExpandHop
  <2> DEFINE active == frontier \ visited
             new == Reached(graph, active, nodes, query.relevant)
  <2>1. /\ nodes' = nodes \cup new
        /\ links' = links \cup {e \in Touching(graph, active) : {e[1], e[2]} \subseteq nodes'}
        /\ frontier' = new /\ visited' = visited \cup active
        /\ pc = "expand" /\ hop' = hop + 1
        /\ UNCHANGED <<graph, pc, found, stripped>>
    BY <1>1 DEF ExpandHop
  <2>2. Touching(graph, active) \subseteq DOMAIN graph.edge
    BY DEF Touching
  <2>3. new \subseteq graph.nodes
    BY <2>2, GraphEdges DEF Reached, Ends
  <2> HIDE DEF new, active
  <2>4. links' \subseteq DOMAIN graph.edge \cap (nodes' \X nodes')
    <3>1. links \subseteq nodes' \X nodes'
      BY <2>1
    <3>2. ASSUME NEW e \in Touching(graph, active), {e[1], e[2]} \subseteq nodes'
          PROVE  e \in DOMAIN graph.edge \cap (nodes' \X nodes')
      BY <2>2, <3>2, GraphEdges
    <3>3. QED
      BY <2>1, <3>1, <3>2
  <2>5. TypeOK'
    <3>1. frontier \subseteq graph.nodes /\ active \subseteq graph.nodes
      BY DEF active
    <3>2. QED
      BY <2>1, <2>3, <3>1
  <2>6. SeedsSurvive'
    BY <2>1
  <2>7. QED
    BY <2>1, <2>4, <2>5, <2>6
<1>2. CASE ExpandEnd
  BY <1>2 DEF ExpandEnd
<1>3. QED
  BY <1>1, <1>2

(* Types and configuration come as targets of edges of the nodes there.    *)
LEMMA AddContextInv ==
  ASSUME NEW from \in {"types", "configs"}, NEW kind, NEW to \in {"configs", "quality"},
         RetrievalInv, AddContext(from, kind, to)
  PROVE  RetrievalInv'
<1> USE DEF RetrievalInv, TypeOK, IdleOK, EdgesWithin, SeedsSurvive, walk, found, Steps
<1> DEFINE targets == ContextTargets(graph, nodes, kind)
<1>1. /\ pc = from /\ pc' = to /\ nodes' = nodes \cup targets
      /\ \E new \in FirstLinks(graph, nodes, kind, targets) : links' = links \cup new
      /\ UNCHANGED <<graph, found, stripped, walk>>
  BY DEF AddContext
<1>2. targets \subseteq graph.nodes
  BY DEF ContextTargets, Outgoing
<1> HIDE DEF targets
<1>3. PICK new \in FirstLinks(graph, nodes, kind, targets) : links' = links \cup new
  BY <1>1
<1>4. PICK f \in [targets -> nodes] :
        /\ \A m \in targets : m \in Outgoing(graph, f[m], {kind})
        /\ new = {<<f[m], m>> : m \in targets}
  BY <1>3 DEF FirstLinks
<1>5. new \subseteq DOMAIN graph.edge \cap (nodes' \X nodes')
  BY <1>1, <1>4 DEF Outgoing
<1>6. EdgesWithin'
  BY <1>1, <1>3, <1>5
<1>7. TypeOK' /\ SeedsSurvive' /\ IdleOK'
  BY <1>1, <1>2
<1>8. QED
  BY <1>6, <1>7

(* The budget loop takes no node it is to keep, and a node with its edges. *)
LEMMA FitInv ==
  ASSUME NEW from \in {"fit", "session"}, NEW kept, from = "fit" => kept = ToSet(seeds),
         RetrievalInv, Fit(from, kept)
  PROVE  RetrievalInv'
<1> USE DEF RetrievalInv, TypeOK, IdleOK, EdgesWithin, SeedsSurvive, walk, found, Steps
<1>1. PICK n \in Candidates(nodes, links, kept) :
        LET brief == stripped \cup ({n} \cap Summarised)
        IN  \/ stripped' = brief /\ UNCHANGED <<nodes, links>>
            \/ /\ nodes' = nodes \ {n} /\ links' = WithoutNode(links, n)
               /\ stripped' = stripped \ {n}
  BY DEF Fit
<1>2. pc = from /\ UNCHANGED <<graph, pc, found, walk>>
  BY DEF Fit
<1>3. n \in nodes /\ n \notin kept
  BY DEF Candidates
<1>4. links' \subseteq links /\ (nodes' # nodes => \A e \in links' : n \notin {e[1], e[2]})
  BY <1>1 DEF WithoutNode
<1>5. EdgesWithin'
  <2>1. \A e \in links : e[1] \in nodes /\ e[2] \in nodes /\ e = <<e[1], e[2]>>
    OBVIOUS
  <2>2. nodes' = nodes \/ nodes' = nodes \ {n}
    BY <1>1
  <2>3. QED
    BY <1>2, <1>4, <2>1, <2>2
<1>6. TypeOK' /\ IdleOK'
  BY <1>1, <1>2, <1>3
<1>7. SeedsSurvive'
  BY <1>1, <1>2, <1>3
<1>8. QED
  BY <1>5, <1>6, <1>7

LEMMA DedupInv == RetrievalInv /\ Dedup => RetrievalInv'
<1> SUFFICES ASSUME RetrievalInv, Dedup PROVE RetrievalInv'
  OBVIOUS
<1> USE DEF RetrievalInv, TypeOK, IdleOK, EdgesWithin, SeedsSurvive, walk, found, Steps
<1>1. PICK rest \in SUBSET nodes : \E fading \in SUBSET rest :
        /\ nodes' = rest
        /\ links' = {e \in links : {e[1], e[2]} \subseteq rest}
        /\ stripped' = (stripped \cap rest) \cup fading
  BY DEF Dedup
<1>2. pc = "answered" /\ pc' = "session" /\ UNCHANGED <<graph, found, walk>>
  BY DEF Dedup
<1>3. EdgesWithin'
  <2>1. \A e \in links : e = <<e[1], e[2]>> /\ e \in DOMAIN graph.edge
    OBVIOUS
  <2>2. QED
    BY <1>1, <1>2, <2>1
<1>4. TypeOK' /\ IdleOK' /\ SeedsSurvive'
  BY <1>1, <1>2
<1>5. QED
  BY <1>3, <1>4

LEMMA NextRetrievalInv == RetrievalInv /\ [Next]_vars => RetrievalInv'
<1> SUFFICES ASSUME RetrievalInv, [Next]_vars PROVE RetrievalInv'
  OBVIOUS
<1>1. CASE Write
  BY <1>1 DEF Write, RetrievalInv, TypeOK, IdleOK, EdgesWithin, SeedsSurvive, sub, walk, found, Steps
<1>2. CASE FindSeeds
  BY <1>2, FindSeedsInv
<1>3. CASE ExpandHop \/ ExpandEnd
  BY <1>3, ExpandInv
<1>4. CASE \/ AddContext("types", "uses_type", "configs")
           \/ AddContext("configs", "reads_config", "quality")
  BY <1>4, AddContextInv
<1>5. CASE Fit("fit", ToSet(seeds)) \/ Fit("session", {})
  BY <1>5, FitInv
<1>6. CASE \/ AdjustQuality
           \/ FitEnd("fit", ToSet(seeds), "answered") \/ FitEnd("session", {}, "done")
  BY <1>6 DEF AdjustQuality, FitEnd, RetrievalInv, TypeOK, IdleOK, EdgesWithin, SeedsSurvive,
              sub, walk, found, Steps
<1>7. CASE Dedup
  BY <1>7, DedupInv
<1>8. CASE UNCHANGED vars
  BY <1>8 DEF vars, RetrievalInv, TypeOK, IdleOK, EdgesWithin, SeedsSurvive, sub, walk, found, Steps
<1>9. QED
  BY <1>1, <1>2, <1>3, <1>4, <1>5, <1>6, <1>7, <1>8 DEF Next, Step

(* The inductive invariant: what a request holds at each of its steps.     *)
THEOREM RetrievalInvariant == Spec => []RetrievalInv
  BY InitRetrievalInv, NextRetrievalInv, PTL DEF Spec

(* Whatever the query, the graph and the vector store, an answer is made   *)
(* of nodes of the graph.                                                  *)
THEOREM RetrievalTypeCorrect == Spec => []TypeOK
<1>1. RetrievalInv => TypeOK
  BY DEF RetrievalInv
<1>2. QED
  BY <1>1, RetrievalInvariant, PTL

(* No cut of the budget or of the session leaves an edge without its ends. *)
THEOREM BundleEdgesWithin == Spec => []EdgesWithin
<1>1. RetrievalInv => EdgesWithin
  BY DEF RetrievalInv
<1>2. QED
  BY <1>1, RetrievalInvariant, PTL

(* The best node found is a seed whatever it costs, and no seed is cut     *)
(* before the answer is handed over.                                       *)
THEOREM BestSeedAnswered == Spec => []SeedsSurvive
<1>1. RetrievalInv => SeedsSurvive
  BY DEF RetrievalInv
<1>2. QED
  BY <1>1, RetrievalInvariant, PTL

(* What Within is the last layer of.                                       *)
Layers(w, g, from, relevant, k) ==
  Iterates(w, SUBSET (from \cup relevant), from,
           [s \in SUBSET (from \cup relevant) |-> Near(g, s, relevant)], 0, k)

LEMMA NearStep ==
  ASSUME NEW g, NEW from, NEW relevant
  PROVE  /\ from \in SUBSET (from \cup relevant)
         /\ [s \in SUBSET (from \cup relevant) |-> Near(g, s, relevant)]
              \in [SUBSET (from \cup relevant) -> SUBSET (from \cup relevant)]
         /\ \A s \in SUBSET (from \cup relevant) : s \subseteq Near(g, s, relevant)
  BY DEF Near

LEMMA WithinUnfolds ==
  ASSUME NEW g, NEW from, NEW relevant, NEW k \in Nat
  PROVE  \E w : Layers(w, g, from, relevant, k) /\ Within(g, from, relevant, k) = w[k]
<1> DEFINE S == SUBSET (from \cup relevant)
           step == [s \in S |-> Near(g, s, relevant)]
           Rec(w) == w = [j \in 0 .. k |-> IF j = 0 THEN from ELSE Near(g, w[j - 1], relevant)]
<1>1. from \in S /\ step \in [S -> S]
  BY NearStep
<1>2. PICK f : Iterates(f, S, from, step, 0, k)
  <2> HIDE DEF S, step
  <2>1. QED
    BY <1>1, RecursionExists
<1>3. Rec(f)
  <2>1. ASSUME NEW j \in 0 .. k
        PROVE  f[j] = IF j = 0 THEN from ELSE Near(g, f[j - 1], relevant)
    <3>1. CASE j = 0
      BY <1>2, <3>1 DEF Iterates
    <3>2. CASE j # 0
      <4>1. j - 1 \in 0 .. k
        BY <3>2
      <4>2. f[j - 1] \in S /\ f[j] = step[f[j - 1]]
        BY <1>2, <3>2, <4>1 DEF Iterates
      <4>3. QED
        BY <3>2, <4>2
    <3>3. QED
      BY <3>1, <3>2
  <2>2. f = [j \in 0 .. k |-> f[j]]
    BY <1>2 DEF Iterates
  <2>3. QED
    BY <2>1, <2>2
<1> DEFINE w == CHOOSE x : Rec(x)
<1>4. Rec(w)
  <2> HIDE DEF Rec
  <2>1. QED
    BY <1>3
<1>5. Within(g, from, relevant, k) = w[k]
  BY DEF Within
<1>6. Iterates(w, S, from, step, 0, k)
  <2> HIDE DEF w
  <2>1. w = [j \in 0 .. k |-> w[j]] /\ w[0] = from
    BY <1>4
  <2>2. ASSUME NEW j \in 0 .. k, j # 0, w[j - 1] \in S PROVE w[j] = step[w[j - 1]]
    <3>1. w[j] = Near(g, w[j - 1], relevant)
      BY <1>4, <2>2
    <3>2. QED
      BY <2>2, <3>1
  <2> HIDE DEF S, step, Rec
  <2>3. QED
    BY <1>1, <2>1, <2>2, RecursionTyped
<1>7. QED
  BY <1>5, <1>6 DEF Layers

(* Within, hop by hop.                                                     *)
LEMMA WithinSteps ==
  ASSUME NEW g, NEW from, NEW relevant
  PROVE  /\ Within(g, from, relevant, 0) = from
         /\ \A k \in Nat : Within(g, from, relevant, k + 1) = Near(g, Within(g, from, relevant, k), relevant)
<1> DEFINE S == SUBSET (from \cup relevant)
           step == [s \in S |-> Near(g, s, relevant)]
<1>1. Within(g, from, relevant, 0) = from
  <2>1. PICK w : Layers(w, g, from, relevant, 0) /\ Within(g, from, relevant, 0) = w[0]
    BY WithinUnfolds
  <2>2. QED
    BY <2>1 DEF Layers, Iterates
<1>2. ASSUME NEW k \in Nat
      PROVE  Within(g, from, relevant, k + 1) = Near(g, Within(g, from, relevant, k), relevant)
  <2>1. PICK v : Layers(v, g, from, relevant, k) /\ Within(g, from, relevant, k) = v[k]
    BY WithinUnfolds
  <2>2. PICK w : Layers(w, g, from, relevant, k + 1) /\ Within(g, from, relevant, k + 1) = w[k + 1]
    BY WithinUnfolds
  <2>3. Iterates(v, S, from, step, 0, k) /\ Iterates(w, S, from, step, 0, k + 1)
    BY <2>1, <2>2 DEF Layers
  <2>4. from \in S /\ step \in [S -> S]
    BY NearStep
  <2>5. k \in 0 .. k /\ k \in 0 .. k + 1 /\ k + 1 \in 0 .. k + 1 /\ k + 1 # 0 /\ (k + 1) - 1 = k
    OBVIOUS
  <2> HIDE DEF S, step
  <2>6. v[k] = w[k]
    BY <2>3, <2>4, <2>5, RunsAgree
  <2>7. w[k + 1] = step[w[k]] /\ w[k] \in S
    BY <2>3, <2>5 DEF Iterates
  <2>8. QED
    BY <2>1, <2>2, <2>6, <2>7 DEF step
<1>3. QED
  BY <1>1, <1>2

(* After as many hops as there are nodes nothing is left to reach.         *)
LEMMA WithinSaturates ==
  ASSUME NEW g, NEW relevant, IsFiniteSet(relevant), NEW from \in SUBSET relevant,
         NEW k \in Nat, Cardinality(relevant) <= k
  PROVE  /\ Within(g, from, relevant, k) \in SUBSET relevant
         /\ from \subseteq Within(g, from, relevant, k)
         /\ Near(g, Within(g, from, relevant, k), relevant) = Within(g, from, relevant, k)
<1> DEFINE S == SUBSET (from \cup relevant)
           step == [s \in S |-> Near(g, s, relevant)]
<1>1. PICK w : Layers(w, g, from, relevant, k) /\ Within(g, from, relevant, k) = w[k]
  BY WithinUnfolds
<1>2. from \cup relevant = relevant
  OBVIOUS
<1>3. /\ from \in S /\ step \in [S -> S] /\ \A s \in S : s \subseteq step[s]
  BY NearStep
<1>4. Iterates(w, S, from, step, 0, k) /\ w[k] \in S
  <2>1. Iterates(w, S, from, step, 0, k)
    BY <1>1 DEF Layers
  <2> HIDE DEF S, step
  <2>2. QED
    BY <2>1 DEF Iterates
<1>5. step[w[k]] = w[k]
  <2>1. S = SUBSET relevant
    BY <1>2
  <2> HIDE DEF S, step
  <2>2. QED
    BY <1>3, <1>4, <2>1, Saturation
<1>6. from \subseteq w[k]
  <2> DEFINE Good == {j \in Nat : j <= k => from \subseteq w[j]}
  <2>1. 0 \in Good
    BY <1>4 DEF Iterates
  <2>2. ASSUME NEW j \in Nat, j \in Good PROVE j + 1 \in Good
    <3>1. SUFFICES ASSUME j + 1 <= k PROVE from \subseteq w[j + 1]
      OBVIOUS
    <3>2. j + 1 \in 0 .. k /\ j + 1 # 0 /\ (j + 1) - 1 = j /\ j \in 0 .. k
      BY <3>1
    <3>3. w[j] \in S /\ w[j + 1] = step[w[j]]
      <4> HIDE DEF S, step, Good
      <4>1. QED
        BY <1>4, <3>2 DEF Iterates
    <3>4. from \subseteq w[j]
      BY <2>2, <3>2
    <3> HIDE DEF step, Good
    <3>5. QED
      BY <1>3, <3>3, <3>4
  <2>3. \A j \in Nat : j \in Good
    <3> HIDE DEF Good
    <3>1. QED
      BY <2>1, <2>2, NatSetInduction
  <2>4. QED
    BY <2>3
<1>7. QED
  BY <1>1, <1>2, <1>4, <1>5, <1>6

(* The neighbours of all nodes are those of the frontier and those that    *)
(* are there.                                                              *)
LEMMA HopIsNear ==
  ASSUME NEW g \in Graphs, NEW have, NEW active \in SUBSET have, NEW relevant,
         Reached(g, have \ active, have, relevant) = {}
  PROVE  /\ have \cup Reached(g, active, have, relevant) = Near(g, have, relevant)
         /\ Reached(g, have, have \cup Reached(g, active, have, relevant), relevant) = {}
<1> DEFINE new == Reached(g, active, have, relevant)
           Joined(m, n) == <<m, n>> \in DOMAIN g.edge \/ <<n, m>> \in DOMAIN g.edge
<1>1. ASSUME NEW s \in SUBSET have, NEW m
      PROVE  m \in Ends(Touching(g, s)) /\ m \notin have => \E n \in s : Joined(m, n)
  BY GraphEdges DEF Ends, Touching
<1>2. ASSUME NEW s, NEW n \in s, NEW m, Joined(m, n) PROVE m \in Ends(Touching(g, s))
  <2>1. CASE <<m, n>> \in DOMAIN g.edge
    <3>1. <<m, n>> \in Touching(g, s)
      BY <2>1 DEF Touching
    <3>2. <<m, n>>[1] = m
      OBVIOUS
    <3>3. QED
      BY <3>1, <3>2 DEF Ends
  <2>2. CASE <<n, m>> \in DOMAIN g.edge
    <3>1. <<n, m>> \in Touching(g, s)
      BY <2>2 DEF Touching
    <3>2. <<n, m>>[2] = m
      OBVIOUS
    <3>3. QED
      BY <3>1, <3>2 DEF Ends
  <2>3. QED
    BY <1>2, <2>1, <2>2
<1>3. ASSUME NEW m PROVE m \in Near(g, have, relevant)
                          <=> m \in have \/ (m \in relevant /\ \E n \in have : Joined(m, n))
  BY DEF Near
<1>4. /\ \A m : m \in new <=> m \in Ends(Touching(g, active)) /\ m \in relevant /\ m \notin have
      /\ \A m : ~ (m \in Ends(Touching(g, have \ active)) /\ m \in relevant /\ m \notin have)
  BY DEF Reached
<1> HIDE DEF new, Joined
<1>5. ASSUME NEW m PROVE m \in have \cup new <=> m \in Near(g, have, relevant)
  <2>1. ASSUME m \in new PROVE m \in Near(g, have, relevant)
    <3>1. PICK n \in active : Joined(m, n)
      BY <1>1, <1>4, <2>1
    <3>2. QED
      BY <1>3, <1>4, <2>1, <3>1
  <2>2. ASSUME m \notin have, m \in relevant, NEW n \in have, Joined(m, n) PROVE m \in new
    <3>1. CASE n \in active
      BY <1>2, <1>4, <2>2, <3>1
    <3>2. CASE n \in have \ active
      BY <1>2, <1>4, <2>2, <3>2
    <3>3. QED
      BY <3>1, <3>2
  <2>3. QED
    BY <1>3, <2>1, <2>2
<1>6. ASSUME NEW m, m \in Ends(Touching(g, have)), m \in relevant, m \notin have PROVE m \in new
  <2>1. PICK n \in have : Joined(m, n)
    BY <1>1, <1>6
  <2>2. QED
    BY <1>3, <1>5, <1>6, <2>1
<1>7. Reached(g, have, have \cup new, relevant) = {}
  BY <1>6 DEF Reached
<1>8. QED
  BY <1>5, <1>7 DEF new

LEMMA FindSeedsExpansion ==
  RetrievalInv /\ ExpansionInv /\ FindSeeds => ExpansionInv'
<1> SUFFICES ASSUME RetrievalInv, ExpansionInv, FindSeeds PROVE ExpansionInv'
  OBVIOUS
<1>1. /\ pc = "idle" /\ visited = {} /\ hop = 0 /\ visited' = {} /\ hop' = 0 /\ graph' = graph
  BY DEF RetrievalInv, IdleOK, ExpansionInv, HopsExact, FindSeeds
<1>2. CASE pc' = "answered"
  BY <1>2 DEF ExpansionInv, HopsExact, ExpansionExact, Explained
<1>3. CASE /\ pc' = "expand" /\ nodes' = ToSet(seeds') /\ frontier' = ToSet(seeds')
           /\ query'.hops \in Hops
  <2>1. nodes' = Within(graph', ToSet(seeds'), query'.relevant, hop')
    BY <1>1, <1>3, WithinSteps
  <2>2. Reached(graph', nodes' \ (frontier' \ visited'), nodes', query'.relevant) = {}
    <3>1. nodes' \ (frontier' \ visited') = {}
      BY <1>1, <1>3
    <3>2. QED
      BY <3>1 DEF Reached, Touching, Ends
  <2>3. hop' <= query'.hops
    <3>1. query'.hops \in Nat
      BY <1>3, RetrievalAssumption
    <3>2. QED
      BY <1>1, <3>1
  <2>4. HopsExact'
    BY <1>1, <1>3, <2>1, <2>2, <2>3 DEF HopsExact
  <2>5. QED
    BY <1>3, <2>4 DEF ExpansionInv, ExpansionExact, Explained
<1>4. QED
  BY <1>2, <1>3 DEF FindSeeds

(* A hop goes one step further, and ties what it adds to what was there.   *)
LEMMA ExpandHopExpansion ==
  RetrievalInv /\ ExpansionInv /\ ExpandHop => ExpansionInv'
<1> SUFFICES ASSUME RetrievalInv, ExpansionInv, ExpandHop PROVE ExpansionInv'
  OBVIOUS
<1> DEFINE active == frontier \ visited
           relevant == query.relevant
           new == Reached(graph, active, nodes, relevant)
<1>1. /\ nodes' = nodes \cup new
      /\ links' = links \cup {e \in Touching(graph, active) : {e[1], e[2]} \subseteq nodes'}
      /\ frontier' = new /\ visited' = visited \cup active
      /\ pc = "expand" /\ hop < query.hops /\ hop' = hop + 1
      /\ pc' = pc /\ graph' = graph /\ query' = query /\ seeds' = seeds
  BY DEF ExpandHop, found
<1>2. /\ frontier \cup visited \subseteq nodes /\ active \subseteq nodes
      /\ nodes = Within(graph, ToSet(seeds), relevant, hop)
      /\ Reached(graph, nodes \ active, nodes, relevant) = {}
      /\ graph \in Graphs /\ hop \in Nat /\ query.hops \in Nat
      /\ links \subseteq nodes \X nodes
      /\ ToSet(seeds) \subseteq nodes
  BY <1>1, RetrievalAssumption
  DEF ExpansionInv, HopsExact, RetrievalInv, TypeOK, EdgesWithin, SeedsSurvive
<1>3. /\ nodes' = Near(graph, nodes, relevant)
      /\ Reached(graph, nodes, nodes', relevant) = {}
  BY <1>1, <1>2, HopIsNear
<1>4. HopsExact'
  <2>1. nodes' = Within(graph, ToSet(seeds), relevant, hop + 1)
    BY <1>2, <1>3, WithinSteps
  <2>2. nodes' \ (frontier' \ visited') = nodes
    <3>1. new \cap nodes = {}
      BY DEF Reached
    <3> HIDE DEF new, active
    <3>2. visited' \subseteq nodes
      BY <1>1, <1>2
    <3>3. QED
      BY <1>1, <3>1, <3>2
  <2>3. frontier' \cup visited' \subseteq nodes' /\ hop' <= query'.hops
    BY <1>1, <1>2
  <2>4. ToSet(seeds)' = ToSet(seeds)
    BY <1>1
  <2> HIDE DEF new, active
  <2>5. QED
    BY <1>1, <1>3, <2>1, <2>2, <2>3, <2>4 DEF HopsExact
<1>5. ASSUME NEW T \in SUBSET nodes', ToSet(seeds') \subseteq T,
             \A e \in links' : e[1] \in T <=> e[2] \in T
      PROVE  T = nodes'
  <2>1. T \cap nodes = nodes
    <3>1. \A e \in links : e[1] \in T \cap nodes <=> e[2] \in T \cap nodes
      BY <1>1, <1>2, <1>5
    <3>2. ToSet(seeds) \subseteq T \cap nodes
      BY <1>1, <1>2, <1>5
    <3>3. QED
      BY <1>1, <3>1, <3>2 DEF ExpansionInv, Explained
  <2>2. ASSUME NEW m \in new PROVE m \in T
    <3>1. PICK e \in Touching(graph, active) : m = e[1] \/ m = e[2]
      BY DEF Reached, Ends
    <3>2. m \notin nodes
      BY DEF Reached
    <3>3. (e[1] = m /\ e[2] \in active) \/ (e[2] = m /\ e[1] \in active)
      BY <1>2, <3>1, <3>2 DEF Touching
    <3>4. e \in links'
      BY <1>1, <1>2, <3>1, <3>3
    <3>5. QED
      BY <1>2, <1>5, <2>1, <3>3, <3>4
  <2> HIDE DEF new
  <2>3. QED
    BY <1>1, <2>1, <2>2
<1>6. Explained'
  BY <1>5 DEF Explained
<1>7. ExpansionExact'
  BY <1>1 DEF ExpansionExact
<1>8. QED
  BY <1>4, <1>6, <1>7 DEF ExpansionInv

LEMMA AddContextExpansion ==
  ASSUME NEW from \in {"types", "configs"}, NEW kind, NEW to \in {"configs", "quality"},
         RetrievalInv, ExpansionInv, AddContext(from, kind, to)
  PROVE  ExpansionInv'
<1> DEFINE targets == ContextTargets(graph, nodes, kind)
<1>1. /\ pc = from /\ pc' = to /\ nodes' = nodes \cup targets /\ seeds' = seeds
      /\ \E new \in FirstLinks(graph, nodes, kind, targets) : links' = links \cup new
  BY DEF AddContext, found
<1> HIDE DEF targets
<1>2. PICK f \in [targets -> nodes] : links' = links \cup {<<f[m], m>> : m \in targets}
  BY <1>1 DEF FirstLinks
<1>3. links \subseteq nodes \X nodes /\ ToSet(seeds) \subseteq nodes
  BY <1>1 DEF RetrievalInv, EdgesWithin, SeedsSurvive
<1>4. ASSUME NEW T \in SUBSET nodes', ToSet(seeds') \subseteq T,
             \A e \in links' : e[1] \in T <=> e[2] \in T
      PROVE  T = nodes'
  <2>1. T \cap nodes = nodes
    <3>1. \A e \in links : e[1] \in T \cap nodes <=> e[2] \in T \cap nodes
      BY <1>2, <1>3, <1>4
    <3>2. ToSet(seeds) \subseteq T \cap nodes
      BY <1>1, <1>3, <1>4
    <3>3. QED
      BY <1>1, <3>1, <3>2 DEF ExpansionInv, Explained
  <2>2. ASSUME NEW m \in targets PROVE m \in T
    <3>1. <<f[m], m>> \in links' /\ f[m] \in nodes
      BY <1>2
    <3>2. <<f[m], m>>[1] \in T <=> <<f[m], m>>[2] \in T
      BY <1>4, <3>1
    <3>3. QED
      BY <2>1, <3>1, <3>2
  <2>3. QED
    BY <1>1, <2>1, <2>2
<1>5. QED
  BY <1>1, <1>4 DEF ExpansionInv, HopsExact, ExpansionExact, Explained

LEMMA NextExpansionInv == RetrievalInv /\ ExpansionInv /\ [Next]_vars => ExpansionInv'
<1> SUFFICES ASSUME RetrievalInv, ExpansionInv, [Next]_vars PROVE ExpansionInv'
  OBVIOUS
<1>1. CASE Write
  BY <1>1 DEF Write, ExpansionInv, HopsExact, ExpansionExact, Explained, sub, walk, found
<1>2. CASE FindSeeds
  BY <1>2, FindSeedsExpansion
<1>3. CASE ExpandHop
  BY <1>3, ExpandHopExpansion
<1>4. CASE ExpandEnd
  BY <1>4 DEF ExpandEnd, ExpansionInv, HopsExact, ExpansionExact, Explained, sub, walk, found
<1>5. CASE \/ AddContext("types", "uses_type", "configs")
           \/ AddContext("configs", "reads_config", "quality")
  BY <1>5, AddContextExpansion
<1>6. CASE \/ AdjustQuality \/ Dedup
           \/ Fit("fit", ToSet(seeds)) \/ FitEnd("fit", ToSet(seeds), "answered")
           \/ Fit("session", {}) \/ FitEnd("session", {}, "done")
  <2>1. pc' \in {"fit", "answered", "session", "done"}
    BY <1>6 DEF AdjustQuality, Dedup, Fit, FitEnd
  <2>2. QED
    BY <2>1 DEF ExpansionInv, HopsExact, ExpansionExact, Explained
<1>7. CASE UNCHANGED vars
  BY <1>7 DEF vars, ExpansionInv, HopsExact, ExpansionExact, Explained, sub, walk, found
<1>8. QED
  BY <1>1, <1>2, <1>3, <1>4, <1>5, <1>6, <1>7 DEF Next, Step

LEMMA InitExpansionInv == Init => ExpansionInv
  BY DEF Init, ExpansionInv, HopsExact, ExpansionExact, Explained

(* The invariant of the walk: exact after every hop, and never a set of    *)
(* nodes apart from the seeds.                                             *)
THEOREM ExpansionInvariant == Spec => []ExpansionInv
  BY InitExpansionInv, NextExpansionInv, RetrievalInvariant, PTL DEF Spec

(* For every graph, gate and number of hops the walk finds what lies       *)
(* within the hops of a seed, and nothing else.                            *)
THEOREM ExpansionIsExact == Spec => []ExpansionExact
<1>1. ExpansionInv => ExpansionExact
  BY DEF ExpansionInv
<1>2. QED
  BY <1>1, ExpansionInvariant, PTL

(* Every node of the bundle hangs together with a seed by the bundle's own *)
(* edges, through the walk and the context that is added to it.            *)
THEOREM ContextIsExplained == Spec => []ContextExplained
<1>1. RetrievalInv /\ ExpansionInv => ContextExplained
  <2> SUFFICES ASSUME RetrievalInv, ExpansionInv, pc \in {"types", "configs", "quality"}
               PROVE  nodes = Within(Bundle, ToSet(seeds), nodes, Cardinality(nodes))
    BY DEF ContextExplained
  <2> DEFINE T == Within(Bundle, ToSet(seeds), nodes, Cardinality(nodes))
  <2>1. /\ graph \in Graphs /\ nodes \subseteq graph.nodes
        /\ links \subseteq nodes \X nodes /\ ToSet(seeds) \subseteq nodes
    BY DEF RetrievalInv, TypeOK, EdgesWithin, SeedsSurvive
  <2>2. IsFiniteSet(nodes) /\ Cardinality(nodes) \in Nat
    <3>1. nodes \subseteq Ids
      BY <2>1, GraphEdges
    <3>2. QED
      BY <3>1, GraphAssumption, FS_Subset, FS_CardinalityType
  <2>3. /\ T \in SUBSET nodes /\ ToSet(seeds) \subseteq T
        /\ Near(Bundle, T, nodes) = T
    <3> DEFINE k == Cardinality(nodes)
               from == ToSet(seeds)
    <3>1. from \in SUBSET nodes /\ k \in Nat /\ Cardinality(nodes) <= k
      BY <2>1, <2>2
    <3>2. T = Within(Bundle, from, nodes, k)
      OBVIOUS
    <3> HIDE DEF k, from, T
    <3>3. QED
      BY <2>2, <3>1, <3>2, WithinSaturates DEF from
  <2>4. DOMAIN Bundle.edge = links
    BY DEF Bundle
  <2> HIDE DEF T
  <2>5. ASSUME NEW e \in links PROVE e[1] \in T <=> e[2] \in T
    <3>1. e[1] \in nodes /\ e[2] \in nodes /\ e = <<e[1], e[2]>>
      BY <2>1
    <3>2. \A m \in nodes, n \in T : <<m, n>> \in links \/ <<n, m>> \in links => m \in T
      BY <2>3, <2>4 DEF Near
    <3>3. QED
      BY <3>1, <3>2
  <2>6. T = nodes
    BY <2>3, <2>5 DEF ExpansionInv, Explained
  <2>7. QED
    BY <2>6 DEF T
<1>2. QED
  BY <1>1, RetrievalInvariant, ExpansionInvariant, PTL

-----------------------------------------------------------------------------
(* The vector store.                                                       *)

LEMMA CurrentCarries == VectorInv => RowsCarryLatest
<1> SUFFICES ASSUME VectorInv PROVE RowsCarryLatest
  OBVIOUS
<1>1. \A n : n \in ToSet(ids) <=> \E p \in DOMAIN ids : ids[p] = n
  BY DEF ToSet
<1>2. DOMAIN ids = 1 .. Len(ids)
  BY DEF VectorInv, Current
<1>3. DOMAIN at = {n \in Ids : latest[n] # 0}
  BY DEF VectorInv, Current
<1>4. ToSet(ids) = DOMAIN at
  <2>1. \A p \in 1 .. Len(ids) : ids[p] \in DOMAIN at
    BY DEF VectorInv, Current
  <2>2. \A n \in DOMAIN at : at[n] \in 1 .. Len(ids) /\ ids[at[n]] = n
    BY DEF VectorInv, Current
  <2>3. \A n : n \in ToSet(ids) <=> n \in DOMAIN at
    BY <1>1, <1>2, <2>1, <2>2
  <2>4. QED
    BY <2>3
<1>5. QED
  BY <1>3, <1>4 DEF VectorInv, Current, RowsCarryLatest

(* An id that is not there yet goes to the end of everything.              *)
LEMMA CurrentAppended ==
  ASSUME NEW i, NEW m, NEW r, NEW a, NEW l, Current(i, m, r, a, l),
         NEW n \in Ids, n \notin DOMAIN a, NEW v \in Nat \ {0}
  PROVE  Current(Append(i, n), Append(m, v), Append(r, v), Entered(a, n, Len(i) + 1),
                 [l EXCEPT ![n] = v])
<1> DEFINE b == Entered(a, n, Len(i) + 1)
           j == Append(i, n)
           s == Append(m, v)
           q == Append(r, v)
           k == [l EXCEPT ![n] = v]
<1>1. /\ i \in Seq(Ids) /\ m \in Seq(Nat) /\ r \in Seq(Nat) /\ l \in [Ids -> Nat]
      /\ Len(i) \in Nat /\ Len(r) = Len(i) /\ Len(m) = Len(i)
  BY DEF Current
<1>2. /\ j \in Seq(Ids) /\ s \in Seq(Nat) /\ q \in Seq(Nat)
      /\ Len(j) = Len(i) + 1 /\ Len(s) = Len(i) + 1 /\ Len(q) = Len(i) + 1
      /\ j[Len(i) + 1] = n /\ s[Len(i) + 1] = v /\ q[Len(i) + 1] = v
      /\ \A p \in 1 .. Len(i) : j[p] = i[p] /\ s[p] = m[p] /\ q[p] = r[p]
  BY <1>1
<1>3. k \in [Ids -> Nat] /\ k[n] = v /\ \A x \in Ids : x # n => k[x] = l[x]
  BY <1>1
<1>4. /\ DOMAIN b = {n} \cup DOMAIN a /\ b[n] = Len(i) + 1
      /\ \A x \in DOMAIN a : b[x] = a[x]
      /\ b = [x \in DOMAIN b |-> b[x]]
  BY DEF Entered
<1> HIDE DEF b, j, s, q, k
<1>5. \A x \in Ids : x \in DOMAIN b <=> k[x] # 0
  BY <1>3, <1>4 DEF Current
<1>6. \A x \in DOMAIN b : x \in Ids /\ b[x] \in 1 .. Len(j) /\ j[b[x]] = x
  BY <1>1, <1>2, <1>4 DEF Current
<1>7. ASSUME NEW p \in 1 .. Len(j)
      PROVE  j[p] \in DOMAIN b /\ b[j[p]] = p /\ s[p] = k[j[p]] /\ q[p] = k[j[p]]
  <2>1. CASE p \in 1 .. Len(i)
    <3>1. i[p] \in DOMAIN a /\ a[i[p]] = p /\ m[p] = l[i[p]] /\ r[p] = l[i[p]] /\ i[p] \in Ids
      BY <1>1, <2>1 DEF Current
    <3>2. j[p] = i[p] /\ s[p] = m[p] /\ q[p] = r[p]
      BY <1>2, <2>1
    <3>3. i[p] # n /\ k[i[p]] = l[i[p]] /\ b[i[p]] = a[i[p]] /\ i[p] \in DOMAIN b
      BY <1>3, <1>4, <3>1
    <3>4. QED
      BY <3>1, <3>2, <3>3
  <2>2. CASE p = Len(i) + 1
    BY <1>2, <1>3, <1>4, <2>2
  <2>3. QED
    BY <1>1, <1>2, <1>7, <2>1, <2>2
<1>8. Current(j, s, q, b, k)
  BY <1>2, <1>3, <1>4, <1>5, <1>6, <1>7 DEF Current
<1>9. QED
  BY <1>8 DEF b, j, s, q, k

(* A known one is written where it is.                                     *)
LEMMA CurrentReplaced ==
  ASSUME NEW i, NEW m, NEW r, NEW a, NEW l, Current(i, m, r, a, l),
         NEW n \in DOMAIN a, NEW v \in Nat \ {0}
  PROVE  Current(i, [m EXCEPT ![a[n]] = v], [r EXCEPT ![a[n]] = v], a, [l EXCEPT ![n] = v])
<1> DEFINE s == [m EXCEPT ![a[n]] = v]
           q == [r EXCEPT ![a[n]] = v]
           k == [l EXCEPT ![n] = v]
<1>1. /\ i \in Seq(Ids) /\ m \in Seq(Nat) /\ r \in Seq(Nat) /\ l \in [Ids -> Nat]
      /\ Len(i) \in Nat /\ Len(r) = Len(i) /\ Len(m) = Len(i)
      /\ n \in Ids /\ a[n] \in 1 .. Len(i)
  BY DEF Current
<1>2. /\ s \in Seq(Nat) /\ q \in Seq(Nat) /\ Len(s) = Len(i) /\ Len(q) = Len(i)
      /\ s[a[n]] = v /\ q[a[n]] = v
      /\ \A p \in 1 .. Len(i) : p # a[n] => s[p] = m[p] /\ q[p] = r[p]
  BY <1>1
<1>3. k \in [Ids -> Nat] /\ k[n] = v /\ \A x \in Ids : x # n => k[x] = l[x]
  BY <1>1
<1> HIDE DEF s, q, k
<1>4. \A x \in Ids : x \in DOMAIN a <=> k[x] # 0
  BY <1>1, <1>3 DEF Current
<1>5. ASSUME NEW p \in 1 .. Len(i)
      PROVE  i[p] \in DOMAIN a /\ a[i[p]] = p /\ s[p] = k[i[p]] /\ q[p] = k[i[p]]
  <2>1. i[p] \in Ids /\ i[p] \in DOMAIN a /\ a[i[p]] = p /\ i[a[n]] = n
    BY DEF Current
  <2>2. CASE p = a[n]
    BY <1>2, <1>3, <2>1, <2>2
  <2>3. CASE p # a[n]
    <3>1. i[p] # n
      BY <2>1, <2>3
    <3>2. QED
      BY <1>2, <1>3, <2>1, <2>3, <3>1 DEF Current
  <2>4. QED
    BY <2>2, <2>3
<1>6. Current(i, s, q, a, k)
  BY <1>1, <1>2, <1>3, <1>4, <1>5 DEF Current
<1>7. QED
  BY <1>6 DEF s, q, k

LEMMA FunctionIsSeq ==
  ASSUME NEW S, NEW n \in Nat, NEW f \in [1 .. n -> S]
  PROVE  f \in Seq(S) /\ Len(f) = n
OBVIOUS

LEMMA Appended ==
  ASSUME NEW S, NEW s \in Seq(S), NEW v \in S, NEW x, x = Append(s, v)
  PROVE  /\ x \in Seq(S) /\ Len(s) \in Nat /\ Len(x) = Len(s) + 1 /\ x[Len(s) + 1] = v
         /\ \A p \in 1 .. Len(s) : x[p] = s[p]
OBVIOUS

LEMMA IsJoin ==
  ASSUME NEW s \in Seq(Nat), NEW t \in Seq(Nat), NEW x \in Seq(Nat), Len(x) = Len(s) + Len(t),
         \A p \in 1 .. Len(s) : x[p] = s[p],
         \A k \in 1 .. Len(t) : x[Len(s) + k] = t[k]
  PROVE  x = s \o t
<1> DEFINE y == s \o t
<1>1. /\ y \in Seq(Nat) /\ Len(s) \in Nat /\ Len(t) \in Nat /\ Len(y) = Len(s) + Len(t)
      /\ \A p \in 1 .. Len(s) : y[p] = s[p]
      /\ \A k \in 1 .. Len(t) : y[Len(s) + k] = t[k]
  OBVIOUS
<1> HIDE DEF y
<1>2. ASSUME NEW q \in 1 .. Len(x) PROVE x[q] = y[q]
  <2>1. CASE q <= Len(s)
    BY <1>1, <2>1
  <2>2. CASE ~ (q <= Len(s))
    <3>1. q - Len(s) \in 1 .. Len(t) /\ Len(s) + (q - Len(s)) = q
      BY <1>1, <2>2
    <3>2. x[Len(s) + (q - Len(s))] = y[Len(s) + (q - Len(s))]
      BY <1>1, <3>1
    <3>3. QED
      BY <3>1, <3>2
  <2>3. QED
    BY <2>1, <2>2
<1>3. x = y
  BY <1>1, <1>2, SeqEqual
<1>4. QED
  BY <1>3 DEF y

(* A matrix is what the loop has decided on.                               *)
Decided(matrix, updates, appends, version) ==
  /\ matrix \in Seq(Nat) /\ Len(matrix) = Len(rows) + Len(appends)
  /\ \A p \in 1 .. Len(rows) :
       /\ p \in DOMAIN updates => matrix[p] = version[updates[p]]
       /\ p \notin DOMAIN updates => matrix[p] = rows[p]
  /\ \A k \in 1 .. Len(appends) : matrix[Len(rows) + k] = version[appends[k]]

(* After some ids of a batch.                                              *)
Putting(acc, matrix, version) ==
  /\ acc = [ids |-> acc.ids, metas |-> acc.metas, at |-> acc.at, updates |-> acc.updates,
            appends |-> acc.appends, latest |-> acc.latest]
  /\ \A p \in DOMAIN acc.updates :
       p \in 1 .. Len(rows) /\ acc.updates[p] \in 1 .. Len(version)
  /\ acc.appends \in Seq(1 .. Len(version))
  /\ Decided(matrix, acc.updates, acc.appends, version)
  /\ Current(acc.ids, acc.metas, matrix, acc.at, acc.latest)

LEMMA DecidedRows ==
  ASSUME NEW version \in Seq(Nat), rows \in Seq(Nat),
         NEW updates, NEW appends \in Seq(1 .. Len(version)), NEW matrix,
         \A p \in DOMAIN updates :
           p \in 1 .. Len(rows) /\ updates[p] \in 1 .. Len(version),
         Decided(matrix, updates, appends, version)
  PROVE  matrix = [p \in 1 .. Len(rows) |->
                     IF p \in DOMAIN updates THEN version[updates[p]] ELSE rows[p]]
                  \o [k \in 1 .. Len(appends) |-> version[appends[k]]]
<1> DEFINE u == [p \in 1 .. Len(rows) |->
                   IF p \in DOMAIN updates THEN version[updates[p]] ELSE rows[p]]
           w == [k \in 1 .. Len(appends) |-> version[appends[k]]]
           N == Len(rows)
           M == Len(appends)
<1>1. N \in Nat /\ M \in Nat
  OBVIOUS
<1>2. /\ \A q \in 1 .. N : u[q] \in Nat /\ u[q] = matrix[q]
      /\ \A k \in 1 .. M : w[k] \in Nat /\ w[k] = matrix[N + k]
  <2>1. \A q \in 1 .. N : u[q] = matrix[q]
    BY DEF Decided
  <2>2. \A k \in 1 .. M : w[k] = matrix[N + k]
    BY DEF Decided
  <2>3. \A q \in 1 .. N + M : matrix[q] \in Nat
    BY DEF Decided
  <2> HIDE DEF u, w, N, M
  <2>4. QED
    BY <1>1, <2>1, <2>2, <2>3
<1>3. u = [q \in 1 .. N |-> u[q]] /\ w = [k \in 1 .. M |-> w[k]]
  OBVIOUS
<1> HIDE DEF u, w, N, M
<1>4. u \in [1 .. N -> Nat] /\ w \in [1 .. M -> Nat]
  BY <1>2, <1>3
<1>5. /\ u \in Seq(Nat) /\ Len(u) = N /\ w \in Seq(Nat) /\ Len(w) = M
  BY <1>1, <1>4, FunctionIsSeq
<1>6. matrix \in Seq(Nat) /\ Len(matrix) = N + M
  BY DEF Decided, N, M
<1>7. matrix = u \o w
  BY ONLY <1>2, <1>5, <1>6, IsJoin
<1>8. QED
  BY <1>7 DEF u, w

(* What an id does to the matrix.                                          *)
LEMMA DecidedAppend ==
  ASSUME NEW version \in Seq(Nat), rows \in Seq(Nat), NEW j \in 1 .. Len(version),
         NEW updates, NEW appends \in Seq(1 .. Len(version)), NEW matrix,
         Decided(matrix, updates, appends, version)
  PROVE  Decided(Append(matrix, version[j]), updates, Append(appends, j), version)
<1> DEFINE x == Append(matrix, version[j])
           more == Append(appends, j)
           N == Len(rows)
           M == Len(appends)
<1>1. N \in Nat /\ M \in Nat /\ version[j] \in Nat
  OBVIOUS
<1>2. matrix \in Seq(Nat) /\ Len(matrix) = N + M
  BY DEF Decided
<1>3. /\ x \in Seq(Nat) /\ Len(x) = (N + M) + 1 /\ x[(N + M) + 1] = version[j]
      /\ \A q \in 1 .. N + M : x[q] = matrix[q]
  <2> DEFINE v == version[j]
             L == Len(matrix)
  <2>1. x = Append(matrix, v)
    OBVIOUS
  <2> HIDE DEF v, x
  <2>2. v \in Nat
    BY <1>1 DEF v
  <2>3. /\ x \in Seq(Nat) /\ Len(x) = L + 1 /\ x[L + 1] = v
        /\ \A q \in 1 .. L : x[q] = matrix[q]
    BY ONLY <1>2, <2>1, <2>2, Appended
  <2>4. L = N + M
    BY <1>2
  <2> HIDE DEF L, N, M
  <2>5. QED
    BY <2>3, <2>4 DEF v
<1>4. /\ Len(more) = M + 1 /\ more[M + 1] = j
      /\ \A k \in 1 .. M : more[k] = appends[k]
  OBVIOUS
<1>5. \A p \in 1 .. N : p \in 1 .. N + M
  BY <1>1
<1>6. \A k \in 1 .. M : N + k \in 1 .. N + M
  BY <1>1
<1> HIDE DEF x, more
<1>7. ASSUME NEW k \in 1 .. M + 1 PROVE x[N + k] = version[more[k]]
  <2>1. CASE k \in 1 .. M
    BY <1>3, <1>4, <1>6, <2>1 DEF Decided
  <2>2. CASE k = M + 1
    <3>1. N + k = (N + M) + 1
      BY <1>1, <2>2
    <3>2. QED
      BY <1>3, <1>4, <2>2, <3>1
  <2>3. QED
    BY <1>1, <2>1, <2>2
<1>8. Len(x) = N + Len(more)
  BY <1>1, <1>3, <1>4
<1>9. \A p \in 1 .. N : /\ p \in DOMAIN updates => x[p] = version[updates[p]]
                        /\ p \notin DOMAIN updates => x[p] = rows[p]
  BY <1>3, <1>5 DEF Decided
<1>10. Decided(x, updates, more, version)
  BY <1>3, <1>4, <1>7, <1>8, <1>9 DEF Decided
<1>11. QED
  BY <1>10 DEF x, more

LEMMA DecidedUpdate ==
  ASSUME NEW version \in Seq(Nat), rows \in Seq(Nat), NEW j \in 1 .. Len(version),
         NEW updates, NEW appends \in Seq(1 .. Len(version)), NEW matrix,
         Decided(matrix, updates, appends, version), NEW p \in 1 .. Len(rows)
  PROVE  Decided([matrix EXCEPT ![p] = version[j]], Entered(updates, p, j), appends, version)
<1> DEFINE x == [matrix EXCEPT ![p] = version[j]]
           new == Entered(updates, p, j)
           N == Len(rows)
           M == Len(appends)
<1>1. N \in Nat /\ M \in Nat /\ version[j] \in Nat
  OBVIOUS
<1>2. matrix \in Seq(Nat) /\ Len(matrix) = N + M
  BY DEF Decided
<1>3. p \in 1 .. Len(matrix)
  BY <1>1, <1>2
<1>4. /\ x \in Seq(Nat) /\ Len(x) = N + M
      /\ \A q \in 1 .. N + M : x[q] = IF q = p THEN version[j] ELSE matrix[q]
  BY <1>1, <1>2, <1>3, ExceptSeq
<1>5. /\ \A q : q \in DOMAIN new <=> q \in DOMAIN updates \/ q = p
      /\ new[p] = j /\ \A q \in DOMAIN updates : q # p => new[q] = updates[q]
  BY DEF Entered
<1> HIDE DEF x, new
<1>6. ASSUME NEW q \in 1 .. N
      PROVE  /\ q \in DOMAIN new => x[q] = version[new[q]]
             /\ q \notin DOMAIN new => x[q] = rows[q]
  <2>1. q \in 1 .. N + M
    BY <1>1
  <2>2. /\ q \in DOMAIN updates => matrix[q] = version[updates[q]]
        /\ q \notin DOMAIN updates => matrix[q] = rows[q]
    BY DEF Decided
  <2>3. x[q] = IF q = p THEN version[j] ELSE matrix[q]
    BY <1>4, <2>1
  <2>4. QED
    BY <1>5, <2>2, <2>3
<1>7. ASSUME NEW k \in 1 .. M PROVE x[N + k] = version[appends[k]]
  <2>1. N + k \in 1 .. N + M /\ N + k # p
    BY <1>1
  <2>2. matrix[N + k] = version[appends[k]]
    BY DEF Decided
  <2>3. QED
    BY <1>4, <2>1, <2>2
<1>8. Decided(x, new, appends, version)
  BY <1>4, <1>6, <1>7 DEF Decided
<1>9. QED
  BY <1>8 DEF x, new

LEMMA DecidedReplace ==
  ASSUME NEW version \in Seq(Nat), rows \in Seq(Nat), NEW j \in 1 .. Len(version),
         NEW updates, NEW appends \in Seq(1 .. Len(version)), NEW matrix,
         Decided(matrix, updates, appends, version),
         NEW p \in 1 .. Len(matrix), ~ (p <= Len(rows))
  PROVE  /\ p - Len(rows) \in 1 .. Len(appends)
         /\ Decided([matrix EXCEPT ![p] = version[j]], updates,
                    [appends EXCEPT ![p - Len(rows)] = j], version)
<1> DEFINE x == [matrix EXCEPT ![p] = version[j]]
           i == p - Len(rows)
           new == [appends EXCEPT ![i] = j]
           N == Len(rows)
           M == Len(appends)
<1>1. N \in Nat /\ M \in Nat /\ version[j] \in Nat
  OBVIOUS
<1>2. matrix \in Seq(Nat) /\ Len(matrix) = N + M
  BY DEF Decided
<1>3. i \in 1 .. M /\ N + i = p /\ p \in Nat /\ i \in Nat
  BY <1>1, <1>2
<1>4. /\ x \in Seq(Nat) /\ Len(x) = N + M
      /\ \A q \in 1 .. N + M : x[q] = IF q = p THEN version[j] ELSE matrix[q]
  BY <1>1, <1>2, ExceptSeq
<1> HIDE DEF i
<1>5. /\ Len(new) = M /\ \A k \in 1 .. M : new[k] = IF k = i THEN j ELSE appends[k]
  BY <1>3, ExceptSeq
<1> HIDE DEF x, new
<1>6. ASSUME NEW q \in 1 .. N
      PROVE  /\ q \in DOMAIN updates => x[q] = version[updates[q]]
             /\ q \notin DOMAIN updates => x[q] = rows[q]
  <2>1. q \in 1 .. N + M /\ q # p
    BY <1>1
  <2>2. QED
    BY <1>4, <2>1 DEF Decided
<1>7. ASSUME NEW k \in 1 .. M PROVE x[N + k] = version[new[k]]
  <2>1. N + k \in 1 .. N + M /\ (N + k = p <=> k = i)
    <3> HIDE DEF N, M
    <3>1. i \in Nat /\ N + i = p /\ k \in Nat
      BY <1>1, <1>3
    <3>2. N + k \in 1 .. N + M
      BY <1>1
    <3>3. N + k = N + i <=> k = i
      BY <1>1, <3>1
    <3>4. QED
      BY <3>1, <3>2, <3>3
  <2>2. matrix[N + k] = version[appends[k]]
    BY DEF Decided
  <2>3. QED
    BY <1>4, <1>5, <2>1, <2>2
<1>8. Decided(x, updates, new, version)
  BY <1>4, <1>5, <1>6, <1>7 DEF Decided
<1>9. QED
  BY <1>3, <1>8 DEF x, new, i

(* One turn of the loop of upsert.                                         *)
LEMMA PutIdStep ==
  ASSUME rows \in Seq(Nat), NEW version \in Seq(Nat \ {0}), NEW j \in 1 .. Len(version),
         NEW n \in Ids, NEW acc, NEW matrix, Putting(acc, matrix, version)
  PROVE  \E next : Putting([PutId(acc, n, version[j], j) EXCEPT !.latest[n] = version[j]],
                          next, version)
<1> DEFINE v == version[j]
           J == 1 .. Len(version)
           p == acc.at[n]
           l == [acc.latest EXCEPT ![n] = v]
           new == [PutId(acc, n, v, j) EXCEPT !.latest[n] = v]
<1>1. v \in Nat \ {0} /\ j \in J /\ version \in Seq(Nat) /\ Len(rows) \in Nat
  <2>1. version \in Seq(Nat)
    BY SeqMonotonic
  <2>2. QED
    BY <2>1
<1>2. /\ acc = [ids |-> acc.ids, metas |-> acc.metas, at |-> acc.at, updates |-> acc.updates,
                appends |-> acc.appends, latest |-> acc.latest]
      /\ \A q \in DOMAIN acc.updates : q \in 1 .. Len(rows) /\ acc.updates[q] \in J
      /\ acc.appends \in Seq(J)
      /\ Decided(matrix, acc.updates, acc.appends, version)
      /\ Current(acc.ids, acc.metas, matrix, acc.at, acc.latest)
  BY DEF Putting
<1>3. Len(matrix) = Len(acc.ids) /\ Len(acc.ids) \in Nat /\ matrix \in Seq(Nat)
  BY <1>2 DEF Current
<1>4. CASE n \notin DOMAIN acc.at
  <2> DEFINE i == Append(acc.ids, n)
             m == Append(acc.metas, v)
             a == Entered(acc.at, n, Len(acc.ids) + 1)
             more == Append(acc.appends, j)
             next == Append(matrix, v)
  <2>1. new = [ids |-> i, metas |-> m, at |-> a, updates |-> acc.updates,
               appends |-> more, latest |-> l]
    <3>1. PutId(acc, n, v, j) = [acc EXCEPT !.ids = i, !.metas = m, !.at = a, !.appends = more]
      BY <1>4 DEF PutId
    <3> HIDE DEF i, m, a, more, v
    <3>2. PutId(acc, n, v, j) = [ids |-> i, metas |-> m, at |-> a, updates |-> acc.updates,
                                 appends |-> more, latest |-> acc.latest]
      BY <1>2, <3>1
    <3> DEFINE r == PutId(acc, n, v, j)
    <3>3. new = [r EXCEPT !.latest[n] = v]
      OBVIOUS
    <3> HIDE DEF r, new
    <3>4. r = [ids |-> i, metas |-> m, at |-> a, updates |-> acc.updates,
               appends |-> more, latest |-> acc.latest]
      BY <3>2 DEF r
    <3>5. QED
      BY <3>3, <3>4
  <2>2. more \in Seq(J)
    BY <1>1, <1>2
  <2>3. Decided(next, acc.updates, more, version)
    BY <1>1, <1>2, DecidedAppend
  <2>4. Current(i, m, next, a, l)
    BY <1>1, <1>2, <1>4, CurrentAppended
  <2> HIDE DEF i, m, a, more, next, l, new
  <2>5. Putting(new, next, version)
    BY <1>2, <2>1, <2>2, <2>3, <2>4 DEF Putting
  <2>6. QED
    BY <2>5 DEF new
<1>5. CASE n \in DOMAIN acc.at
  <2> DEFINE m == [acc.metas EXCEPT ![p] = v]
             next == [matrix EXCEPT ![p] = v]
  <2>1. Current(acc.ids, m, next, acc.at, l)
    BY <1>1, <1>2, <1>5, CurrentReplaced
  <2>2. p \in 1 .. Len(matrix)
    BY <1>2, <1>3, <1>5 DEF Current
  <2>3. CASE p <= Len(rows)
    <3> DEFINE u == Entered(acc.updates, p, j)
    <3>1. new = [ids |-> acc.ids, metas |-> m, at |-> acc.at, updates |-> u,
                 appends |-> acc.appends, latest |-> l]
      <4> DEFINE r == PutId(acc, n, v, j)
      <4>1. r = [acc EXCEPT !.metas[p] = v, !.updates = u]
        BY <1>5, <2>3 DEF PutId
      <4>2. new = [r EXCEPT !.latest[n] = v]
        OBVIOUS
      <4> HIDE DEF r, u, v, p, new
      <4>3. r = [ids |-> acc.ids, metas |-> m, at |-> acc.at, updates |-> u,
                 appends |-> acc.appends, latest |-> acc.latest]
        BY <1>2, <4>1
      <4>4. QED
        BY <4>2, <4>3
    <3>2. p \in 1 .. Len(rows)
      BY <2>2, <2>3
    <3>3. Decided(next, u, acc.appends, version)
      BY <1>1, <1>2, <3>2, DecidedUpdate
    <3>4. \A q \in DOMAIN u : q \in 1 .. Len(rows) /\ u[q] \in J
      BY <1>1, <1>2, <3>2 DEF Entered
    <3> HIDE DEF m, next, l, new, u
    <3>5. Putting(new, next, version)
      BY <1>2, <2>1, <3>1, <3>3, <3>4 DEF Putting
    <3>6. QED
      BY <3>5 DEF new
  <2>4. CASE ~ (p <= Len(rows))
    <3> DEFINE k == p - Len(rows)
               more == [acc.appends EXCEPT ![k] = j]
    <3>1. new = [ids |-> acc.ids, metas |-> m, at |-> acc.at, updates |-> acc.updates,
                 appends |-> more, latest |-> l]
      <4> DEFINE r == PutId(acc, n, v, j)
      <4>1. r = [acc EXCEPT !.metas[p] = v, !.appends[k] = j]
        BY <1>5, <2>4 DEF PutId
      <4>2. new = [r EXCEPT !.latest[n] = v]
        OBVIOUS
      <4> HIDE DEF r, k, v, p, new
      <4>3. r = [ids |-> acc.ids, metas |-> m, at |-> acc.at, updates |-> acc.updates,
                 appends |-> more, latest |-> acc.latest]
        BY <1>2, <4>1
      <4>4. QED
        BY <4>2, <4>3
    <3>2. k \in 1 .. Len(acc.appends) /\ Decided(next, acc.updates, more, version)
      BY <1>1, <1>2, <2>2, <2>4, DecidedReplace
    <3>3. more \in Seq(J)
      BY <1>1, <1>2, <3>2, ExceptSeq
    <3> HIDE DEF m, next, l, new, more, k
    <3>4. Putting(new, next, version)
      BY <1>2, <2>1, <3>1, <3>2, <3>3 DEF Putting
    <3>5. QED
      BY <3>4 DEF new
  <2>5. QED
    BY <2>3, <2>4
<1>6. QED
  BY <1>4, <1>5

(* The loop of upsert as a recursion: there is one.                        *)
Turn(acc, batch, version, j) ==
  [PutId(acc, batch[j], version[j], j) EXCEPT !.latest[batch[j]] = version[j]]

NothingPut == [ids |-> ids, metas |-> metas, at |-> at, updates |-> <<>>, appends |-> <<>>,
               latest |-> latest]

Turns(done, batch, version, k) ==
  done = [j \in 0 .. k |-> IF j = 0 THEN NothingPut ELSE Turn(done[j - 1], batch, version, j)]

LEMMA TurnsExist ==
  ASSUME NEW batch, NEW version
  PROVE  \A k \in Nat : \E done : Turns(done, batch, version, k)
<1> DEFINE Good == {k \in Nat : \E done : Turns(done, batch, version, k)}
<1>1. 0 \in Good
  <2>1. Turns([j \in 0 .. 0 |-> NothingPut], batch, version, 0)
    BY DEF Turns
  <2>2. QED
    BY <2>1
<1>2. ASSUME NEW k \in Nat, k \in Good PROVE k + 1 \in Good
  <2>1. PICK f : Turns(f, batch, version, k)
    BY <1>2
  <2> DEFINE last == Turn(f[k], batch, version, k + 1)
             g == [j \in 0 .. k + 1 |-> IF j = k + 1 THEN last ELSE f[j]]
             h == [j \in 0 .. k + 1 |-> IF j = 0 THEN NothingPut
                                       ELSE Turn(g[j - 1], batch, version, j)]
  <2>2. ASSUME NEW j \in 0 .. k + 1 PROVE g[j] = h[j]
    <3>1. CASE j = k + 1
      <4>1. k + 1 \in 0 .. k + 1 /\ k \in 0 .. k + 1 /\ k # k + 1 /\ k + 1 # 0 /\ (k + 1) - 1 = k
        OBVIOUS
      <4>2. g[k + 1] = last /\ g[k] = f[k]
        <5> HIDE DEF last
        <5>1. QED
          BY <4>1
      <4>3. h[k + 1] = Turn(g[k], batch, version, k + 1)
        <5> HIDE DEF g
        <5>1. QED
          BY <4>1
      <4> HIDE DEF g, h
      <4>4. QED
        BY <3>1, <4>2, <4>3
    <3>2. CASE j # k + 1
      <4>1. j \in 0 .. k /\ (j # 0 => j - 1 \in 0 .. k + 1 /\ j - 1 # k + 1)
        BY <3>2
      <4>2. g[j] = f[j] /\ (j # 0 => g[j - 1] = f[j - 1])
        <5> HIDE DEF last
        <5>1. QED
          BY <3>2, <4>1
      <4>3. f[j] = IF j = 0 THEN NothingPut ELSE Turn(f[j - 1], batch, version, j)
        BY <2>1, <4>1, Zenon DEF Turns
      <4>4. h[j] = IF j = 0 THEN NothingPut ELSE Turn(g[j - 1], batch, version, j)
        <5> HIDE DEF g
        <5>1. QED
          BY Zenon
      <4> HIDE DEF g, h
      <4>5. QED
        BY <4>2, <4>3, <4>4
    <3>3. QED
      BY <3>1, <3>2
  <2>3. g = h
    <3>1. g = [j \in 0 .. k + 1 |-> g[j]] /\ h = [j \in 0 .. k + 1 |-> h[j]]
      OBVIOUS
    <3> HIDE DEF g, h
    <3>2. QED
      BY <2>2, <3>1
  <2> HIDE DEF g
  <2>4. Turns(g, batch, version, k + 1)
    BY <2>3 DEF Turns
  <2>5. QED
    BY <2>4
<1>3. \A k \in Nat : k \in Good
  <2> HIDE DEF Good
  <2>1. QED
    BY <1>1, <1>2, NatSetInduction
<1>4. QED
  BY <1>3

LEMMA PutUnfolds ==
  ASSUME NEW batch \in Seq(Ids), NEW version
  PROVE  \E done : Turns(done, batch, version, Len(batch)) /\ Put(batch, version) = done[Len(batch)]
<1> DEFINE w == CHOOSE done : Turns(done, batch, version, Len(batch))
<1>1. Turns(w, batch, version, Len(batch))
  <2>1. Len(batch) \in Nat
    OBVIOUS
  <2>2. \E done : Turns(done, batch, version, Len(batch))
    BY <2>1, TurnsExist
  <2>3. QED
    BY <2>2, Zenon
<1>2. Put(batch, version) = w[Len(batch)]
  BY Zenon DEF Put, Turns, Turn, NothingPut
<1>3. QED
  BY <1>1, <1>2

LEMMA UpsertKeeps ==
  ASSUME VectorInv, NEW batch \in Seq(Ids), NEW version \in Seq(Nat \ {0}),
         Len(version) = Len(batch), Upsert(batch, version)
  PROVE  VectorInv'
<1>1. PICK done : Turns(done, batch, version, Len(batch)) /\ Put(batch, version) = done[Len(batch)]
  BY PutUnfolds
<1> DEFINE B == Len(batch)
           Good == {k \in Nat : k <= B => \E matrix : Putting(done[k], matrix, version)}
<1>2. B \in Nat /\ rows \in Seq(Nat) /\ version \in Seq(Nat)
  <2>1. version \in Seq(Nat)
    BY SeqMonotonic
  <2>2. QED
    BY <2>1 DEF VectorInv, Current
<1>3. done[0] = NothingPut /\ \A j \in 1 .. B : done[j] = Turn(done[j - 1], batch, version, j)
  <2>1. 0 \in 0 .. B /\ \A j \in 1 .. B : j \in 0 .. B /\ j # 0
    BY <1>2
  <2> HIDE DEF B
  <2>2. Turns(done, batch, version, B)
    BY <1>1 DEF B
  <2>3. QED
    BY <2>1, <2>2, Zenon DEF Turns
<1>4. 0 \in Good
  <2>1. <<>> \in Seq(1 .. Len(version)) /\ Len(<<>>) = 0 /\ DOMAIN <<>> = {}
    OBVIOUS
  <2>2. Decided(rows, <<>>, <<>>, version)
    BY <1>2 DEF Decided
  <2>3. Current(ids, metas, rows, at, latest)
    BY DEF VectorInv
  <2>4. Putting(NothingPut, rows, version)
    BY <2>1, <2>2, <2>3 DEF Putting, NothingPut
  <2>5. QED
    BY <1>3, <2>4
<1>5. ASSUME NEW k \in Nat, k \in Good PROVE k + 1 \in Good
  <2> SUFFICES ASSUME k + 1 <= B PROVE \E matrix : Putting(done[k + 1], matrix, version)
    OBVIOUS
  <2> DEFINE j == k + 1
  <2>1. k <= B /\ j \in 1 .. B /\ j - 1 = k
    BY <1>2
  <2>2. PICK matrix : Putting(done[k], matrix, version)
    BY <1>5, <2>1
  <2>3. j \in 1 .. Len(version) /\ batch[j] \in Ids
    BY <2>1
  <2> HIDE DEF j
  <2>4. \E next : Putting([PutId(done[k], batch[j], version[j], j)
                           EXCEPT !.latest[batch[j]] = version[j]], next, version)
    BY <1>2, <2>2, <2>3, PutIdStep
  <2>5. done[j] = [PutId(done[k], batch[j], version[j], j)
                     EXCEPT !.latest[batch[j]] = version[j]]
    <3>1. done[j] = Turn(done[j - 1], batch, version, j)
      BY <1>3, <2>1
    <3>2. QED
      BY <2>1, <3>1 DEF Turn
  <2>6. QED
    BY <2>4, <2>5 DEF j
<1>6. \A k \in Nat : k \in Good
  <2> HIDE DEF Good
  <2>1. QED
    BY <1>4, <1>5, NatSetInduction
<1>7. PICK matrix : Putting(Put(batch, version), matrix, version)
  BY <1>1, <1>2, <1>6
<1> DEFINE new == Put(batch, version)
<1> HIDE DEF new
<1>8. /\ Current(new.ids, new.metas, matrix, new.at, new.latest)
      /\ Decided(matrix, new.updates, new.appends, version)
      /\ new.appends \in Seq(1 .. Len(version))
      /\ \A p \in DOMAIN new.updates : p \in 1 .. Len(rows) /\ new.updates[p] \in 1 .. Len(version)
  BY <1>7 DEF Putting, new
<1>9. matrix = [p \in 1 .. Len(rows) |->
                  IF p \in DOMAIN new.updates THEN version[new.updates[p]] ELSE rows[p]]
               \o [k \in 1 .. Len(new.appends) |-> version[new.appends[k]]]
  BY <1>2, <1>8, DecidedRows
<1>10. /\ ids' = new.ids /\ metas' = new.metas /\ at' = new.at /\ latest' = new.latest
       /\ rows' = matrix
  BY <1>9 DEF Upsert, new
<1>11. QED
  BY <1>8, <1>10 DEF VectorInv

(* The positions that a delete keeps, as a recursion: there is one.        *)
Keeps(kept, gone, k) ==
  kept = [j \in 0 .. k |-> IF j = 0 THEN <<>>
                          ELSE IF ids[j] \in gone THEN kept[j - 1] ELSE Append(kept[j - 1], j)]

LEMMA KeepsExist ==
  ASSUME NEW gone
  PROVE  \A k \in Nat : \E kept : Keeps(kept, gone, k)
<1> DEFINE Good == {k \in Nat : \E kept : Keeps(kept, gone, k)}
           More(kept, j) == IF ids[j] \in gone THEN kept ELSE Append(kept, j)
<1>1. 0 \in Good
  <2>1. Keeps([j \in 0 .. 0 |-> <<>>], gone, 0)
    BY DEF Keeps
  <2>2. QED
    BY <2>1
<1>2. ASSUME NEW k \in Nat, k \in Good PROVE k + 1 \in Good
  <2>1. PICK f : Keeps(f, gone, k)
    BY <1>2
  <2> DEFINE last == More(f[k], k + 1)
             g == [j \in 0 .. k + 1 |-> IF j = k + 1 THEN last ELSE f[j]]
             h == [j \in 0 .. k + 1 |-> IF j = 0 THEN <<>> ELSE More(g[j - 1], j)]
  <2>2. \A j \in 0 .. k : f[j] = IF j = 0 THEN <<>> ELSE More(f[j - 1], j)
    BY <2>1, Zenon DEF Keeps
  <2> HIDE DEF More
  <2>3. ASSUME NEW j \in 0 .. k + 1 PROVE g[j] = h[j]
    <3>1. CASE j = k + 1
      <4>1. k + 1 \in 0 .. k + 1 /\ k \in 0 .. k + 1 /\ k # k + 1 /\ k + 1 # 0 /\ (k + 1) - 1 = k
        OBVIOUS
      <4>2. g[k + 1] = last /\ g[k] = f[k]
        <5> HIDE DEF last
        <5>1. QED
          BY <4>1
      <4>3. h[k + 1] = More(g[k], k + 1)
        <5> HIDE DEF g
        <5>1. QED
          BY <4>1
      <4> HIDE DEF g, h
      <4>4. QED
        BY <3>1, <4>2, <4>3
    <3>2. CASE j # k + 1
      <4>1. j \in 0 .. k /\ (j # 0 => j - 1 \in 0 .. k + 1 /\ j - 1 # k + 1)
        BY <3>2
      <4>2. g[j] = f[j] /\ (j # 0 => g[j - 1] = f[j - 1])
        <5> HIDE DEF last
        <5>1. QED
          BY <3>2, <4>1
      <4>3. h[j] = IF j = 0 THEN <<>> ELSE More(g[j - 1], j)
        <5> HIDE DEF g
        <5>1. QED
          BY Zenon
      <4> HIDE DEF g, h
      <4>4. QED
        BY <2>2, <4>1, <4>2, <4>3
    <3>3. QED
      BY <3>1, <3>2
  <2>4. g = h
    <3>1. g = [j \in 0 .. k + 1 |-> g[j]] /\ h = [j \in 0 .. k + 1 |-> h[j]]
      OBVIOUS
    <3> HIDE DEF g, h
    <3>2. QED
      BY <2>3, <3>1
  <2> HIDE DEF g
  <2>5. Keeps(g, gone, k + 1)
    BY <2>4 DEF Keeps, More
  <2>6. QED
    BY <2>5
<1>3. \A k \in Nat : k \in Good
  <2> HIDE DEF Good
  <2>1. QED
    BY <1>1, <1>2, NatSetInduction
<1>4. QED
  BY <1>3

(* They are the positions of what stays, each once.                        *)
LEMMA KeptStay ==
  ASSUME ids \in Seq(Ids), NEW gone
  PROVE  /\ Kept(gone) \in Seq(1 .. Len(ids))
         /\ \A q \in 1 .. Len(Kept(gone)) : ids[Kept(gone)[q]] \notin gone
         /\ \A q, r \in 1 .. Len(Kept(gone)) : Kept(gone)[q] = Kept(gone)[r] => q = r
         /\ \A i \in 1 .. Len(ids) :
              ids[i] \notin gone => \E q \in 1 .. Len(Kept(gone)) : Kept(gone)[q] = i
<1> DEFINE N == Len(ids)
           w == CHOOSE kept : Keeps(kept, gone, N)
           Stay(s, k) == /\ s \in Seq(1 .. N) /\ \A q \in 1 .. Len(s) : s[q] <= k
                         /\ \A q \in 1 .. Len(s) : ids[s[q]] \notin gone
                         /\ \A q, r \in 1 .. Len(s) : s[q] = s[r] => q = r
                         /\ \A i \in 1 .. k :
                              ids[i] \notin gone => \E q \in 1 .. Len(s) : s[q] = i
           Good == {k \in Nat : k <= N => Stay(w[k], k)}
<1>1. N \in Nat
  OBVIOUS
<1>2. Keeps(w, gone, N)
  <2>1. \E kept : Keeps(kept, gone, N)
    BY <1>1, KeepsExist
  <2>2. QED
    BY <2>1, Zenon
<1>3. Kept(gone) = w[N]
  BY Zenon DEF Kept, Keeps
<1> HIDE DEF w
<1>4. /\ w[0] = <<>>
      /\ \A j \in 1 .. N : w[j] = IF ids[j] \in gone THEN w[j - 1] ELSE Append(w[j - 1], j)
  <2>1. 0 \in 0 .. N /\ \A j \in 1 .. N : j \in 0 .. N /\ j # 0
    BY <1>1
  <2> HIDE DEF N
  <2>2. QED
    BY <1>2, <2>1, Zenon DEF Keeps
<1>5. 0 \in Good
  <2>1. /\ <<>> \in Seq(1 .. N) /\ Len(<<>>) = 0 /\ (\A q : q \notin 1 .. 0)
    OBVIOUS
  <2>2. Stay(<<>>, 0)
    BY <2>1
  <2> HIDE DEF Stay
  <2>3. QED
    BY <1>4, <2>2
<1>6. ASSUME NEW k \in Nat, k \in Good PROVE k + 1 \in Good
  <2> HIDE DEF Stay
  <2> SUFFICES ASSUME k + 1 <= N PROVE Stay(w[k + 1], k + 1)
    OBVIOUS
  <2> DEFINE j == k + 1
             s == w[k]
             t == Append(s, j)
  <2>1. k <= N /\ j \in 1 .. N /\ j - 1 = k /\ j \in Nat
    BY <1>1
  <2>2. Stay(s, k)
    BY <1>6, <2>1
  <2>3. w[j] = IF ids[j] \in gone THEN s ELSE t
    <3> HIDE DEF j
    <3>1. w[j] = IF ids[j] \in gone THEN w[j - 1] ELSE Append(w[j - 1], j)
      BY <1>4, <2>1
    <3>2. QED
      BY <2>1, <3>1
  <2>4. /\ \A q \in 1 .. Len(s) : s[q] \in Nat /\ s[q] <= k /\ ids[s[q]] \notin gone
        /\ Len(s) \in Nat
    BY <1>1, <2>2 DEF Stay
  <2>5. CASE ids[j] \in gone
    <3>1. \A q \in 1 .. Len(s) : s[q] <= j
      BY <2>4
    <3>2. \A i \in 1 .. j : ids[i] \notin gone => i \in 1 .. k
      BY <2>5
    <3> HIDE DEF j, s
    <3>3. Stay(s, j)
      BY <2>2, <3>1, <3>2 DEF Stay
    <3>4. w[j] = s
      BY <2>3, <2>5
    <3>5. QED
      BY <3>3, <3>4 DEF j
  <2>6. CASE ids[j] \notin gone
    <3>1. /\ t \in Seq(1 .. N) /\ Len(t) = Len(s) + 1 /\ t[Len(s) + 1] = j
          /\ \A q \in 1 .. Len(s) : t[q] = s[q]
      <4>1. s \in Seq(1 .. N)
        BY <2>2 DEF Stay
      <4> HIDE DEF s, j, N
      <4>2. QED
        BY <2>1, <4>1
    <3>2. \A q \in 1 .. Len(t) : q \in 1 .. Len(s) \/ q = Len(s) + 1
      <4> HIDE DEF s, t, j
      <4>1. QED
        BY <2>4, <3>1
    <3>3. \A q \in 1 .. Len(s) : s[q] # j /\ s[q] <= j
      BY <2>4
    <3>4. \A q \in 1 .. Len(s) : q \in 1 .. Len(t)
      BY <2>4, <3>1
    <3>5. Len(s) + 1 \in 1 .. Len(t)
      BY <2>4, <3>1
    <3>6. \A i \in 1 .. j : i \in 1 .. k \/ i = j
      OBVIOUS
    <3>7. j <= j
      OBVIOUS
    <3> HIDE DEF j, s, t, N
    <3>8. \A q \in 1 .. Len(t) : t[q] <= j /\ ids[t[q]] \notin gone
      BY <2>4, <2>6, <3>1, <3>2, <3>3, <3>7
    <3>9. ASSUME NEW q \in 1 .. Len(t), NEW r \in 1 .. Len(t), t[q] = t[r] PROVE q = r
      BY <2>2, <3>1, <3>2, <3>3, <3>9 DEF Stay
    <3>10. ASSUME NEW i \in 1 .. j, ids[i] \notin gone PROVE \E q \in 1 .. Len(t) : t[q] = i
      <4>1. CASE i \in 1 .. k
        <5>1. PICK q \in 1 .. Len(s) : s[q] = i
          BY <2>2, <3>10, <4>1 DEF Stay
        <5>2. QED
          BY <3>1, <3>4, <5>1
      <4>2. CASE i = j
        BY <3>1, <3>5, <4>2
      <4>3. QED
        BY <3>6, <4>1, <4>2
    <3>11. Stay(t, j)
      BY <3>1, <3>8, <3>9, <3>10 DEF Stay
    <3>12. w[j] = t
      BY <2>3, <2>6
    <3>13. QED
      BY <3>11, <3>12 DEF j
  <2>7. QED
    BY <2>5, <2>6
<1>7. \A k \in Nat : k \in Good
  <2> HIDE DEF Good
  <2>1. QED
    BY <1>5, <1>6, NatSetInduction
<1>8. Stay(w[N], N)
  <2> HIDE DEF Stay
  <2>1. QED
    BY <1>1, <1>7
<1>9. QED
  BY <1>3, <1>8

LEMMA DeleteKeeps ==
  ASSUME VectorInv, NEW gone, Delete(gone)
  PROVE  VectorInv'
<1> DEFINE kept == Kept(gone)
           N == Len(ids)
           M == Len(kept)
           i == At(ids, kept)
           m == At(metas, kept)
           r == At(rows, kept)
           a == Reindexed(i)
           l == [n \in Ids |-> IF n \in gone THEN 0 ELSE latest[n]]
<1>1. /\ ids \in Seq(Ids) /\ metas \in Seq(Nat) /\ rows \in Seq(Nat) /\ latest \in [Ids -> Nat]
      /\ Len(rows) = N /\ Len(metas) = N /\ N \in Nat
      /\ \A n \in Ids : n \in DOMAIN at <=> latest[n] # 0
      /\ \A n \in DOMAIN at : n \in Ids /\ at[n] \in 1 .. N /\ ids[at[n]] = n
      /\ \A p \in 1 .. N : ids[p] \in DOMAIN at /\ at[ids[p]] = p
                         /\ metas[p] = latest[ids[p]] /\ rows[p] = latest[ids[p]]
  BY DEF VectorInv, Current
<1>2. /\ kept \in Seq(1 .. N)
      /\ \A q \in 1 .. M : ids[kept[q]] \notin gone
      /\ \A q, s \in 1 .. M : kept[q] = kept[s] => q = s
      /\ \A p \in 1 .. N : ids[p] \notin gone => \E q \in 1 .. M : kept[q] = p
  BY <1>1, KeptStay
<1> HIDE DEF kept
<1>3. M \in Nat /\ \A q \in 1 .. M : kept[q] \in 1 .. N
  BY <1>2
<1>4. /\ \A q \in 1 .. M : ids[kept[q]] \in Ids /\ metas[kept[q]] \in Nat /\ rows[kept[q]] \in Nat
  BY <1>1, <1>3
<1>5. /\ i = [q \in 1 .. M |-> ids[kept[q]]] /\ m = [q \in 1 .. M |-> metas[kept[q]]]
      /\ r = [q \in 1 .. M |-> rows[kept[q]]]
  BY DEF At
<1> HIDE DEF N, M, i, m, r
<1>6. /\ i \in [1 .. M -> Ids] /\ m \in [1 .. M -> Nat] /\ r \in [1 .. M -> Nat]
  BY <1>4, <1>5
<1>7. /\ i \in Seq(Ids) /\ m \in Seq(Nat) /\ r \in Seq(Nat)
      /\ Len(i) = M /\ Len(m) = M /\ Len(r) = M
  BY <1>3, <1>6, FunctionIsSeq
<1>8. \A q \in 1 .. M : i[q] = ids[kept[q]] /\ m[q] = metas[kept[q]] /\ r[q] = rows[kept[q]]
  BY <1>5
<1>9. \A n : n \in ToSet(i) <=> \E q \in 1 .. M : i[q] = n
  BY <1>6 DEF ToSet
<1>10. ASSUME NEW q \in 1 .. M, NEW s \in 1 .. M, i[q] = i[s] PROVE q = s
  <2>1. kept[q] \in 1 .. N /\ kept[s] \in 1 .. N /\ ids[kept[q]] = ids[kept[s]]
    BY <1>3, <1>8, <1>10
  <2>2. at[ids[kept[q]]] = kept[q] /\ at[ids[kept[s]]] = kept[s]
    BY <1>1, <2>1
  <2>3. QED
    BY <1>2, <2>1, <2>2
<1>11. /\ DOMAIN a = ToSet(i) /\ a = [n \in DOMAIN a |-> a[n]]
       /\ \A n \in ToSet(i) : a[n] = CHOOSE p \in 1 .. M : i[p] = n
  BY <1>7 DEF Reindexed
<1>12. \A n \in ToSet(i) : a[n] \in 1 .. M /\ i[a[n]] = n
  BY <1>9, <1>11
<1> HIDE DEF a
<1>13. \A q \in 1 .. M : i[q] \in DOMAIN a /\ a[i[q]] = q
  BY <1>9, <1>10, <1>11, <1>12
<1>14. l \in [Ids -> Nat]
  BY <1>1
<1>15. \A n \in Ids : (n \in gone => l[n] = 0) /\ (n \notin gone => l[n] = latest[n])
  OBVIOUS
<1> HIDE DEF l
<1>16. ASSUME NEW n \in Ids PROVE n \in DOMAIN a <=> l[n] # 0
  <2>1. n \in ToSet(i) <=> \E q \in 1 .. M : ids[kept[q]] = n
    BY <1>8, <1>9
  <2>2. CASE n \in gone
    BY <1>2, <1>11, <1>15, <2>1, <2>2
  <2>3. CASE n \notin gone
    <3>1. n \in ToSet(i) => n \in DOMAIN at
      BY <1>1, <1>3, <2>1
    <3>2. ASSUME n \in DOMAIN at PROVE n \in ToSet(i)
      <4>1. at[n] \in 1 .. N /\ ids[at[n]] = n
        BY <1>1, <3>2
      <4>2. PICK q \in 1 .. M : kept[q] = at[n]
        BY <1>2, <2>3, <4>1
      <4>3. QED
        BY <2>1, <4>1, <4>2
    <3>3. QED
      BY <1>1, <1>11, <1>15, <2>3, <3>1, <3>2
  <2>4. QED
    BY <2>2, <2>3
<1>17. ASSUME NEW q \in 1 .. M PROVE m[q] = l[i[q]] /\ r[q] = l[i[q]]
  <2> DEFINE p == kept[q]
  <2>1. p \in 1 .. N /\ i[q] = ids[p] /\ m[q] = metas[p] /\ r[q] = rows[p]
        /\ ids[p] \in Ids /\ ids[p] \notin gone
    BY <1>2, <1>3, <1>4, <1>8
  <2> HIDE DEF p
  <2>2. metas[p] = latest[ids[p]] /\ rows[p] = latest[ids[p]]
    BY <1>1, <2>1
  <2>3. QED
    BY <1>15, <2>1, <2>2
<1>18. \A n \in DOMAIN a : n \in Ids /\ a[n] \in 1 .. M /\ i[a[n]] = n
  BY <1>6, <1>11, <1>12
<1>19. Current(i, m, r, a, l)
  BY <1>7, <1>11, <1>13, <1>14, <1>16, <1>17, <1>18 DEF Current
<1>20. ids' = i /\ metas' = m /\ rows' = r /\ at' = a /\ latest' = l
  BY DEF Delete, i, m, r, a, l, kept
<1>21. QED
  BY <1>19, <1>20 DEF VectorInv

LEMMA MissingSequence ==
  ASSUME NEW S \in SUBSET Ids
  PROVE  SetToSeq(S) \in Seq(S)
<1>1. IsFiniteSet(S)
  BY GraphAssumption, FS_Subset
<1>2. Cardinality(S) \in Nat /\ ExistsBijection(1 .. Cardinality(S), S)
  BY <1>1, FS_CardinalityType
<1>3. PICK f : f \in [1 .. Cardinality(S) -> S] /\ IsInjective(f)
  BY <1>2 DEF ExistsBijection, Bijection, Injection, IsInjective
<1>4. SetToSeq(S) \in [1 .. Cardinality(S) -> S]
  BY <1>3 DEF SetToSeq
<1>5. QED
  BY <1>2, <1>4, FunctionIsSeq

LEMMA WritesKeep ==
  ASSUME VectorInv, NEW g, WriteVectors(g)
  PROVE  VectorInv'
<1>1. ASSUME NEW n \in 1 .. BatchIds, NEW batch \in [1 .. n -> Embedded],
             NEW version \in [1 .. n -> Versions], Upsert(batch, version)
      PROVE  VectorInv'
  <2>1. n \in Nat /\ Embedded \subseteq Ids /\ Versions \subseteq Nat \ {0}
    BY VectorAssumption
  <2>2. batch \in [1 .. n -> Ids] /\ version \in [1 .. n -> Nat \ {0}]
    BY <2>1
  <2>3. batch \in Seq(Ids) /\ version \in Seq(Nat \ {0}) /\ Len(version) = Len(batch)
    BY <2>1, <2>2, FunctionIsSeq
  <2>4. QED
    BY <1>1, <2>3, UpsertKeeps
<1>2. ASSUME NEW gone, Delete(gone) PROVE VectorInv'
  BY <1>2, DeleteKeeps
<1>3. ASSUME NEW version \in Versions, Hydrate(g, version) PROVE VectorInv'
  <2> DEFINE S == (g.nodes \cap Embedded) \ DOMAIN at
             missing == SetToSeq(S)
             all == [k \in 1 .. Len(missing) |-> version]
  <2>1. S \subseteq Ids /\ version \in Nat \ {0}
    BY VectorAssumption
  <2>2. missing \in Seq(S)
    BY <2>1, MissingSequence
  <2>3. missing \in Seq(Ids)
    BY <2>1, <2>2, SeqMonotonic
  <2>4. Upsert(missing, all)
    BY <1>3 DEF Hydrate
  <2> DEFINE n == Len(missing)
  <2>5. n \in Nat
    BY <2>3
  <2> HIDE DEF missing, S, n
  <2>6. [k \in 1 .. n |-> version] \in [1 .. n -> Nat \ {0}]
    BY <2>1
  <2>7. all \in Seq(Nat \ {0}) /\ Len(all) = n
    BY <2>5, <2>6, FunctionIsSeq DEF n
  <2> HIDE DEF all
  <2>8. QED
    BY <2>3, <2>4, <2>7, UpsertKeeps DEF n
<1>4. ASSUME Reset PROVE VectorInv'
  BY <1>4 DEF Reset, VectorInv, Current
<1>5. QED
  BY <1>1, <1>2, <1>3, <1>4 DEF WriteVectors

LEMMA NextVectorInv == VectorInv /\ [Next]_vars => VectorInv'
<1> SUFFICES ASSUME VectorInv, [Next]_vars PROVE VectorInv'
  OBVIOUS
<1>1. CASE Write
  BY <1>1, WritesKeep DEF Write
<1>2. CASE UNCHANGED vectors
  BY <1>2 DEF vectors, VectorInv
<1>3. CASE FindSeeds \/ Dedup \/ Step
  BY <1>2, <1>3 DEF FindSeeds, Dedup, Step, ExpandHop, ExpandEnd, AddContext, AdjustQuality,
                   Fit, FitEnd
<1>4. QED
  BY <1>1, <1>2, <1>3 DEF Next, vars

LEMMA InitVectorInv == Init => VectorInv
  BY DEF Init, VectorInit, VectorInv, Current

(* Whatever was upserted, deleted, hydrated and reset, in batches with     *)
(* whatever repetitions: every id has one position, and the matrix and the *)
(* lists hold there what was written last for it.                          *)
THEOREM RowsAreLatest == Spec => []RowsCarryLatest
  BY InitVectorInv, NextVectorInv, CurrentCarries, PTL DEF Spec
=============================================================================
