------------------------------ MODULE Impact ------------------------------
(***************************************************************************)
(* Impact analysis (services/impact.py): how many nodes depend on one.     *)
(* The first hop follows four kinds of edges, later hops five.             *)
(***************************************************************************)
EXTENDS CodeGraph

DirectKinds     == {"calls", "uses_type", "inherits", "implements"}
DependencyKinds == DirectKinds \cup {"imports"}

(* direct_callers + type_users + implementors: a pair of nodes has one     *)
(* edge, so the three lists are disjoint.  A recursive function is its own *)
(* caller.                                                                 *)
DirectImpact(g, target) == Incoming(g, target, DirectKinds)

(* What depends on one of the nodes, over an edge of any of the five kinds.*)
Dependents(g, nodes) == UNION {Incoming(g, n, DependencyKinds) : n \in nodes}

(* Breadth first: what each hop adds, up to hop last.                      *)
FirstHop(g, target) ==
  [frontier |-> DirectImpact(g, target),
   visited  |-> {target} \cup DirectImpact(g, target),
   total    |-> Cardinality(DirectImpact(g, target))]

NextHop(g, before) ==
  LET next == Dependents(g, before.frontier) \ before.visited
  IN  [frontier |-> next, visited |-> before.visited \cup next,
       total |-> before.total + Cardinality(next)]

ImpactUpTo(g, target, last) ==
  LET hop[h \in 1 .. last] == IF h = 1 THEN FirstHop(g, target) ELSE NextHop(g, hop[h - 1])
  IN  hop[last].total

(* Mutation of AnalyzeTotal: range(2, max_hops) leaves out the last hop.   *)
AnalyzeShort(g, target, maxHops) ==
  ImpactUpTo(g, target, IF maxHops < 2 THEN 1 ELSE maxHops - 1)

(* analyze's total_impact_count: hop 1 is counted whatever max_hops is.    *)
AnalyzeTotal(g, target, maxHops) ==
  ImpactUpTo(g, target, IF maxHops < 2 THEN 1 ELSE maxHops)

(* The same without a frontier: the nodes that a walk of at most maxHops   *)
(* dependency edges, the last of a direct kind, connects to the target.  A *)
(* walk comes through the target only if that is recursive: then it is its *)
(* own caller, and what merely imports it is one hop further.              *)
Through(g, target, nodes) ==
  IF target \in DirectImpact(g, target) THEN nodes ELSE nodes \ {target}

Farther(g, target, near) == near \cup Dependents(g, Through(g, target, near))

DependsWithin(g, target, last) ==
  LET within[k \in 1 .. last] ==
        IF k = 1 THEN DirectImpact(g, target) ELSE Farther(g, target, within[k - 1])
  IN  within[last]

ImpactOf(g, target, maxHops) ==
  LET within == DependsWithin(g, target, IF maxHops < 2 THEN 1 ELSE maxHops)
  IN  Cardinality(DirectImpact(g, target) \cup (within \ {target}))
=============================================================================
