-------------------------- MODULE GuardrailsProofs --------------------------
(* Theorems of Guardrails, for every rules file, graph, diff and history   *)
(* of commits.                                                             *)
EXTENDS Guardrails, RecursionLemmas, SequenceTheorems

LEMMA IncomingNodes ==
  ASSUME NEW g, NEW n, NEW kinds PROVE Incoming(g, n, kinds) \subseteq g.nodes
  BY DEF Incoming

(* DependsWithin, unfolded: the sets of nodes within 1, 2, ... hops.       *)
LEMMA WithinUnfolds ==
  ASSUME NEW g, NEW t, NEW hops \in Nat \ {0}
  PROVE  \E w : /\ Iterates(w, SUBSET g.nodes, DirectImpact(g, t),
                            [s \in SUBSET g.nodes |-> Farther(g, t, s)], 1, hops)
                /\ DependsWithin(g, t, hops) = w[hops]
<1> DEFINE S == SUBSET g.nodes
           step == [s \in S |-> Farther(g, t, s)]
           Rec(w) == w = [k \in 1 .. hops |-> IF k = 1 THEN DirectImpact(g, t)
                                              ELSE Farther(g, t, w[k - 1])]
<1>1. DirectImpact(g, t) \in S /\ step \in [S -> S]
  <2>1. \A s \in S : Farther(g, t, s) \in S
    BY IncomingNodes DEF Farther, Dependents
  <2>2. QED
    BY <2>1, IncomingNodes DEF DirectImpact
<1>2. PICK f : Iterates(f, S, DirectImpact(g, t), step, 1, hops)
  <2> HIDE DEF S, step
  <2>1. QED
    BY <1>1, RecursionExists
<1>3. Rec(f)
  <2>1. ASSUME NEW k \in 1 .. hops
        PROVE  f[k] = IF k = 1 THEN DirectImpact(g, t) ELSE Farther(g, t, f[k - 1])
    <3>1. CASE k = 1
      BY <1>2, <3>1 DEF Iterates
    <3>2. CASE k # 1
      <4>1. k - 1 \in 1 .. hops
        BY <3>2
      <4>2. f[k - 1] \in S /\ f[k] = step[f[k - 1]]
        BY <1>2, <3>2, <4>1 DEF Iterates
      <4>3. QED
        BY <3>2, <4>2
    <3>3. QED
      BY <3>1, <3>2
  <2>2. f = [k \in 1 .. hops |-> f[k]]
    BY <1>2 DEF Iterates
  <2>3. QED
    BY <2>1, <2>2
<1> DEFINE w == CHOOSE x : Rec(x)
<1>4. Rec(w)
  <2> HIDE DEF Rec
  <2>1. QED
    BY <1>3
<1>5. DependsWithin(g, t, hops) = w[hops]
  BY DEF DependsWithin
<1>6. Iterates(w, S, DirectImpact(g, t), step, 1, hops)
  <2> HIDE DEF w
  <2>1. w = [k \in 1 .. hops |-> w[k]] /\ w[1] = DirectImpact(g, t)
    BY <1>4
  <2>2. ASSUME NEW j \in 1 .. hops, j # 1, w[j - 1] \in S PROVE w[j] = step[w[j - 1]]
    <3>1. w[j] = Farther(g, t, w[j - 1])
      BY <1>4, <2>2
    <3>2. QED
      BY <2>2, <3>1
  <2> HIDE DEF S, step, Rec
  <2>3. QED
    BY <1>1, <2>1, <2>2, RecursionTyped
<1>7. QED
  BY <1>5, <1>6

Hops(g, t) == [frontier : SUBSET g.nodes, visited : SUBSET (g.nodes \cup {t}), total : Nat]

LEMMA HopTypes ==
  ASSUME NEW g, NEW t, IsFiniteSet(g.nodes)
  PROVE  /\ FirstHop(g, t) \in Hops(g, t)
         /\ \A b \in Hops(g, t) : NextHop(g, b) \in Hops(g, t)
<1>1. /\ DirectImpact(g, t) \subseteq g.nodes
      /\ \A s : Dependents(g, s) \subseteq g.nodes
  BY IncomingNodes DEF DirectImpact, Dependents
<1>2. FirstHop(g, t) \in Hops(g, t)
  <2>1. Cardinality(DirectImpact(g, t)) \in Nat
    BY <1>1, FS_Subset, FS_CardinalityType
  <2>2. QED
    BY <1>1, <2>1 DEF FirstHop, Hops
<1>3. ASSUME NEW b \in Hops(g, t) PROVE NextHop(g, b) \in Hops(g, t)
  <2> DEFINE next == Dependents(g, b.frontier) \ b.visited
  <2>1. next \subseteq g.nodes
    BY <1>1
  <2>2. Cardinality(next) \in Nat
    BY <2>1, FS_Subset, FS_CardinalityType
  <2>3. b.visited \cup next \subseteq g.nodes \cup {t} /\ b.total + Cardinality(next) \in Nat
    BY <2>1, <2>2 DEF Hops
  <2>4. NextHop(g, b) = [frontier |-> next, visited |-> b.visited \cup next,
                         total |-> b.total + Cardinality(next)]
    BY DEF NextHop
  <2> HIDE DEF next
  <2>5. QED
    BY <2>1, <2>3, <2>4 DEF Hops
<1>4. QED
  BY <1>2, <1>3

(* The breadth-first search of ImpactUpTo, unfolded.                       *)
LEMMA HopsUnfold ==
  ASSUME NEW g, NEW t, IsFiniteSet(g.nodes), NEW hops \in Nat \ {0}
  PROVE  \E h : /\ Iterates(h, Hops(g, t), FirstHop(g, t),
                            [b \in Hops(g, t) |-> NextHop(g, b)], 1, hops)
                /\ ImpactUpTo(g, t, hops) = h[hops].total
<1> DEFINE S == Hops(g, t)
           step == [b \in S |-> NextHop(g, b)]
           Rec(h) == h = [k \in 1 .. hops |-> IF k = 1 THEN FirstHop(g, t)
                                              ELSE NextHop(g, h[k - 1])]
<1>1. FirstHop(g, t) \in S /\ step \in [S -> S]
  BY HopTypes
<1>2. PICK f : Iterates(f, S, FirstHop(g, t), step, 1, hops)
  <2> HIDE DEF S, step
  <2>1. QED
    BY <1>1, RecursionExists
<1>3. Rec(f)
  <2>1. ASSUME NEW k \in 1 .. hops
        PROVE  f[k] = IF k = 1 THEN FirstHop(g, t) ELSE NextHop(g, f[k - 1])
    <3>1. CASE k = 1
      BY <1>2, <3>1 DEF Iterates
    <3>2. CASE k # 1
      <4>1. k - 1 \in 1 .. hops
        BY <3>2
      <4>2. f[k - 1] \in S /\ f[k] = step[f[k - 1]]
        BY <1>2, <3>2, <4>1 DEF Iterates
      <4>3. QED
        BY <3>2, <4>2
    <3>3. QED
      BY <3>1, <3>2
  <2>2. f = [k \in 1 .. hops |-> f[k]]
    BY <1>2 DEF Iterates
  <2>3. QED
    BY <2>1, <2>2
<1> DEFINE h == CHOOSE x : Rec(x)
<1>4. Rec(h)
  <2> HIDE DEF Rec
  <2>1. QED
    BY <1>3
<1>5. ImpactUpTo(g, t, hops) = h[hops].total
  BY DEF ImpactUpTo
<1>6. Iterates(h, S, FirstHop(g, t), step, 1, hops)
  <2> HIDE DEF h
  <2>1. h = [k \in 1 .. hops |-> h[k]] /\ h[1] = FirstHop(g, t)
    BY <1>4
  <2>2. ASSUME NEW j \in 1 .. hops, j # 1, h[j - 1] \in S PROVE h[j] = step[h[j - 1]]
    <3>1. h[j] = NextHop(g, h[j - 1])
      BY <1>4, <2>2
    <3>2. QED
      BY <2>2, <3>1
  <2> HIDE DEF S, step, Rec
  <2>3. QED
    BY <1>1, <2>1, <2>2, RecursionTyped
<1>7. QED
  BY <1>5, <1>6

(* After a hop: the nodes of the hops so far are visited and counted once, *)
(* and what is not on the frontier has nothing left to add.                *)
Counted(g, t, hop, near) ==
  /\ DirectImpact(g, t) \subseteq near /\ near \subseteq g.nodes
  /\ hop.visited = {t} \cup near
  /\ hop.frontier \subseteq Through(g, t, near)
  /\ \A n \in Through(g, t, near) \ hop.frontier :
       Incoming(g, n, DependencyKinds) \subseteq {t} \cup near
  /\ hop.total = Cardinality(DirectImpact(g, t) \cup (near \ {t}))

LEMMA FirstHopCounted ==
  ASSUME NEW g, NEW t
  PROVE  Counted(g, t, FirstHop(g, t), DirectImpact(g, t))
<1> DEFINE D == DirectImpact(g, t)
           hop == FirstHop(g, t)
<1>1. hop.frontier = D /\ hop.visited = {t} \cup D /\ hop.total = Cardinality(D)
  BY DEF FirstHop
<1>2. D \cup (D \ {t}) = D /\ Through(g, t, D) = D
  BY DEF Through
<1>3. D \subseteq g.nodes
  BY IncomingNodes DEF DirectImpact
<1> HIDE DEF D, hop
<1>4. QED
  BY <1>1, <1>2, <1>3 DEF Counted, D, hop

LEMMA NextHopCounted ==
  ASSUME NEW g, NEW t, IsFiniteSet(g.nodes), NEW hop \in Hops(g, t), NEW near,
         Counted(g, t, hop, near)
  PROVE  Counted(g, t, NextHop(g, hop), Farther(g, t, near))
<1> DEFINE D == DirectImpact(g, t)
           In(n) == Incoming(g, n, DependencyKinds)
           next == Dependents(g, hop.frontier) \ hop.visited
           after == NextHop(g, hop)
           far == Farther(g, t, near)
<1>1. /\ after.frontier = next /\ after.visited = hop.visited \cup next
      /\ after.total = hop.total + Cardinality(next)
  BY DEF NextHop
<1>2. /\ D \subseteq near /\ near \subseteq g.nodes
      /\ hop.visited = {t} \cup near
      /\ hop.frontier \subseteq Through(g, t, near)
      /\ \A n \in Through(g, t, near) \ hop.frontier : In(n) \subseteq {t} \cup near
      /\ hop.total = Cardinality(D \cup (near \ {t}))
  BY DEF Counted
<1>3. /\ \A n : In(n) \subseteq g.nodes
      /\ \A x : x \in far <=> (x \in near \/ \E n \in Through(g, t, near) : x \in In(n))
      /\ \A x : x \in next <=> /\ \E n \in hop.frontier : x \in In(n)
                               /\ x \notin {t} \cup near
  BY <1>2, IncomingNodes DEF Farther, Dependents
<1>4. /\ \A s : Through(g, t, s) \subseteq s
      /\ \A s : t \in D => Through(g, t, s) = s
      /\ \A s, n : n \in s /\ n # t => n \in Through(g, t, s)
      /\ \A s : t \in Through(g, t, s) => t \in D
  BY DEF Through
<1> HIDE DEF D, In, next, far, after
<1>5. D \subseteq far /\ far \subseteq g.nodes
  BY <1>2, <1>3
<1>6. after.visited = {t} \cup far
  BY <1>1, <1>2, <1>3
<1>7. after.frontier \subseteq Through(g, t, far)
  BY <1>1, <1>2, <1>3, <1>4
<1>8. ASSUME NEW n \in Through(g, t, far) \ after.frontier PROVE In(n) \subseteq {t} \cup far
  <2>1. n \in far /\ n \in {t} \cup near
    BY <1>1, <1>2, <1>4, <1>6, <1>8
  <2>2. n \in Through(g, t, near)
    BY <1>2, <1>4, <1>8, <2>1
  <2>3. QED
    BY <1>3, <2>2
<1>9. after.total = Cardinality(D \cup (far \ {t}))
  <2> DEFINE old == D \cup (near \ {t})
  <2>1. old \subseteq g.nodes /\ next \subseteq g.nodes
    BY <1>2, <1>3
  <2>2. IsFiniteSet(old) /\ IsFiniteSet(next)
    BY <2>1, FS_Subset
  <2>3. old \cap next = {} /\ D \cup (far \ {t}) = old \cup next
    BY <1>2, <1>3
  <2>4. Cardinality(old \cup next) = Cardinality(old) + Cardinality(next) - Cardinality(old \cap next)
    BY <2>2, FS_Union
  <2>5. Cardinality(old \cap next) = 0
    BY <2>3, FS_EmptySet
  <2>6. Cardinality(old) \in Nat /\ Cardinality(next) \in Nat
    BY <2>2, FS_CardinalityType
  <2>7. hop.total = Cardinality(old)
    BY <1>2
  <2> HIDE DEF old
  <2>8. Cardinality(D \cup (far \ {t})) = Cardinality(old \cup next)
    BY <2>3
  <2>9. Cardinality(old \cup next) = Cardinality(old) + Cardinality(next)
    BY <2>4, <2>5, <2>6
  <2>10. QED
    BY <1>1, <2>7, <2>8, <2>9
<1>10. QED
  BY <1>5, <1>6, <1>7, <1>8, <1>9 DEF Counted, D, In, after, far

(* The search counts what depends on the target, for every depth.          *)
LEMMA ImpactCounted ==
  ASSUME NEW g, NEW t, IsFiniteSet(g.nodes), NEW maxHops \in Int
  PROVE  AnalyzeTotal(g, t, maxHops) = ImpactOf(g, t, maxHops)
<1> DEFINE hops == IF maxHops < 2 THEN 1 ELSE maxHops
           D == DirectImpact(g, t)
           stepH == [b \in Hops(g, t) |-> NextHop(g, b)]
           stepW == [s \in SUBSET g.nodes |-> Farther(g, t, s)]
<1>1. hops \in Nat \ {0}
  OBVIOUS
<1>2. /\ AnalyzeTotal(g, t, maxHops) = ImpactUpTo(g, t, hops)
      /\ ImpactOf(g, t, maxHops) = Cardinality(D \cup (DependsWithin(g, t, hops) \ {t}))
  BY DEF AnalyzeTotal, ImpactOf
<1> HIDE DEF hops
<1>3. PICK h : /\ Iterates(h, Hops(g, t), FirstHop(g, t), stepH, 1, hops)
               /\ ImpactUpTo(g, t, hops) = h[hops].total
  BY <1>1, HopsUnfold
<1>4. PICK w : /\ Iterates(w, SUBSET g.nodes, D, stepW, 1, hops)
               /\ DependsWithin(g, t, hops) = w[hops]
  BY <1>1, WithinUnfolds
<1> DEFINE Good == {n \in Nat : n + 1 <= hops => Counted(g, t, h[n + 1], w[n + 1])}
<1>5. 0 \in Good
  <2>1. h[1] = FirstHop(g, t) /\ w[1] = D
    BY <1>1, <1>3, <1>4 DEF Iterates
  <2>2. QED
    BY <2>1, FirstHopCounted
<1>6. ASSUME NEW n \in Nat, n \in Good PROVE n + 1 \in Good
  <2>1. SUFFICES ASSUME (n + 1) + 1 <= hops
                 PROVE  Counted(g, t, h[(n + 1) + 1], w[(n + 1) + 1])
    OBVIOUS
  <2> DEFINE j == (n + 1) + 1
  <2>2. j \in 1 .. hops /\ j # 1 /\ j - 1 = n + 1 /\ n + 1 \in 1 .. hops
    BY <1>1, <2>1
  <2>3. Counted(g, t, h[n + 1], w[n + 1])
    BY <1>6, <2>2
  <2>4. h[n + 1] \in Hops(g, t) /\ w[n + 1] \in SUBSET g.nodes
    BY <1>3, <1>4, <2>2 DEF Iterates
  <2> HIDE DEF j, Good
  <2>5. h[j] = NextHop(g, h[n + 1]) /\ w[j] = Farther(g, t, w[n + 1])
    BY <1>3, <1>4, <2>2, <2>4 DEF Iterates
  <2>6. Counted(g, t, h[j], w[j])
    BY <2>3, <2>4, <2>5, NextHopCounted
  <2>7. QED
    BY <2>6 DEF j
<1>7. \A n \in Nat : n \in Good
  <2> HIDE DEF Good
  <2>1. QED
    BY <1>5, <1>6, NatSetInduction
<1>8. Counted(g, t, h[hops], w[hops])
  <2>1. hops - 1 \in Nat /\ (hops - 1) + 1 = hops
    BY <1>1
  <2>2. (hops - 1) + 1 <= hops => Counted(g, t, h[(hops - 1) + 1], w[(hops - 1) + 1])
    BY <1>7, <2>1
  <2>3. QED
    BY <1>1, <2>1, <2>2
<1>9. QED
  BY <1>2, <1>3, <1>4, <1>8 DEF Counted
(* A violation carries the severity of a rule of the file.                 *)
LEMMA SeveritiesOfRules ==
  ASSUME NEW g, NEW change, NEW file, LoadsFrom(file),
         NEW v \in RulesViolated(g, change, file)
  PROVE  v.severity \in Severities
<1>1. PICK i \in 1 .. Len(file) : v \in RuleViolations(g, change, file[i])
  BY DEF RulesViolated
<1>2. v = Finding(file[i])
  BY <1>1, Zenon DEF RuleViolations
<1>3. file[i].severity \in Severities
  BY DEF LoadsFrom, WellFormed
<1>4. QED
  BY <1>2, <1>3 DEF Finding

Diffs == worktree \cup untracked \cup index \cup branch \cup tip

(* What the outcome of a check says of HEAD and of the violations.         *)
Justified(outcome) ==
  /\ outcome.exit \in {0, 1} /\ outcome.at = Len(commits)
  /\ \A v \in outcome.violations :
       /\ v.severity \in Severities
       /\ outcome.exit = 0 =>
            \/ v.severity = "warning"
            \/ /\ v.severity = "block" /\ commits # <<>>
               /\ v.id \in Last(commits).ids /\ Last(commits).reason

(* What it records of the check: the graph, the rules and what they found. *)
Records(outcome) ==
  /\ outcome.graph = graph /\ outcome.rules = rules
  /\ graph # NoGraph /\ LoadsFrom(rules) /\ outcome.diff # {} =>
       outcome.violations = RulesViolated(graph, Analyze(graph, outcome.diff, outcome.unparsed), rules)

LEMMA OutcomeJustified ==
  ASSUME NEW by, NEW diff, NEW approved \in BOOLEAN, NEW unparsed, NEW unread
  PROVE  /\ Justified(Outcome(by, diff, approved, unparsed, unread))
         /\ Records(Outcome(by, diff, approved, unparsed, unread))
         /\ Outcome(by, diff, approved, unparsed, unread).by = by
         /\ Outcome(by, diff, approved, unparsed, unread).diff = diff
         /\ Outcome(by, diff, approved, unparsed, unread).unread = unread
<1> DEFINE violations == RulesViolated(graph, Analyze(graph, diff, unparsed), rules)
           base == [by |-> by, diff |-> diff, graph |-> graph, rules |-> rules,
                    unparsed |-> unparsed, at |-> Len(commits), violations |-> {},
                    unread |-> unread, exit |-> 1]
           verdict == IF approved THEN PassedApproved(violations, HeadApproval(commits))
                      ELSE Passed(violations)
           full == [base EXCEPT !.violations = violations, !.exit = IF verdict THEN 0 ELSE 1]
           outcome == Outcome(by, diff, approved, unparsed, unread)
<1>1. \/ (~ LoadsFrom(rules) \/ graph = NoGraph) /\ outcome = base
      \/ diff = {} /\ outcome = [base EXCEPT !.exit = 0]
      \/ LoadsFrom(rules) /\ outcome = full
  BY Zenon DEF Outcome
<1>2. ASSUME LoadsFrom(rules), NEW v \in violations
      PROVE  /\ v.severity \in Severities
             /\ verdict => \/ v.severity = "warning"
                           \/ /\ v.severity = "block" /\ commits # <<>>
                              /\ v.id \in Last(commits).ids /\ Last(commits).reason
  <2>1. v.severity \in Severities
    BY <1>2, SeveritiesOfRules
  <2>2. CASE ~approved
    BY <2>1, <2>2 DEF Passed
  <2>3. CASE approved
    <3>1. SUFFICES ASSUME verdict, v.severity = "block"
                   PROVE  /\ commits # <<>>
                          /\ v.id \in Last(commits).ids /\ Last(commits).reason
      BY <2>1, <2>3 DEF PassedApproved, Severities
    <3>2. v.id \in ApprovedIds(HeadApproval(commits))
      BY <2>3, <3>1 DEF PassedApproved, Pending
    <3>3. HeadApproval(commits) # NoApproval /\ HeadApproval(commits).reason
      BY <3>2 DEF ApprovedIds, NoApproval
    <3>4. QED
      BY <3>2, <3>3 DEF ApprovedIds, HeadApproval
  <2>4. QED
    BY <2>2, <2>3
<1>3. /\ outcome.by = by /\ outcome.diff = diff /\ outcome.at = Len(commits)
      /\ outcome.graph = graph /\ outcome.rules = rules /\ outcome.unparsed = unparsed
      /\ outcome.unread = unread
      /\ outcome.exit \in {0, 1}
      /\ \/ /\ outcome.violations = {}
            /\ ~ LoadsFrom(rules) \/ graph = NoGraph \/ diff = {}
         \/ /\ LoadsFrom(rules) /\ outcome.violations = violations
            /\ outcome.exit = 0 => verdict
  <2>1. CASE \/ (~ LoadsFrom(rules) \/ graph = NoGraph) /\ outcome = base
             \/ diff = {} /\ outcome = [base EXCEPT !.exit = 0]
    <3> HIDE DEF violations, verdict, outcome
    <3>1. QED
      BY <2>1
  <2>2. CASE LoadsFrom(rules) /\ outcome = full
    <3>1. full.exit = IF verdict THEN 0 ELSE 1
      <4> HIDE DEF violations, verdict, outcome
      <4>1. QED
        OBVIOUS
    <3>2. /\ full.by = by /\ full.diff = diff /\ full.at = Len(commits)
          /\ full.graph = graph /\ full.rules = rules /\ full.unparsed = unparsed
          /\ full.violations = violations /\ full.unread = unread
      <4> HIDE DEF violations, verdict, outcome
      <4>1. QED
        OBVIOUS
    <3> HIDE DEF violations, verdict, outcome, full, base
    <3>3. QED
      BY <2>2, <3>1, <3>2
  <2>3. QED
    BY <1>1, <2>1, <2>2
<1>4. Justified(outcome)
  <2> HIDE DEF violations, verdict, outcome
  <2>1. QED
    BY <1>2, <1>3 DEF Justified
<1>5. Records(outcome)
  <2>1. violations = RulesViolated(graph, Analyze(graph, diff, unparsed), rules)
    OBVIOUS
  <2> HIDE DEF violations, verdict, outcome
  <2>2. QED
    BY <1>3, <2>1 DEF Records
<1>6. QED
  BY <1>3, <1>4, <1>5

LEMMA InitGuardrailsInv == Init => GuardrailsInv
<1> SUFFICES ASSUME Init PROVE GuardrailsInv
  OBVIOUS
<1>1. last = NoCheck /\ commits = <<>> /\ worktree = {} /\ untracked = {} /\ index = {}
      /\ branch = {} /\ tip = {} /\ rules \in RuleFiles /\ graph = NoGraph
  BY DEF Init
<1>2. commits \in Seq(Trailers) /\ Len(commits) = 0
  BY <1>1, EmptySeq
<1>3. IsFiniteSet({}) /\ Diffs = {}
  BY <1>1, FS_EmptySet DEF Diffs
<1>4. QED
  BY <1>1, <1>2, <1>3, GuardrailAssumption
  DEF GuardrailsInv, TypeOK, ApprovalLapses, LastCurrent, LastEvaluated, DiffsFinite, Diffs,
      NoCheck, Severities

(* Whatever stages or commits forgets the last check.                      *)
LEMMA NoCheckInv ==
  ASSUME TypeOK', IsFiniteSet(Diffs'), last' = NoCheck
  PROVE  GuardrailsInv'
  BY FS_EmptySet
  DEF GuardrailsInv, ApprovalLapses, LastCurrent, LastEvaluated, DiffsFinite, Diffs, NoCheck

(* What only adds a file diff to the working tree leaves the check alone.  *)
LEMMA EditInv ==
  ASSUME GuardrailsInv, NEW fd \in Changes, Edit(fd) \/ Create(fd)
  PROVE  GuardrailsInv'
<1>1. /\ UNCHANGED <<rules, graph, index, branch, tip, commits, last>>
      /\ worktree' \cup untracked' = worktree \cup untracked \cup {fd}
  BY DEF Edit, Create
<1>2. worktree' \subseteq Changes /\ untracked' \subseteq Changes
  BY DEF Edit, Create, GuardrailsInv, TypeOK
<1>3. TypeOK'
  BY <1>1, <1>2 DEF GuardrailsInv, TypeOK
<1>4. IsFiniteSet(Diffs')
  <2>1. Diffs' = Diffs \cup {fd}
    BY <1>1 DEF Diffs
  <2>2. QED
    BY <2>1, FS_AddElement DEF GuardrailsInv, DiffsFinite, Diffs
<1>5. QED
  BY <1>1, <1>3, <1>4
  DEF GuardrailsInv, ApprovalLapses, LastCurrent, LastEvaluated, Evaluated, Changed, DiffsFinite,
      Diffs

LEMMA CommitIndexInv ==
  ASSUME GuardrailsInv, NEW message \in Trailers, CommitIndex(message)
  PROVE  GuardrailsInv'
<1>1. /\ Len(commits) < MaxCommits /\ commits' = Append(commits, message)
      /\ branch' = branch \cup index /\ tip' = index /\ index' = {} /\ last' = NoCheck
      /\ UNCHANGED <<rules, graph, worktree, untracked>>
  BY DEF CommitIndex
<1>2. commits \in Seq(Trailers) /\ Len(commits) \in Nat
  BY LenProperties DEF GuardrailsInv, TypeOK
<1>3. commits' \in Seq(Trailers) /\ Len(commits') = Len(commits) + 1
  BY <1>1, <1>2, AppendProperties
<1>4. TypeOK'
  BY <1>1, <1>2, <1>3, GuardrailAssumption DEF GuardrailsInv, TypeOK, NoCheck
<1>5. IsFiniteSet(Diffs')
  <2>1. Diffs' \subseteq Diffs /\ IsFiniteSet(Diffs)
    BY <1>1 DEF GuardrailsInv, DiffsFinite, Diffs
  <2>2. QED
    BY <2>1, FS_Subset
<1>6. QED
  BY <1>1, <1>4, <1>5, NoCheckInv

(* A check leaves the branch alone and is justified by its HEAD.           *)
LEMMA CheckInv ==
  ASSUME GuardrailsInv, NEW by, NEW diff, NEW approved \in BOOLEAN, NEW unparsed, NEW unread,
         by \in {"auto", "hook"} /\ ~unread /\ index # {} => diff = index,
         diff \subseteq Changes, diff \subseteq Diffs,
         last' = Outcome(by, diff, approved, unparsed, unread), UNCHANGED <<rules, graph, git>>
  PROVE  GuardrailsInv'
<1>1. /\ Justified(last') /\ Records(last')
      /\ last'.by = by /\ last'.diff = diff /\ last'.unread = unread
  BY OutcomeJustified
<1>2. commits \in Seq(Trailers) /\ Len(commits) \in Nat /\ (commits # <<>> => Len(commits) > 0)
  BY LenProperties, EmptySeq DEF GuardrailsInv, TypeOK
<1>3. TypeOK'
  BY <1>1, <1>2 DEF GuardrailsInv, TypeOK, Justified, git
<1>4. ApprovalLapses'
  BY <1>1, <1>2 DEF ApprovalLapses, Justified, git, Last
<1>5. LastCurrent'
  BY <1>1 DEF LastCurrent, git
<1>6. LastEvaluated'
  <2>1. graph \in Graphs \cup {NoGraph} /\ rules \in RuleFiles
    BY DEF GuardrailsInv, TypeOK
  <2>2. QED
    BY <1>1, <2>1 DEF LastEvaluated, Evaluated, Changed, Records
<1>7. DiffsFinite'
  <2>1. IsFiniteSet(Diffs)
    BY DEF GuardrailsInv, DiffsFinite, Diffs
  <2>2. IsFiniteSet(diff)
    BY <2>1, FS_Subset
  <2>3. QED
    BY <1>1, <2>1, <2>2 DEF DiffsFinite, Diffs, git
<1>8. QED
  BY <1>3, <1>4, <1>5, <1>6, <1>7 DEF GuardrailsInv

LEMMA NextGuardrailsInv == GuardrailsInv /\ [Next]_vars => GuardrailsInv'
<1> SUFFICES ASSUME GuardrailsInv, [Next]_vars PROVE GuardrailsInv'
  OBVIOUS
<1>1. ASSUME NEW fd \in Changes, Edit(fd) \/ Create(fd) \/ Rename(fd) \/ Stage(fd)
      PROVE  GuardrailsInv'
  <2>1. CASE Edit(fd) \/ Create(fd)
    BY <2>1, EditInv
  <2>2. CASE Rename(fd) \/ Stage(fd)
    <3>1. last' = NoCheck
      BY <2>2 DEF Rename, Stage
    <3>2. TypeOK'
      BY <2>2, LenProperties DEF Rename, Stage, GuardrailsInv, TypeOK, NoCheck
    <3>3. Diffs' \subseteq Diffs \cup {fd}
      BY <2>2 DEF Rename, Stage, Diffs
    <3>4. IsFiniteSet(Diffs')
      <4>1. IsFiniteSet(Diffs \cup {fd})
        BY FS_AddElement DEF GuardrailsInv, DiffsFinite, Diffs
      <4>2. QED
        BY <3>3, <4>1, FS_Subset
    <3>5. QED
      BY <3>1, <3>2, <3>4, NoCheckInv
  <2>3. QED
    BY <1>1, <2>1, <2>2
<1>2. ASSUME NEW message \in Trailers, Commit(message) \/ Approve(message) PROVE GuardrailsInv'
  BY <1>2, CommitIndexInv DEF Commit, Approve
<1>3. CASE Publish
  <2>1. TypeOK'
    BY <1>3, LenProperties DEF Publish, git, GuardrailsInv, TypeOK, NoCheck
  <2>2. IsFiniteSet(Diffs')
    BY <1>3 DEF Publish, git, GuardrailsInv, DiffsFinite, Diffs
  <2>3. QED
    BY <1>3, <2>1, <2>2, NoCheckInv DEF Publish
<1>4. ASSUME NEW by \in {"hook", "branch"}, NEW approved \in BOOLEAN, CheckGiven(by, approved)
      PROVE  GuardrailsInv'
  <2> DEFINE diff == IF by = "hook" THEN index ELSE branch
  <2>1. PICK unparsed \in Unparsed(diff) : last' = Outcome(by, diff, approved, unparsed, FALSE)
    BY <1>4 DEF CheckGiven
  <2>2. UNCHANGED <<rules, graph, git>>
    BY <1>4 DEF CheckGiven
  <2>3. /\ by \in {"auto", "hook"} => diff = index
        /\ diff \subseteq Changes /\ diff \subseteq Diffs
    BY DEF Diffs, GuardrailsInv, TypeOK
  <2> HIDE DEF diff
  <2>4. QED
    BY <2>1, <2>2, <2>3, CheckInv
<1>8. ASSUME NEW approved \in BOOLEAN, CheckAuto(approved) PROVE GuardrailsInv'
  <2>1. PICK failed \in SUBSET Commands :
          \E unparsed \in Unparsed(AutoDiff(failed)) :
            last' = Outcome("auto", AutoDiff(failed), approved, unparsed, "staged" \in failed)
    BY <1>8 DEF CheckAuto
  <2>2. PICK unparsed :
          last' = Outcome("auto", AutoDiff(failed), approved, unparsed, "staged" \in failed)
    BY <2>1
  <2>3. UNCHANGED <<rules, graph, git>>
    BY <1>8 DEF CheckAuto
  <2>4. /\ "staged" \notin failed /\ index # {} => AutoDiff(failed) = index
        /\ AutoDiff(failed) \subseteq Changes /\ AutoDiff(failed) \subseteq Diffs
    BY DEF AutoDiff, BranchDiff, Output, Diffs, GuardrailsInv, TypeOK
  <2>5. QED
    BY <2>2, <2>3, <2>4, CheckInv
<1>5. CASE Validate
  <2>1. PICK unparsed \in Unparsed(worktree \cup index) :
          last' = Outcome("server", worktree \cup index, FALSE, unparsed, FALSE)
    BY <1>5 DEF Validate
  <2>2. UNCHANGED <<rules, graph, git>>
    BY <1>5 DEF Validate
  <2>3. worktree \cup index \subseteq Changes /\ worktree \cup index \subseteq Diffs
    BY DEF GuardrailsInv, TypeOK, Diffs
  <2>4. QED
    BY <2>1, <2>2, <2>3, CheckInv
<1>6. CASE UNCHANGED vars
  BY <1>6
  DEF vars, git, GuardrailsInv, TypeOK, ApprovalLapses, LastCurrent, LastEvaluated, DiffsFinite,
      Evaluated, Changed
<1>7. QED
  BY <1>1, <1>2, <1>3, <1>4, <1>5, <1>6, <1>8 DEF Next

(* The inductive invariant: the result of a check is that of HEAD and of   *)
(* what is staged as they are until something is staged or committed.      *)
THEOREM GuardrailsInvariant == Spec => []GuardrailsInv
  BY InitGuardrailsInv, NextGuardrailsInv, PTL DEF Spec

(* The types hold; every violation has a severity the rules know.          *)
THEOREM GuardrailsTypeCorrect == Spec => []TypeOK
<1>1. GuardrailsInv => TypeOK
  BY DEF GuardrailsInv
<1>2. QED
  BY <1>1, GuardrailsInvariant, PTL

(* Over whatever sequence of edits, commits, approvals and publications,   *)
(* only HEAD's own trailers clear a BLOCK, and nothing clears an ERROR.    *)
THEOREM ApprovalsLapse == Spec => []ApprovalLapses
<1>1. GuardrailsInv => ApprovalLapses
  BY DEF GuardrailsInv
<1>2. QED
  BY <1>1, GuardrailsInvariant, PTL

(* A commit made on the word of a check takes exactly what was checked,    *)
(* unless git failed the check, whatever was edited in between.            *)
THEOREM CheckedIsCommitted == Spec => CommitsWhatWasChecked
<1> DEFINE Takes == last.by \in {"auto", "hook"} /\ ~last.unread /\ index # {}
                      /\ commits' # commits => tip' = last.diff
<1>1. GuardrailsInv /\ [Next]_vars => [Takes]_vars
  <2> SUFFICES ASSUME GuardrailsInv, Next, last.by \in {"auto", "hook"}, ~last.unread,
                      index # {}, commits' # commits
               PROVE  tip' = last.diff
    BY DEF vars, git
  <2>1. last.diff = index
    BY DEF GuardrailsInv, LastCurrent
  <2>2. PICK message \in Trailers : CommitIndex(message)
    BY DEF Next, Edit, Create, Rename, Stage, Publish, CheckGiven, CheckAuto, Validate, Commit,
           Approve, git
  <2>3. QED
    BY <2>1, <2>2 DEF CommitIndex
<1>2. QED
  BY <1>1, GuardrailsInvariant, PTL DEF Spec, CommitsWhatWasChecked

(* The nodes that depend on one are nodes of the graph.                    *)
LEMMA ImpactIsNumber ==
  ASSUME NEW g, NEW t, IsFiniteSet(g.nodes), NEW maxHops \in Int
  PROVE  ImpactOf(g, t, maxHops) \in Nat
<1> DEFINE hops == IF maxHops < 2 THEN 1 ELSE maxHops
           D == DirectImpact(g, t)
           set == D \cup (DependsWithin(g, t, hops) \ {t})
<1>1. hops \in Nat \ {0}
  OBVIOUS
<1>2. ImpactOf(g, t, maxHops) = Cardinality(set)
  BY DEF ImpactOf
<1> HIDE DEF hops
<1>3. DependsWithin(g, t, hops) \in SUBSET g.nodes
  <2>1. PICK w : /\ Iterates(w, SUBSET g.nodes, D, [s \in SUBSET g.nodes |-> Farther(g, t, s)], 1, hops)
                 /\ DependsWithin(g, t, hops) = w[hops]
    BY <1>1, WithinUnfolds
  <2>2. w[hops] \in SUBSET g.nodes
    BY <1>1, <2>1 DEF Iterates
  <2>3. QED
    BY <2>1, <2>2
<1>4. set \subseteq g.nodes
  BY <1>3, IncomingNodes DEF DirectImpact
<1> HIDE DEF set
<1>5. QED
  BY <1>2, <1>4, FS_Subset, FS_CardinalityType

LEMMA GraphsFinite ==
  ASSUME NEW g \in Graphs PROVE IsFiniteSet(g.nodes)
  BY GraphAssumption, GuardrailAssumption, FS_Subset DEF IsGraph

(* A deleted file's nodes are among the subjects of an impact rule.        *)
LEMMA DeletedAreSubjects ==
  ASSUME NEW g, NEW diff, NEW unparsed, NEW r, NEW fd \in diff,
         fd.status = "deleted", ~fd.binary, fd.old # NoPath,
         NEW n \in g.nodes, PathOf[n] = fd.old,
         Passes(KindOf[n], Kinds(r, "target_kind", NodeKinds)), InPattern(r, n)
  PROVE  n \in ImpactSubjects(g, Analyze(g, diff, unparsed), r)
<1> DEFINE part == AnalyzeFile(g, fd, unparsed)
<1>1. part = DeletedFile(g, fd)
  BY DEF AnalyzeFile, StatusOf
<1>2. DeletedFile(g, fd).modified = FindNodesInFile(g, fd.old)
  BY DEF DeletedFile, NoChange
<1>3. n \in FindNodesInFile(g, fd.old)
  BY DEF FindNodesInFile
<1>4. n \in part.modified
  BY <1>1, <1>2, <1>3
<1> DEFINE parts == {AnalyzeFile(g, f, unparsed) : f \in diff}
<1>5. Analyze(g, diff, unparsed).modified = UNION {p.modified : p \in parts}
  BY DEF Analyze
<1>6. part \in parts
  OBVIOUS
<1> HIDE DEF part, parts
<1>7. n \in Analyze(g, diff, unparsed).modified
  BY <1>4, <1>5, <1>6
<1>8. QED
  BY <1>7 DEF ImpactSubjects

(* An impact rule whose keys are well typed does not raise.                *)
LEMMA WellTypedRuns ==
  ASSUME NEW g, NEW change, NEW r, r.type = "impact_threshold", WellTyped(r)
  PROVE  ~ Raises(g, change, r)
<1>1. ~ ImpactRaises(g, change, r)
  BY DEF ImpactRaises, PatternRaises, WellTyped
<1>2. QED
  BY <1>1 DEF Raises

(* max_hops of a well typed rule is a number.                              *)
LEMMA HopsOfRule ==
  ASSUME NEW r, WellTyped(r), Option(r, "max_hops", 3) \in Int \cup {Wrong}
  PROVE  Option(r, "max_hops", 3) \in Int
<1>1. Option(r, "max_hops", {}) # Wrong
  BY DEF WellTyped, Mistyped
<1>2. CASE "max_hops" \in DOMAIN r.config
  BY <1>1, <1>2 DEF Option
<1>3. CASE "max_hops" \notin DOMAIN r.config
  BY <1>3 DEF Option
<1>4. QED
  BY <1>2, <1>3

(* The search's count is exact, whichever generation is active.            *)
THEOREM ImpactIsExact == Spec => []ImpactExact
<1>1. TypeOK => ImpactExact
  <2> SUFFICES ASSUME TypeOK, graph # NoGraph, NEW n \in graph.nodes, NEW hops \in 1 .. 3
               PROVE  AnalyzeTotal(graph, n, hops) = ImpactOf(graph, n, hops)
    BY DEF ImpactExact
  <2>1. graph \in Graphs
    BY DEF TypeOK
  <2>2. IsFiniteSet(graph.nodes)
    BY <2>1, GraphsFinite
  <2>3. QED
    BY <2>2, ImpactCounted
<1>2. QED
  BY <1>1, GuardrailsTypeCorrect, PTL

(* A change whose check passes deletes nothing that too much depends on,   *)
(* for every graph, diff and rules file, whatever its other rules raise.   *)
THEOREM DeletionsAreMeasured == Spec => []DeletionsMeasured
<1>1. GuardrailsInv => DeletionsMeasured
  <2> SUFFICES ASSUME GuardrailsInv, Evaluated, last.exit = 0,
                      NEW i \in 1 .. Len(last.rules), NEW fd \in last.diff,
                      last.rules[i].type = "impact_threshold", last.rules[i].severity = "error",
                      WellTyped(last.rules[i]), fd.status = "deleted", ~fd.binary,
                      NEW n \in {m \in last.graph.nodes : PathOf[m] = fd.old},
                      Passes(KindOf[n], Kinds(last.rules[i], "target_kind", NodeKinds)),
                      InPattern(last.rules[i], n)
               PROVE  ImpactOf(last.graph, n, Option(last.rules[i], "max_hops", 3))
                        <= last.rules[i].config.max_impact
    BY DEF DeletionsMeasured
  <2> DEFINE r == last.rules[i]
             g == last.graph
             hops == Option(r, "max_hops", 3)
  <2>1. /\ last.rules \in RuleFiles /\ g \in Graphs /\ last.diff \subseteq Changes
        /\ last.violations = RulesViolated(g, Changed, last.rules)
    BY DEF GuardrailsInv, LastEvaluated, Evaluated
  <2>2. WellFormed(r)
    BY DEF Evaluated, LoadsFrom
  <2>3. r.config.max_impact \in Nat
    BY <2>2 DEF WellFormed
  <2>4. n \in ImpactSubjects(g, Changed, r)
    BY <2>1, DeletedAreSubjects, GuardrailAssumption DEF Changed
  <2>5. Subjects(g, Changed, r) = ImpactSubjects(g, Changed, r)
    BY DEF Subjects
  <2>6. hops \in Int
    BY <2>1, <2>2, HopsAssumption, HopsOfRule
  <2>7. AnalyzeTotal(g, n, hops) = ImpactOf(g, n, hops) /\ ImpactOf(g, n, hops) \in Nat
    BY <2>1, <2>6, GraphsFinite, ImpactCounted, ImpactIsNumber
  <2>8. ~ (AnalyzeTotal(g, n, hops) > r.config.max_impact)
    <3> SUFFICES ASSUME AnalyzeTotal(g, n, hops) > r.config.max_impact PROVE FALSE
      OBVIOUS
    <3>1. ImpactFires(g, r, n)
      BY DEF ImpactFires
    <3>2. Fires(g, r, n)
      BY <3>1 DEF Fires
    <3>3. RuleViolations(g, Changed, r) = {Finding(r)}
      BY <2>4, <2>5, <3>2, WellTypedRuns DEF RuleViolations
    <3>4. Finding(r) \in last.violations
      BY <2>1, <3>3 DEF RulesViolated
    <3>5. Finding(r).severity = "error"
      BY DEF Finding
    <3>6. QED
      BY <3>4, <3>5 DEF GuardrailsInv, ApprovalLapses
  <2>9. QED
    BY <2>3, <2>7, <2>8
<1>2. QED
  BY <1>1, GuardrailsInvariant, PTL

(* The two ends of the pairs of a finite relation.                         *)
EndsOf(pairs) == UNION {{e[1], e[2]} : e \in pairs}
IsPairs(pairs) == IsFiniteSet(pairs) /\ \A e \in pairs : e = <<e[1], e[2]>>

LEMMA EndsFinite ==
  ASSUME NEW pairs, IsFiniteSet(pairs) PROVE IsFiniteSet(EndsOf(pairs))
<1> DEFINE f == [e \in pairs |-> {e[1], e[2]}]
           T == {f[e] : e \in DOMAIN f}
<1>1. IsFiniteSet(T)
  BY ImageFinite
<1>2. \A s \in T : IsFiniteSet(s)
  <2>1. ASSUME NEW x, NEW y PROVE IsFiniteSet({x, y})
    <3>1. IsFiniteSet({x}) /\ IsFiniteSet({y}) /\ {x, y} = {x} \cup {y}
      BY FS_Singleton
    <3>2. QED
      BY <3>1, FS_Union
  <2>2. ASSUME NEW s \in T PROVE IsFiniteSet(s)
    <3>1. PICK e \in pairs : s = {e[1], e[2]}
      OBVIOUS
    <3>2. QED
      BY <2>1, <3>1
  <2>3. QED
    BY <2>2
<1>3. EndsOf(pairs) = UNION T
  BY DEF EndsOf
<1> HIDE DEF T
<1>4. QED
  BY <1>1, <1>2, <1>3, FS_UNION

(* The layers of ReachedBy.                                                *)
Spreads(w, pairs, from, hops) ==
  Iterates(w, SUBSET EndsOf(pairs), {from},
           [s \in SUBSET EndsOf(pairs) |-> Onward(pairs, s)], 0, hops)

LEMMA OnwardStep ==
  ASSUME NEW pairs
  PROVE  /\ [s \in SUBSET EndsOf(pairs) |-> Onward(pairs, s)]
              \in [SUBSET EndsOf(pairs) -> SUBSET EndsOf(pairs)]
         /\ \A s \in SUBSET EndsOf(pairs) : s \subseteq Onward(pairs, s)
  BY DEF Onward, EndsOf

LEMMA ReachedByUnfolds ==
  ASSUME NEW pairs, NEW from \in EndsOf(pairs), NEW hops \in Nat
  PROVE  \E w : Spreads(w, pairs, from, hops) /\ ReachedBy(pairs, from, hops) = w[hops]
<1> DEFINE S == SUBSET EndsOf(pairs)
           step == [s \in S |-> Onward(pairs, s)]
           Rec(w) == w = [j \in 0 .. hops |-> IF j = 0 THEN {from} ELSE Onward(pairs, w[j - 1])]
<1>1. {from} \in S /\ step \in [S -> S]
  BY OnwardStep
<1>2. PICK f : Iterates(f, S, {from}, step, 0, hops)
  <2> HIDE DEF S, step
  <2>1. QED
    BY <1>1, RecursionExists
<1>3. Rec(f)
  <2>1. ASSUME NEW j \in 0 .. hops
        PROVE  f[j] = IF j = 0 THEN {from} ELSE Onward(pairs, f[j - 1])
    <3>1. CASE j = 0
      BY <1>2, <3>1 DEF Iterates
    <3>2. CASE j # 0
      <4>1. j - 1 \in 0 .. hops
        BY <3>2
      <4>2. f[j - 1] \in S /\ f[j] = step[f[j - 1]]
        BY <1>2, <3>2, <4>1 DEF Iterates
      <4>3. QED
        BY <3>2, <4>2
    <3>3. QED
      BY <3>1, <3>2
  <2>2. f = [j \in 0 .. hops |-> f[j]]
    BY <1>2 DEF Iterates
  <2>3. QED
    BY <2>1, <2>2
<1> DEFINE w == CHOOSE x : Rec(x)
<1>4. Rec(w)
  <2> HIDE DEF Rec
  <2>1. QED
    BY <1>3
<1>5. ReachedBy(pairs, from, hops) = w[hops]
  BY DEF ReachedBy
<1>6. Iterates(w, S, {from}, step, 0, hops)
  <2> HIDE DEF w
  <2>1. w = [j \in 0 .. hops |-> w[j]] /\ w[0] = {from}
    BY <1>4
  <2>2. ASSUME NEW j \in 0 .. hops, j # 0, w[j - 1] \in S PROVE w[j] = step[w[j - 1]]
    <3>1. w[j] = Onward(pairs, w[j - 1])
      BY <1>4, <2>2
    <3>2. QED
      BY <2>2, <3>1
  <2> HIDE DEF S, step, Rec
  <2>3. QED
    BY <1>1, <2>1, <2>2, RecursionTyped
<1>7. QED
  BY <1>5, <1>6 DEF Spreads

(* One layer after the other, each within the next.                        *)
LEMMA SpreadSteps ==
  ASSUME NEW pairs, NEW from \in EndsOf(pairs), NEW hops \in Nat, NEW w, Spreads(w, pairs, from, hops)
  PROVE  /\ w[0] = {from}
         /\ \A j \in 0 .. hops : w[j] \in SUBSET EndsOf(pairs)
         /\ \A j \in 0 .. hops : j # 0 => w[j] = Onward(pairs, w[j - 1])
         /\ \A i, j \in 0 .. hops : i <= j => w[i] \subseteq w[j]
<1> DEFINE S == SUBSET EndsOf(pairs)
           step == [s \in S |-> Onward(pairs, s)]
<1>1. Iterates(w, S, {from}, step, 0, hops)
  BY DEF Spreads
<1>2. /\ w[0] = {from} /\ \A j \in 0 .. hops : w[j] \in S
      /\ \A j \in 0 .. hops : j # 0 => w[j] = step[w[j - 1]]
  <2> HIDE DEF S, step
  <2>1. QED
    BY <1>1 DEF Iterates
<1>3. ASSUME NEW j \in 0 .. hops, j # 0
      PROVE  w[j] = Onward(pairs, w[j - 1]) /\ w[j - 1] \subseteq w[j]
  <2>1. j - 1 \in 0 .. hops
    BY <1>3
  <2>2. w[j - 1] \in S /\ w[j] = step[w[j - 1]]
    <3> HIDE DEF S, step
    <3>1. QED
      BY <1>2, <1>3, <2>1
  <2>3. QED
    BY <2>2 DEF Onward
<1>4. ASSUME NEW i \in 0 .. hops PROVE \A j \in 0 .. hops : i <= j => w[i] \subseteq w[j]
  <2> DEFINE Good == {n \in Nat : i + n <= hops => w[i] \subseteq w[i + n]}
  <2>1. 0 \in Good
    OBVIOUS
  <2>2. ASSUME NEW n \in Nat, n \in Good PROVE n + 1 \in Good
    <3>1. SUFFICES ASSUME i + (n + 1) <= hops PROVE w[i] \subseteq w[i + (n + 1)]
      OBVIOUS
    <3> DEFINE j == i + (n + 1)
    <3>2. j \in 0 .. hops /\ j # 0 /\ j - 1 = i + n /\ i + n <= hops
      BY <3>1
    <3>3. w[i] \subseteq w[i + n]
      BY <2>2, <3>2
    <3> HIDE DEF j, Good
    <3>4. w[i] \subseteq w[j]
      BY <1>3, <3>2, <3>3
    <3>5. QED
      BY <3>4 DEF j
  <2>3. \A n \in Nat : n \in Good
    <3> HIDE DEF Good
    <3>1. QED
      BY <2>1, <2>2, NatSetInduction
  <2>4. ASSUME NEW j \in 0 .. hops, i <= j PROVE w[i] \subseteq w[j]
    <3>1. j - i \in Nat /\ i + (j - i) = j
      BY <2>4
    <3>2. i + (j - i) <= hops => w[i] \subseteq w[i + (j - i)]
      BY <2>3, <3>1
    <3>3. QED
      BY <3>1, <3>2
  <2>5. QED
    BY <2>4
<1>5. QED
  BY <1>2, <1>3, <1>4

(* The last layer is closed.                                               *)
LEMMA ReachedClosed ==
  ASSUME NEW pairs, IsPairs(pairs), NEW from \in EndsOf(pairs)
  PROVE  LET R == ReachedBy(pairs, from, Cardinality(EndsOf(pairs)))
         IN  from \in R /\ \A e \in pairs : e[1] \in R => e[2] \in R
<1> DEFINE N == EndsOf(pairs)
           S == SUBSET N
           step == [s \in S |-> Onward(pairs, s)]
           K == Cardinality(N)
<1>1. IsFiniteSet(N) /\ K \in Nat
  BY EndsFinite, FS_CardinalityType DEF IsPairs
<1>2. PICK w : Spreads(w, pairs, from, K) /\ ReachedBy(pairs, from, K) = w[K]
  BY <1>1, ReachedByUnfolds
<1>3. /\ w[0] = {from} /\ w[K] \in S /\ w[0] \subseteq w[K]
  <2> HIDE DEF K
  <2>1. K \in 0 .. K /\ 0 \in 0 .. K /\ 0 <= K
    BY <1>1
  <2>2. QED
    BY <1>1, <1>2, <2>1, SpreadSteps
<1>4. step[w[K]] = w[K]
  <2>1. Iterates(w, S, {from}, step, 0, K)
    BY <1>2 DEF Spreads
  <2>2. {from} \in S /\ step \in [S -> S] /\ \A s \in S : s \subseteq step[s]
    BY OnwardStep
  <2> DEFINE k == K
  <2>3. Cardinality(N) <= k /\ k \in Nat /\ k = K
    BY <1>1
  <2>4. S = SUBSET N
    OBVIOUS
  <2> HIDE DEF S, step, k, N, K
  <2>5. QED
    BY <1>1, <2>1, <2>2, <2>3, <2>4, Saturation
<1>5. Onward(pairs, w[K]) = w[K]
  BY <1>3, <1>4
<1> HIDE DEF K
<1>6. QED
  BY <1>2, <1>3, <1>5 DEF Onward, K

(* The position after i on the way around k positions.                     *)
LEMMA AfterPosition ==
  ASSUME NEW k \in Nat \ {0}, NEW i \in 1 .. k
  PROVE  (i % k) + 1 = IF i = k THEN 1 ELSE i + 1
<1>1. CASE i = k
  <2>1. k % k = 0
    OBVIOUS
  <2>2. QED
    BY <1>1, <2>1
<1>2. CASE i # k
  <2>1. i \in 0 .. k - 1
    BY <1>2
  <2>2. i % k = i
    BY <2>1
  <2>3. QED
    BY <1>2, <2>2
<1>3. QED
  BY <1>1, <1>2

(* A path of k nodes, and the pairs around it.                             *)
LEMMA AroundPath ==
  ASSUME NEW S, NEW k \in Nat \ {0}, NEW c \in [1 .. k -> S]
  PROVE  /\ Around(c) = {<<c[i], c[(i % k) + 1]>> : i \in 1 .. k}
         /\ \A i \in 1 .. k : i # k => <<c[i], c[i + 1]>> \in Around(c)
         /\ <<c[k], c[1]>> \in Around(c)
         /\ \A e \in Around(c) : \/ \E i \in 1 .. k : i # k /\ e = <<c[i], c[i + 1]>>
                                 \/ e = <<c[k], c[1]>>
<1>1. c \in Seq(S) /\ Len(c) = k
  <2>1. c \in Seq(S)
    OBVIOUS
  <2>2. Len(c) = k
    BY <2>1, LenProperties
  <2>3. QED
    BY <2>1, <2>2
<1>2. Around(c) = {<<c[i], c[(i % k) + 1]>> : i \in 1 .. k}
  BY <1>1 DEF Around
<1>3. \A i \in 1 .. k : (i % k) + 1 = IF i = k THEN 1 ELSE i + 1
  BY AfterPosition
<1>4. ASSUME NEW i \in 1 .. k, i # k PROVE <<c[i], c[i + 1]>> \in Around(c)
  <2>1. (i % k) + 1 = i + 1
    BY <1>3, <1>4
  <2>2. QED
    BY <1>2, <2>1
<1>5. <<c[k], c[1]>> \in Around(c)
  <2>1. (k % k) + 1 = 1 /\ k \in 1 .. k
    BY <1>3
  <2>2. QED
    BY <1>2, <2>1
<1>6. ASSUME NEW e \in Around(c)
      PROVE  \/ \E i \in 1 .. k : i # k /\ e = <<c[i], c[i + 1]>>
             \/ e = <<c[k], c[1]>>
  <2>1. PICK i \in 1 .. k : e = <<c[i], c[(i % k) + 1]>>
    BY <1>2
  <2>2. (i % k) + 1 = IF i = k THEN 1 ELSE i + 1
    BY <1>3
  <2>3. CASE i = k
    BY <2>1, <2>2, <2>3
  <2>4. CASE i # k
    BY <2>1, <2>2, <2>4
  <2>5. QED
    BY <2>3, <2>4
<1>7. QED
  BY <1>2, <1>4, <1>5, <1>6

(* Around a cycle every node reaches every other.                          *)
LEMMA CycleReaches ==
  ASSUME NEW pairs, IsPairs(pairs), NEW cycle \in SimpleCycles(pairs), NEW e \in cycle, e \in pairs
  PROVE  Reaches(pairs, e[2], e[1])
<1> DEFINE ends == {x[1] : x \in pairs} \cap {x[2] : x \in pairs}
           R == ReachedBy(pairs, e[2], Cardinality(EndsOf(pairs)))
<1>1. PICK c \in Paths(ends) : Around(c) \subseteq pairs /\ cycle = Around(c)
  BY DEF SimpleCycles
<1>2. PICK k \in 1 .. Cardinality(ends) : c \in [1 .. k -> ends]
  BY <1>1 DEF Paths
<1>3. IsFiniteSet(ends)
  <2>1. ends \subseteq EndsOf(pairs)
    BY DEF EndsOf
  <2>2. QED
    BY <2>1, EndsFinite, FS_Subset DEF IsPairs
<1>4. k \in Nat \ {0}
  <2>1. Cardinality(ends) \in Nat
    BY <1>3, FS_CardinalityType
  <2> HIDE DEF ends
  <2>2. QED
    BY <2>1
<1>5. e[2] \in EndsOf(pairs)
  BY DEF EndsOf
<1>6. e[2] \in R /\ \A x \in pairs : x[1] \in R => x[2] \in R
  BY <1>5, ReachedClosed
<1> HIDE DEF R, ends
<1>7. /\ \A i \in 1 .. k : i # k => <<c[i], c[i + 1]>> \in pairs
      /\ <<c[k], c[1]>> \in pairs
      /\ \/ \E i \in 1 .. k : i # k /\ e = <<c[i], c[i + 1]>>
         \/ e = <<c[k], c[1]>>
  BY <1>1, <1>2, <1>4, AroundPath
<1>8. /\ \A i \in 1 .. k : i # k /\ c[i] \in R => c[i + 1] \in R
      /\ c[k] \in R => c[1] \in R
  <2>1. ASSUME NEW i \in 1 .. k, i # k, c[i] \in R PROVE c[i + 1] \in R
    <3>1. <<c[i], c[i + 1]>> \in pairs
      BY <1>7, <2>1
    <3>2. <<c[i], c[i + 1]>>[1] = c[i] /\ <<c[i], c[i + 1]>>[2] = c[i + 1]
      OBVIOUS
    <3>3. QED
      BY <1>6, <2>1, <3>1, <3>2
  <2>2. ASSUME c[k] \in R PROVE c[1] \in R
    <3>1. <<c[k], c[1]>>[1] = c[k] /\ <<c[k], c[1]>>[2] = c[1]
      OBVIOUS
    <3>2. QED
      BY <1>6, <1>7, <2>2, <3>1
  <2>3. QED
    BY <2>1, <2>2
<1>9. ASSUME NEW i \in 1 .. k, c[i] \in R PROVE \A j \in i .. k : c[j] \in R
  <2> DEFINE Good == {n \in Nat : i + n <= k => c[i + n] \in R}
  <2>1. 0 \in Good
    BY <1>9
  <2>2. ASSUME NEW n \in Nat, n \in Good PROVE n + 1 \in Good
    <3>1. SUFFICES ASSUME i + (n + 1) <= k PROVE c[i + (n + 1)] \in R
      OBVIOUS
    <3>2. i + n \in 1 .. k /\ i + n # k /\ (i + n) + 1 = i + (n + 1) /\ i + n <= k
      BY <1>4, <3>1
    <3>3. c[i + n] \in R
      BY <2>2, <3>2
    <3>4. c[(i + n) + 1] \in R
      BY <1>8, <3>2, <3>3
    <3>5. QED
      BY <3>2, <3>4
  <2>3. \A n \in Nat : n \in Good
    <3> HIDE DEF Good
    <3>1. QED
      BY <2>1, <2>2, NatSetInduction
  <2>4. ASSUME NEW j \in i .. k PROVE c[j] \in R
    <3>1. j - i \in Nat /\ i + (j - i) = j
      BY <1>4
    <3>2. i + (j - i) <= k => c[i + (j - i)] \in R
      BY <2>3, <3>1
    <3>3. QED
      BY <1>4, <3>1, <3>2
  <2>5. QED
    BY <2>4
<1>10. \A j \in 1 .. k : c[j] \in R
  <2>1. k \in 1 .. k /\ 1 \in 1 .. k
    BY <1>4
  <2>2. c[1] \in R
    <3>1. CASE e = <<c[k], c[1]>>
      BY <1>6, <3>1
    <3>2. ASSUME NEW i \in 1 .. k, i # k, e = <<c[i], c[i + 1]>> PROVE c[1] \in R
      <4>1. c[i + 1] \in R
        BY <1>6, <3>2
      <4>2. i + 1 \in 1 .. k /\ k \in i + 1 .. k
        BY <1>4, <3>2
      <4>3. c[k] \in R
        BY <1>9, <4>1, <4>2
      <4>4. QED
        BY <1>8, <4>3
    <3>3. QED
      BY <1>7, <3>1, <3>2
  <2>3. QED
    BY <1>9, <2>1, <2>2
<1>11. e[1] \in R
  <2>1. CASE e = <<c[k], c[1]>>
    <3>1. e[1] = c[k] /\ k \in 1 .. k
      BY <1>4, <2>1
    <3>2. QED
      BY <1>10, <3>1
  <2>2. ASSUME NEW i \in 1 .. k, e = <<c[i], c[i + 1]>> PROVE e[1] \in R
    BY <1>10, <2>2
  <2>3. QED
    BY <1>7, <2>1, <2>2
<1>12. QED
  BY <1>11 DEF Reaches, R, EndsOf

(* A shortest path: every node of it is new at its own layer.              *)
Shortest(q, n, w, pairs) ==
  /\ \A j \in 0 .. n : q[j] \in w[j] /\ (j # 0 => q[j] \notin w[j - 1])
  /\ \A j \in 0 .. n : j # 0 => <<q[j - 1], q[j]>> \in pairs

LEMMA ShortestPathExists ==
  ASSUME NEW pairs, IsPairs(pairs), NEW from \in EndsOf(pairs), NEW hops \in Nat, NEW w, Spreads(w, pairs, from, hops),
         NEW n \in 0 .. hops, NEW x \in w[n], n # 0 => x \notin w[n - 1]
  PROVE  \E q \in [0 .. n -> EndsOf(pairs)] : q[n] = x /\ Shortest(q, n, w, pairs)
<1> DEFINE N == EndsOf(pairs)
           Ok(m) == \A y \in w[m] : (m # 0 => y \notin w[m - 1])
                      => \E q \in [0 .. m -> N] : q[m] = y /\ Shortest(q, m, w, pairs)
           Good == {m \in Nat : m <= hops => Ok(m)}
<1>1. /\ w[0] = {from} /\ \A j \in 0 .. hops : w[j] \in SUBSET N
      /\ \A j \in 0 .. hops : j # 0 => w[j] = Onward(pairs, w[j - 1])
  BY SpreadSteps
<1>2. 0 \in Good
  <2>1. ASSUME NEW y \in w[0]
        PROVE  \E q \in [0 .. 0 -> N] : q[0] = y /\ Shortest(q, 0, w, pairs)
    <3> DEFINE q == [j \in 0 .. 0 |-> y]
    <3>1. q \in [0 .. 0 -> N] /\ q[0] = y
      BY <1>1, <2>1
    <3>2. Shortest(q, 0, w, pairs)
      BY <2>1 DEF Shortest
    <3>3. QED
      BY <3>1, <3>2
  <2>2. QED
    BY <2>1
<1>3. ASSUME NEW m \in Nat, m \in Good PROVE m + 1 \in Good
  <2>1. SUFFICES ASSUME m + 1 <= hops, NEW y \in w[m + 1], y \notin w[m]
                 PROVE  \E q \in [0 .. m + 1 -> N] : q[m + 1] = y /\ Shortest(q, m + 1, w, pairs)
    <3>1. (m + 1) - 1 = m
      OBVIOUS
    <3>2. QED
      BY <3>1
  <2>2. /\ m + 1 \in 0 .. hops /\ m + 1 # 0 /\ (m + 1) - 1 = m /\ m \in 0 .. hops /\ m <= hops
    BY <2>1
  <2>3. w[m + 1] = Onward(pairs, w[m]) /\ w[m + 1] \in SUBSET N
    BY <1>1, <2>2
  <2>4. PICK e \in pairs : e[1] \in w[m] /\ e[2] = y
    BY <2>1, <2>3 DEF Onward
  <2>5. m # 0 => e[1] \notin w[m - 1]
    <3>1. SUFFICES ASSUME m # 0, e[1] \in w[m - 1] PROVE FALSE
      OBVIOUS
    <3>2. w[m] = Onward(pairs, w[m - 1])
      BY <1>1, <2>2, <3>1
    <3>3. y \in w[m]
      BY <2>4, <3>1, <3>2 DEF Onward
    <3>4. QED
      BY <2>1, <3>3
  <2>6. PICK r \in [0 .. m -> N] : r[m] = e[1] /\ Shortest(r, m, w, pairs)
    BY <1>3, <2>2, <2>4, <2>5
  <2> DEFINE q == [j \in 0 .. m + 1 |-> IF j = m + 1 THEN y ELSE r[j]]
  <2>7. q[m + 1] = y /\ \A j \in 0 .. m : q[j] = r[j]
    BY <2>2
  <2>8. q \in [0 .. m + 1 -> N]
    <3>1. y \in N
      BY <2>1, <2>3
    <3>2. ASSUME NEW j \in 0 .. m + 1 PROVE (IF j = m + 1 THEN y ELSE r[j]) \in N
      <4>1. j # m + 1 => j \in 0 .. m
        OBVIOUS
      <4>2. QED
        BY <3>1, <4>1
    <3>3. QED
      BY <3>2
  <2> HIDE DEF q
  <2>9. ASSUME NEW j \in 0 .. m + 1
        PROVE  /\ q[j] \in w[j] /\ (j # 0 => q[j] \notin w[j - 1])
               /\ j # 0 => <<q[j - 1], q[j]>> \in pairs
    <3>1. CASE j = m + 1
      <4>1. q[j] = y /\ j - 1 = m /\ q[j - 1] = r[m]
        BY <2>7, <3>1
      <4>2. <<e[1], e[2]>> \in pairs
        BY DEF IsPairs
      <4>3. QED
        BY <2>1, <2>4, <2>6, <3>1, <4>1, <4>2
    <3>2. CASE j # m + 1
      <4>1. j \in 0 .. m /\ (j # 0 => j - 1 \in 0 .. m)
        BY <3>2
      <4>2. q[j] = r[j] /\ (j # 0 => q[j - 1] = r[j - 1])
        BY <2>7, <4>1
      <4>3. QED
        BY <2>6, <4>1, <4>2 DEF Shortest
    <3>3. QED
      BY <3>1, <3>2
  <2>10. Shortest(q, m + 1, w, pairs)
    BY <2>9 DEF Shortest
  <2>11. QED
    BY <2>7, <2>8, <2>10
<1>4. \A m \in Nat : m \in Good
  <2> HIDE DEF Good
  <2>1. QED
    BY <1>2, <1>3, NatSetInduction
<1>5. Ok(n)
  BY <1>4
<1>6. QED
  BY <1>5

(* Along a shortest path no node comes twice.                              *)
LEMMA ShortestInjective ==
  ASSUME NEW pairs, NEW from \in EndsOf(pairs), NEW hops \in Nat, NEW w, Spreads(w, pairs, from, hops),
         NEW n \in 0 .. hops, NEW q, Shortest(q, n, w, pairs),
         NEW i \in 0 .. n, NEW j \in 0 .. n, i < j
  PROVE  q[i] # q[j]
<1>1. j - 1 \in 0 .. hops /\ i \in 0 .. hops /\ i <= j - 1 /\ j # 0
  OBVIOUS
<1>2. w[i] \subseteq w[j - 1]
  BY <1>1, SpreadSteps
<1>3. q[i] \in w[i] /\ q[j] \notin w[j - 1]
  BY <1>1 DEF Shortest
<1>4. QED
  BY <1>2, <1>3

(* An edge whose end reaches its start is on a simple cycle.               *)
LEMMA ReachesCycle ==
  ASSUME NEW pairs, IsPairs(pairs), NEW e \in pairs, Reaches(pairs, e[2], e[1])
  PROVE  \E cycle \in SimpleCycles(pairs) : e \in cycle
<1> DEFINE N == EndsOf(pairs)
           ends == {x[1] : x \in pairs} \cap {x[2] : x \in pairs}
           K == Cardinality(N)
<1>1. IsFiniteSet(N) /\ K \in Nat /\ e[2] \in N
  BY EndsFinite, FS_CardinalityType DEF IsPairs, EndsOf
<1>2. PICK w : Spreads(w, pairs, e[2], K) /\ ReachedBy(pairs, e[2], K) = w[K]
  BY <1>1, ReachedByUnfolds
<1>3. e[1] \in w[K]
  BY <1>2 DEF Reaches, EndsOf
<1> HIDE DEF N, K
<1> DEFINE hits == {n \in 0 .. K : e[1] \in w[n]}
<1>4. PICK m \in hits : \A n \in hits : m <= n
  <2>1. hits \in SUBSET Nat /\ K \in hits
    BY <1>1, <1>3
  <2> HIDE DEF hits
  <2>2. QED
    BY <2>1, LeastNumber
<1>5. m \in Nat /\ m \in 0 .. K /\ e[1] \in w[m]
  BY <1>1
<1>6. m # 0 => e[1] \notin w[m - 1]
  <2>1. m # 0 => m - 1 \in 0 .. K /\ ~ (m <= m - 1)
    BY <1>1, <1>5
  <2>2. QED
    BY <1>4, <2>1
<1> HIDE DEF hits
<1>7. PICK q \in [0 .. m -> N] : q[m] = e[1] /\ Shortest(q, m, w, pairs)
  BY <1>1, <1>2, <1>5, <1>6, ShortestPathExists DEF N
<1>8. /\ q[0] = e[2]
      /\ \A j \in 0 .. m : j # 0 => <<q[j - 1], q[j]>> \in pairs
  <2>1. w[0] = {e[2]}
    <3> DEFINE from == e[2]
    <3>1. from \in EndsOf(pairs) /\ Spreads(w, pairs, from, K)
      BY <1>1, <1>2 DEF N
    <3> HIDE DEF from
    <3>2. w[0] = {from}
      BY <1>1, <3>1, SpreadSteps
    <3>3. QED
      BY <3>2 DEF from
  <2>2. 0 \in 0 .. m
    BY <1>5
  <2>3. QED
    BY <1>7, <2>1, <2>2 DEF Shortest
<1>9. e = <<q[m], q[0]>>
  BY <1>7, <1>8 DEF IsPairs
<1> DEFINE k == m + 1
           c == [i \in 1 .. k |-> q[i - 1]]
<1>10. ASSUME NEW j \in 0 .. m PROVE q[j] \in ends
  <2>1. q[j] \in {x[1] : x \in pairs}
    <3>1. CASE j = m
      BY <1>7, <3>1
    <3>2. CASE j # m
      <4>1. j + 1 \in 0 .. m /\ j + 1 # 0 /\ (j + 1) - 1 = j
        BY <1>5, <3>2
      <4>2. <<q[j], q[j + 1]>> \in pairs
        BY <1>8, <4>1
      <4>3. <<q[j], q[j + 1]>>[1] = q[j]
        OBVIOUS
      <4>4. QED
        BY <4>2, <4>3
    <3>3. QED
      BY <3>1, <3>2
  <2>2. q[j] \in {x[2] : x \in pairs}
    <3>1. CASE j = 0
      BY <1>8, <3>1
    <3>2. CASE j # 0
      <4>1. <<q[j - 1], q[j]>> \in pairs
        BY <1>8, <3>2
      <4>2. <<q[j - 1], q[j]>>[2] = q[j]
        OBVIOUS
      <4>3. QED
        BY <4>1, <4>2
    <3>3. QED
      BY <3>1, <3>2
  <2>3. QED
    BY <2>1, <2>2
<1> HIDE DEF ends
<1>11. k \in Nat \ {0} /\ \A i \in 1 .. k : i - 1 \in 0 .. m
  BY <1>5
<1>12. c \in [1 .. k -> ends] /\ DOMAIN c = 1 .. k /\ \A i \in 1 .. k : c[i] = q[i - 1]
  BY <1>10, <1>11
<1> HIDE DEF c
<1>13. IsInjective(c)
  <2>1. ASSUME NEW a \in 1 .. k, NEW b \in 1 .. k, a < b PROVE c[a] # c[b]
    <3>1. a - 1 \in 0 .. m /\ b - 1 \in 0 .. m /\ a - 1 < b - 1
      BY <1>11, <2>1
    <3>2. q[a - 1] # q[b - 1]
      BY <1>1, <1>2, <1>5, <1>7, <3>1, ShortestInjective DEF N
    <3>3. QED
      BY <1>12, <3>2
  <2>2. ASSUME NEW a \in 1 .. k, NEW b \in 1 .. k, c[a] = c[b] PROVE a = b
    <3>1. ~ (a < b) /\ ~ (b < a)
      BY <2>1, <2>2
    <3>2. a \in Int /\ b \in Int
      BY <1>11
    <3>3. QED
      BY <3>1, <3>2
  <2>3. QED
    BY <1>12, <2>2 DEF IsInjective
<1>14. k \in 1 .. Cardinality(ends)
  <2>1. IsFiniteSet(ends)
    <3>1. ends \subseteq N
      BY DEF ends, N, EndsOf
    <3>2. QED
      BY <1>1, <3>1, FS_Subset
  <2>2. c \in Injection(1 .. k, ends)
    BY <1>12, <1>13 DEF Injection, IsInjective
  <2>3. Cardinality(1 .. k) <= Cardinality(ends)
    BY <2>1, <2>2, FS_Injection
  <2>4. Cardinality(1 .. k) = k
    <3>1. Cardinality(1 .. k) = IF 1 > k THEN 0 ELSE k - 1 + 1
      BY <1>11, FS_Interval
    <3>2. QED
      BY <1>11, <3>1
  <2>5. Cardinality(ends) \in Nat
    BY <2>1, FS_CardinalityType
  <2> HIDE DEF k
  <2>6. QED
    BY <1>11, <2>3, <2>4, <2>5
<1>15. c \in Paths(ends)
  BY <1>12, <1>13, <1>14 DEF Paths
<1>16. Around(c) \subseteq pairs /\ e \in Around(c)
  <2>1. /\ <<c[k], c[1]>> \in Around(c)
        /\ \A x \in Around(c) : \/ \E i \in 1 .. k : i # k /\ x = <<c[i], c[i + 1]>>
                                \/ x = <<c[k], c[1]>>
    <3>1. k \in Nat \ {0} /\ c \in [1 .. k -> ends]
      BY <1>11, <1>12
    <3> HIDE DEF k
    <3>2. QED
      BY <3>1, AroundPath
  <2>2. <<c[k], c[1]>> = e
    <3>1. k \in 1 .. k /\ 1 \in 1 .. k /\ k - 1 = m /\ 1 - 1 = 0
      BY <1>5
    <3>2. QED
      BY <1>9, <1>12, <3>1
  <2>3. ASSUME NEW i \in 1 .. k, i # k PROVE <<c[i], c[i + 1]>> \in pairs
    <3>1. /\ i \in 0 .. m /\ i # 0 /\ i + 1 \in 1 .. k /\ (i + 1) - 1 = i
      BY <1>5, <2>3
    <3>2. c[i] = q[i - 1] /\ c[i + 1] = q[i]
      BY <1>12, <2>3, <3>1
    <3>3. QED
      BY <1>8, <3>1, <3>2
  <2> HIDE DEF k
  <2>4. QED
    BY <2>1, <2>2, <2>3
<1>17. Around(c) \in SimpleCycles(pairs)
  BY <1>15, <1>16 DEF SimpleCycles, ends
<1>18. QED
  BY <1>16, <1>17

(* What the changed lines and symbols of a finite diff add is finite.      *)
LEMMA NewEdgesFinite ==
  ASSUME NEW g, NEW diff \in SUBSET Changes, IsFiniteSet(diff), NEW unparsed
  PROVE  IsFiniteSet(Analyze(g, diff, unparsed).newEdges)
<1> DEFINE f == [fd \in diff |-> AnalyzeFile(g, fd, unparsed).newEdges]
           T == {f[fd] : fd \in DOMAIN f}
<1>1. ASSUME NEW source, NEW kind, NEW targets, IsFiniteSet(targets)
      PROVE  IsFiniteSet({Edge(source, t, kind) : t \in targets})
  <2> DEFINE h == [t \in targets |-> Edge(source, t, kind)]
  <2>1. IsFiniteSet({h[t] : t \in DOMAIN h})
    BY <1>1, ImageFinite
  <2>2. {h[t] : t \in DOMAIN h} = {Edge(source, t, kind) : t \in targets}
    OBVIOUS
  <2> HIDE DEF h
  <2>3. QED
    BY <2>1, <2>2
<1>2. IsFiniteSet({})
  BY FS_EmptySet
<1>3. ASSUME NEW path, NEW targets, IsFiniteSet(targets)
      PROVE  IsFiniteSet(DetectEdgeChanges(g, path, targets))
  BY <1>1, <1>2, <1>3 DEF DetectEdgeChanges
<1>4. ASSUME NEW fd \in Changes PROVE IsFiniteSet(ExtractNewSymbols(fd))
  <2> DEFINE h == [s \in fd.symbols |-> SymbolEdges(fd, s)]
             H == {h[s] : s \in DOMAIN h}
  <2>1. IsFiniteSet(fd.symbols) /\ \A s \in fd.symbols : IsFiniteSet(s.imports) /\ IsFiniteSet(s.calls)
    BY GuardrailAssumption
  <2>2. IsFiniteSet(H)
    BY <2>1, ImageFinite
  <2>3. ASSUME NEW s \in fd.symbols PROVE IsFiniteSet(h[s])
    <3> DEFINE source == NewSymbol[fd.new, s.name]
               A == {Edge(source, t, "imports") : t \in s.imports}
               B == {Edge(source, t, "calls") : t \in s.calls}
    <3>1. h[s] = A \cup B
      BY Zenon DEF SymbolEdges
    <3> HIDE DEF source
    <3>2. IsFiniteSet(A) /\ IsFiniteSet(B)
      BY <1>1, <2>1
    <3> HIDE DEF A, B, h
    <3>3. QED
      BY <3>1, <3>2, FS_Union
  <2>4. ExtractNewSymbols(fd) = UNION H
    BY DEF ExtractNewSymbols
  <2>5. \A s \in H : IsFiniteSet(s)
    BY <2>3
  <2> HIDE DEF H
  <2>6. QED
    BY <2>2, <2>4, <2>5, FS_UNION
<1>5. ASSUME NEW fd \in diff PROVE IsFiniteSet(AnalyzeFile(g, fd, unparsed).newEdges)
  <2>1. IsFiniteSet(fd.added) /\ fd \in Changes
    BY GuardrailAssumption
  <2>2. CASE StatusOf(fd) = "deleted"
    <3>1. AnalyzeFile(g, fd, unparsed).newEdges = {}
      BY <2>2 DEF AnalyzeFile, DeletedFile, NoChange
    <3>2. QED
      BY <1>2, <3>1
  <2>3. CASE StatusOf(fd) = "added"
    <3>1. AnalyzeFile(g, fd, unparsed)
            = [NoChange EXCEPT !.newEdges = IF fd.new \in unparsed THEN {} ELSE ExtractNewSymbols(fd),
                               !.files = {fd.new}]
      BY <2>3 DEF AnalyzeFile
    <3>2. AnalyzeFile(g, fd, unparsed).newEdges \in {{}, ExtractNewSymbols(fd)}
      BY <3>1 DEF NoChange
    <3>3. QED
      BY <1>2, <1>4, <2>1, <3>2
  <2>4. CASE StatusOf(fd) \notin {"deleted", "added"}
    <3>1. AnalyzeFile(g, fd, unparsed).newEdges = DetectEdgeChanges(g, fd.new, fd.added)
      BY <2>4 DEF AnalyzeFile
    <3>2. QED
      BY <1>3, <2>1, <3>1
  <2>5. QED
    BY <2>2, <2>3, <2>4
<1>6. IsFiniteSet(T)
  BY ImageFinite
<1>7. \A s \in T : IsFiniteSet(s)
  BY <1>5
<1>8. Analyze(g, diff, unparsed).newEdges = UNION T
  BY DEF Analyze
<1> HIDE DEF T
<1>9. QED
  BY <1>6, <1>7, <1>8, FS_UNION

LEMMA CyclePairsArePairs ==
  ASSUME NEW g \in Graphs, NEW change, IsFiniteSet(change.newEdges), NEW r
  PROVE  IsPairs(CyclePairs(g, change, r))
<1> DEFINE old == {e \in DOMAIN g.edge : g.edge[e] \in CycleKinds(r)}
           edges == {x \in change.newEdges : x.kind \in CycleKinds(r)}
           f == [e \in edges |-> <<e.source, e.target>>]
<1>1. IsFiniteSet(old) /\ \A e \in old : e = <<e[1], e[2]>>
  <2>1. old \subseteq g.nodes \X g.nodes
    BY GuardrailAssumption DEF IsGraph
  <2>2. IsFiniteSet(g.nodes \X g.nodes)
    BY GraphsFinite, FS_Product
  <2>3. QED
    BY <2>1, <2>2, FS_Subset
<1>2. IsFiniteSet(edges)
  BY FS_Subset
<1>3. IsFiniteSet({f[e] : e \in DOMAIN f})
  <2> HIDE DEF edges
  <2>1. QED
    BY <1>2, ImageFinite
<1>4. NewPairs(change, r) = {f[e] : e \in DOMAIN f}
  BY DEF NewPairs
<1>5. \A e \in NewPairs(change, r) : e = <<e[1], e[2]>>
  BY DEF NewPairs
<1>6. CyclePairs(g, change, r) = NewPairs(change, r) \cup old
  BY DEF CyclePairs
<1> HIDE DEF old, f
<1>7. IsFiniteSet(CyclePairs(g, change, r))
  <2>1. IsFiniteSet(NewPairs(change, r))
    BY <1>3, <1>4
  <2>2. IsFiniteSet(NewPairs(change, r) \cup old)
    BY ONLY <1>1, <2>1, FS_Union
  <2>3. QED
    BY <1>6, <2>2
<1>8. \A e \in CyclePairs(g, change, r) : e = <<e[1], e[2]>>
  BY <1>1, <1>5, <1>6
<1>9. QED
  BY <1>7, <1>8 DEF IsPairs

(* The cap leaves something to report whenever there is something.         *)
LEMMA CapReports ==
  ASSUME NEW cycles, IsFiniteSet(cycles), NEW new
  PROVE  ReportedCycles(cycles, new) # {} <=> \E c \in cycles : c \cap new # {}
<1> DEFINE S == {c \in cycles : c \cap new # {}}
           n == Cardinality(S)
           order == SetToSeq(S)
           Fits(f) == f \in [1 .. n -> S] /\ IsInjective(f)
<1>1. IsFiniteSet(S)
  BY FS_Subset
<1>2. n \in Nat /\ \E f : Fits(f)
  <2> HIDE DEF S
  <2>1. Cardinality(S) \in Nat /\ ExistsBijection(1 .. Cardinality(S), S)
    BY <1>1, FS_CardinalityType
  <2>2. PICK f \in Bijection(1 .. n, S) : TRUE
    BY <2>1 DEF ExistsBijection
  <2> HIDE DEF n
  <2>3. Fits(f)
    BY <2>2 DEF Bijection, Injection, IsInjective
  <2>4. QED
    BY <2>1, <2>3 DEF n
<1>3. Fits(order)
  <2>1. order = CHOOSE f : Fits(f)
    BY Zenon DEF SetToSeq
  <2> HIDE DEF order, Fits
  <2>2. QED
    BY <1>2, <2>1
<1>4. order \in Seq(S) /\ Len(order) = n
  <2> HIDE DEF n, order, S
  <2>1. order \in [1 .. n -> S]
    BY <1>3
  <2>2. order \in Seq(S)
    BY <1>2, <2>1
  <2>3. QED
    BY <1>2, <2>1, <2>2, LenProperties
<1>5. ReportedCycles(cycles, new) = {order[i] : i \in {j \in 1 .. Len(order) : j <= MaxCycles}}
  BY DEF ReportedCycles
<1>6. S = {} <=> n = 0
  <2> HIDE DEF S
  <2>1. QED
    BY <1>1, FS_EmptySet
<1> HIDE DEF order, n, S
<1>7. n # 0 <=> ReportedCycles(cycles, new) # {}
  <2>1. MaxCycles \in Nat \ {0}
    BY GuardrailAssumption
  <2>2. CASE n = 0
    BY <1>4, <1>5, <2>2
  <2>3. CASE n # 0
    <3>1. 1 \in {j \in 1 .. Len(order) : j <= MaxCycles}
      BY <1>2, <1>4, <2>1, <2>3
    <3>2. QED
      BY <1>5, <2>3, <3>1
  <2>4. QED
    BY <2>2, <2>3
<1>8. S # {} <=> \E c \in cycles : c \cap new # {}
  BY DEF S
<1>9. QED
  BY <1>6, <1>7, <1>8

(* A cycle rule reports something exactly when an edge of the change       *)
(* closes a cycle, whatever the cap.                                       *)
THEOREM CyclesAreDecided == Spec => []CyclesDecided
<1>1. GuardrailsInv => CyclesDecided
  <2> SUFFICES ASSUME GuardrailsInv, Evaluated, NEW i \in 1 .. Len(last.rules),
                      last.rules[i].type = "cycle_detection"
               PROVE  LET r == last.rules[i]
                          pairs == CyclePairs(last.graph, Changed, r)
                      IN  (CycleSubjects(last.graph, Changed, r) # {})
                            <=> (\E e \in NewPairs(Changed, r) : Reaches(pairs, e[2], e[1]))
    BY DEF CyclesDecided
  <2> DEFINE r == last.rules[i]
             g == last.graph
             new == NewPairs(Changed, r)
             pairs == CyclePairs(g, Changed, r)
             cycles == SimpleCycles(pairs)
  <2>1. g \in Graphs /\ last.diff \subseteq Changes /\ IsFiniteSet(last.diff)
    BY DEF GuardrailsInv, LastEvaluated, DiffsFinite, Evaluated
  <2>2. IsFiniteSet(Changed.newEdges)
    BY <2>1, NewEdgesFinite DEF Changed
  <2>3. IsPairs(pairs)
    BY <2>1, <2>2, CyclePairsArePairs
  <2>4. new \subseteq pairs
    BY DEF CyclePairs
  <2>5. CycleSubjects(g, Changed, r) = IF new = {} THEN {} ELSE ReportedCycles(cycles, new)
    BY DEF CycleSubjects
  <2> HIDE DEF r, g, new, pairs
  <2>6. IsFiniteSet(cycles)
    <3>1. cycles \subseteq SUBSET pairs
      BY DEF SimpleCycles
    <3>2. IsFiniteSet(SUBSET pairs)
      BY <2>3, FS_SUBSET DEF IsPairs
    <3> HIDE DEF cycles
    <3>3. QED
      BY <3>1, <3>2, FS_Subset
  <2>7. (\E c \in cycles : c \cap new # {}) <=> (\E e \in new : Reaches(pairs, e[2], e[1]))
    <3>1. ASSUME NEW c \in cycles, NEW e \in c \cap new PROVE Reaches(pairs, e[2], e[1])
      BY <2>3, <2>4, <3>1, CycleReaches
    <3>2. ASSUME NEW e \in new, Reaches(pairs, e[2], e[1])
          PROVE  \E c \in cycles : e \in c
      BY <2>3, <2>4, <3>2, ReachesCycle
    <3> HIDE DEF cycles
    <3>3. QED
      BY <3>1, <3>2
  <2> HIDE DEF cycles
  <2>8. (CycleSubjects(g, Changed, r) # {}) <=> \E c \in cycles : c \cap new # {}
    BY <2>5, <2>6, CapReports
  <2>9. QED
    BY <2>7, <2>8 DEF r, g, new, pairs
<1>2. QED
  BY <1>1, GuardrailsInvariant, PTL
=============================================================================
