--------------------------- MODULE SessionsProofs ---------------------------
(* Theorems of Sessions, for any processes, sessions, nodes, topics and    *)
(* bounds of the context, and every interleaving of requests and crashes.  *)
EXTENDS Sessions, RecursionLemmas, SequenceTheorems, TLAPS

(***************************************************************************)
(* The feedback store keeps its types.                                     *)
(***************************************************************************)

LEMMA NodesInOrder ==
  ASSUME NEW S \in SUBSET Nodes PROVE SetToSeq(S) \in Seq(Nodes)
<1>1. IsFiniteSet(S)
  BY FeedbackAssumption, FS_Subset
<1>2. Cardinality(S) \in Nat /\ \E f \in [1 .. Cardinality(S) -> S] : IsInjective(f)
  BY <1>1, FS_CardinalityType DEF ExistsBijection, Bijection, Injection
<1>3. SetToSeq(S) \in [1 .. Cardinality(S) -> S]
  BY <1>2, Zenon DEF SetToSeq
<1>4. SetToSeq(S) \in [1 .. Cardinality(S) -> Nodes]
  BY <1>3
<1>5. QED
  BY <1>2, <1>4

LEMMA OccurrencesAreNumbers ==
  ASSUME NEW list \in Seq(Nodes), NEW k \in 0 .. Len(list), NEW E \in SUBSET Combinations(list)
  PROVE  /\ \A n : /\ Occurrences(list, k, n) \in Nat
                   /\ Occurrences(list, Len(list), n) \in Nat
                   /\ Occurrences(list, k, n) <= Occurrences(list, Len(list), n)
         /\ \A P : /\ PairOccurrences(list, E, P) \in Nat
                   /\ PairOccurrences(list, Combinations(list), P) \in Nat
                   /\ PairOccurrences(list, E, P) <= PairOccurrences(list, Combinations(list), P)
<1>1. IsFiniteSet(DOMAIN list) /\ DOMAIN list = 1 .. Len(list) /\ Len(list) \in Nat
  BY LenProperties, FS_Interval
<1>2. IsFiniteSet(SUBSET DOMAIN list)
  BY <1>1, FS_SUBSET
<1>3. IsFiniteSet(Combinations(list))
  <2>1. Combinations(list) \in SUBSET (SUBSET DOMAIN list)
    BY DEF Combinations
  <2>2. QED
    BY <1>2, <2>1, FS_Subset
<1>4. ASSUME NEW S, IsFiniteSet(S), NEW T \in SUBSET S
      PROVE  Cardinality(T) \in Nat /\ Cardinality(S) \in Nat /\ Cardinality(T) <= Cardinality(S)
  BY <1>4, FS_Subset, FS_CardinalityType
<1>5. ASSUME NEW n
      PROVE  /\ Occurrences(list, k, n) \in Nat /\ Occurrences(list, Len(list), n) \in Nat
             /\ Occurrences(list, k, n) <= Occurrences(list, Len(list), n)
  <2> DEFINE S == {i \in DOMAIN list : i <= Len(list) /\ list[i] = n}
             T == {i \in DOMAIN list : i <= k /\ list[i] = n}
  <2>1. S \in SUBSET DOMAIN list /\ T \in SUBSET S
    BY <1>1
  <2>2. IsFiniteSet(S)
    BY <1>1, <2>1, FS_Subset
  <2>3. Occurrences(list, k, n) = Cardinality(T) /\ Occurrences(list, Len(list), n) = Cardinality(S)
    BY DEF Occurrences
  <2> HIDE DEF S, T
  <2>4. QED
    BY <1>4, <2>1, <2>2, <2>3
<1>6. ASSUME NEW P
      PROVE  /\ PairOccurrences(list, E, P) \in Nat
             /\ PairOccurrences(list, Combinations(list), P) \in Nat
             /\ PairOccurrences(list, E, P) <= PairOccurrences(list, Combinations(list), P)
  <2> DEFINE S == {e \in Combinations(list) : {list[i] : i \in e} = P}
             T == {e \in E : {list[i] : i \in e} = P}
  <2>1. S \in SUBSET Combinations(list) /\ T \in SUBSET S
    OBVIOUS
  <2>2. IsFiniteSet(S)
    BY <1>3, <2>1, FS_Subset
  <2>3. /\ PairOccurrences(list, E, P) = Cardinality(T)
        /\ PairOccurrences(list, Combinations(list), P) = Cardinality(S)
    BY DEF PairOccurrences
  <2> HIDE DEF S, T
  <2>4. QED
    BY <1>4, <2>1, <2>2, <2>3
<1>7. QED
  BY <1>5, <1>6

(* How far a record may have come: all the way if it returned.             *)
CameTo(signal, k, E) ==
  /\ k \in 0 .. Len(signal.nodes) /\ E \in SUBSET Combinations(signal.nodes)
  /\ ~signal.raised => k = Len(signal.nodes) /\ E = Combinations(signal.nodes)

LEMMA EnteredTypeOK ==
  ASSUME NEW tables \in Ledger, NEW signal \in Signal, NEW k, NEW E, CameTo(signal, k, E)
  PROVE  /\ Entered(tables, signal, k, E) \in Ledger
         /\ DOMAIN Entered(tables, signal, k, E).signals
              = DOMAIN tables.signals \cup {Len(tables.signals) + 1}
<1> DEFINE more == Entered(tables, signal, k, E)
<1>1. /\ more.signals = Append(tables.signals, signal)
      /\ more.nodeAgg = [n \in Nodes |-> Count(tables.nodeAgg[n], signal.outcome,
                                               Occurrences(signal.nodes, k, n))]
      /\ more.pairAgg = [P \in Pair |-> Count(tables.pairAgg[P], signal.outcome,
                                              PairOccurrences(signal.nodes, E, P))]
      /\ more = [signals |-> more.signals, nodeAgg |-> more.nodeAgg, pairAgg |-> more.pairAgg]
  BY DEF Entered
<1>2. /\ tables.signals \in Seq(Signal) /\ tables.nodeAgg \in [Nodes -> Counts]
      /\ tables.pairAgg \in [Pair -> Counts]
  BY DEF Ledger
<1>3. signal.nodes \in Seq(Nodes) /\ signal.outcome \in Outcomes
  BY DEF Signal
<1> HIDE DEF more
<1>4. more.signals \in Seq(Signal) /\ DOMAIN more.signals = DOMAIN tables.signals \cup {Len(tables.signals) + 1}
  <2>1. /\ more.signals \in Seq(Signal) /\ Len(more.signals) = Len(tables.signals) + 1
        /\ Len(tables.signals) \in Nat
    BY <1>1, <1>2, AppendProperties, LenProperties
  <2>2. /\ DOMAIN more.signals = 1 .. Len(tables.signals) + 1
        /\ DOMAIN tables.signals = 1 .. Len(tables.signals)
    BY <1>2, <2>1, LenProperties
  <2>3. QED
    BY <2>1, <2>2
<1>5. ASSUME NEW c \in Counts, NEW i \in Nat PROVE Count(c, signal.outcome, i) \in Counts
  BY DEF Count, Counts
<1>6. /\ \A n : Occurrences(signal.nodes, k, n) \in Nat
      /\ \A P : PairOccurrences(signal.nodes, E, P) \in Nat
  BY <1>3, OccurrencesAreNumbers DEF CameTo
<1>7. more.nodeAgg \in [Nodes -> Counts]
  BY <1>1, <1>2, <1>5, <1>6
<1>8. more.pairAgg \in [Pair -> Counts]
  BY <1>1, <1>2, <1>5, <1>6
<1>9. more \in Ledger
  BY <1>1, <1>4, <1>7, <1>8, Zenon DEF Ledger
<1>10. QED
  BY <1>4, <1>9 DEF more

(***************************************************************************)
(* The counts and the signals.                                             *)
(***************************************************************************)

LEMMA JudgedGrows ==
  ASSUME NEW given \in Seq(Signal), NEW signal \in Signal, NEW outcome \in Outcomes
  PROVE  /\ IsFiniteSet(DOMAIN given) /\ Len(given) + 1 \notin DOMAIN given
         /\ Judged(given, outcome) \subseteq DOMAIN given
         /\ Judged(Append(given, signal), outcome)
              = Judged(given, outcome) \cup {i \in {Len(given) + 1} : signal.outcome = outcome}
         /\ Returned(Append(given, signal))
              = Returned(given) \cup {i \in {Len(given) + 1} : ~signal.raised}
<1> DEFINE n == Len(given) + 1
           more == Append(given, signal)
<1>1. /\ Len(given) \in Nat /\ DOMAIN given = 1 .. Len(given) /\ DOMAIN more = 1 .. n
      /\ \A i \in 1 .. Len(given) : more[i] = given[i]
      /\ more[n] = signal
  <2>1. /\ more \in Seq(Signal) /\ Len(more) = Len(given) + 1 /\ more[Len(given) + 1] = signal
        /\ \A i \in 1 .. Len(given) : more[i] = given[i]
    BY AppendProperties
  <2>2. QED
    BY <2>1, LenProperties
<1>2. DOMAIN more = DOMAIN given \cup {n} /\ n \notin DOMAIN given
  BY <1>1
<1>3. IsFiniteSet(DOMAIN given)
  <2>1. 1 \in Int /\ Len(given) \in Int /\ DOMAIN given = 1 .. Len(given)
    BY <1>1
  <2> HIDE DEF n, more
  <2>2. IsFiniteSet(1 .. Len(given))
    BY ONLY <2>1, FS_Interval
  <2>3. QED
    BY <2>1, <2>2
<1> HIDE DEF n, more
<1>4. Judged(given, outcome) \subseteq DOMAIN given
  BY Zenon DEF Judged
<1>5. Judged(more, outcome) = Judged(given, outcome) \cup {i \in {n} : signal.outcome = outcome}
  BY <1>1, <1>2 DEF Judged
<1>6. Returned(more) = Returned(given) \cup {i \in {n} : ~signal.raised}
  BY <1>1, <1>2 DEF Returned
<1>7. QED
  BY <1>2, <1>3, <1>4, <1>5, <1>6 DEF n, more

(* A count that a record adds k to, of what it would add in full.          *)
LEMMA BetweenGrows ==
  ASSUME NEW given \in Seq(Signal), NEW signal \in Signal, NEW outcome \in Outcomes,
         NEW e, \A i \in DOMAIN given : e[i] \in Nat, e[Len(given) + 1] \in Nat,
         NEW c \in Nat, NEW k \in Nat, k <= e[Len(given) + 1],
         ~signal.raised => k = e[Len(given) + 1],
         Between(c, SumFunctionOnSet(e, Judged(given, outcome) \cap Returned(given)),
                 SumFunctionOnSet(e, Judged(given, outcome)))
  PROVE  Between(IF signal.outcome = outcome THEN c + k ELSE c,
                 SumFunctionOnSet(e, Judged(Append(given, signal), outcome)
                                       \cap Returned(Append(given, signal))),
                 SumFunctionOnSet(e, Judged(Append(given, signal), outcome)))
<1> DEFINE n == Len(given) + 1
           J == Judged(given, outcome)
           W == Returned(given)
           more == Append(given, signal)
           most == e[n]
<1>1. /\ IsFiniteSet(DOMAIN given) /\ n \notin DOMAIN given /\ J \subseteq DOMAIN given
      /\ Judged(more, outcome) = J \cup {i \in {n} : signal.outcome = outcome}
      /\ Returned(more) = W \cup {i \in {n} : ~signal.raised}
  BY JudgedGrows
<1>2. W \subseteq DOMAIN given /\ e[n] = most /\ most \in Nat /\ k <= most
      /\ (~signal.raised => k = most)
  BY DEF Returned
<1>3. Between(c, SumFunctionOnSet(e, J \cap W), SumFunctionOnSet(e, J))
  OBVIOUS
<1> HIDE DEF n, J, W, more, most
<1>4. ASSUME NEW S \in SUBSET DOMAIN given
      PROVE  /\ SumFunctionOnSet(e, S) \in Nat
             /\ SumFunctionOnSet(e, S \cup {n}) = SumFunctionOnSet(e, S) + most
  <2>1. IsFiniteSet(S) /\ n \notin S /\ \A x \in S : e[x] \in Nat /\ e[x] = e[x]
    BY <1>1, FS_Subset
  <2>2. e[n] \in Nat
    BY <1>2
  <2>3. SumFunctionOnSet(e, S) \in Nat
    BY <2>1, SumOfSame
  <2>4. SumFunctionOnSet(e, S \cup {n}) = SumFunctionOnSet(e, S) + e[n]
    BY ONLY <2>1, <2>2, SumOfMore
  <2>5. QED
    BY <1>2, <2>3, <2>4
<1> DEFINE low == SumFunctionOnSet(e, J \cap W)
           high == SumFunctionOnSet(e, J)
<1>5. /\ low \in Nat /\ high \in Nat /\ low <= c /\ c <= high
      /\ SumFunctionOnSet(e, (J \cap W) \cup {n}) = low + most
      /\ SumFunctionOnSet(e, J \cup {n}) = high + most
  <2>1. J \cap W \in SUBSET DOMAIN given /\ J \in SUBSET DOMAIN given
    BY <1>1
  <2>2. low <= c /\ c <= high
    BY <1>3 DEF Between
  <2>3. QED
    BY <1>4, <2>1, <2>2
<1>6. SumFunctionOnSet(e, J \cap W) = low /\ SumFunctionOnSet(e, J) = high
  OBVIOUS
<1> HIDE DEF low, high
<1>7. CASE signal.outcome # outcome
  <2>1. Judged(more, outcome) = J /\ Judged(more, outcome) \cap Returned(more) = J \cap W
    BY <1>1, <1>7
  <2>2. QED
    BY <1>5, <1>6, <1>7, <2>1 DEF Between, more
<1>8. CASE signal.outcome = outcome /\ signal.raised
  <2>1. Judged(more, outcome) = J \cup {n} /\ Judged(more, outcome) \cap Returned(more) = J \cap W
    BY <1>1, <1>2, <1>8
  <2>2. low <= c + k /\ c + k <= high + most
    BY <1>2, <1>5
  <2>3. QED
    BY <1>5, <1>6, <1>8, <2>1, <2>2 DEF Between, more
<1>9. CASE signal.outcome = outcome /\ ~signal.raised
  <2>1. /\ Judged(more, outcome) = J \cup {n}
        /\ Judged(more, outcome) \cap Returned(more) = (J \cap W) \cup {n}
    BY <1>1, <1>9
  <2>2. low + most <= c + k /\ c + k <= high + most
    BY <1>2, <1>5, <1>9
  <2>3. QED
    BY <1>5, <1>9, <2>1, <2>2 DEF Between, more
<1>10. QED
  BY <1>7, <1>8, <1>9

LEMMA CountByOutcome ==
  ASSUME NEW c \in Counts, NEW outcome \in Outcomes, NEW k \in Nat
  PROVE  /\ Count(c, outcome, k).pos = IF outcome = "positive" THEN c.pos + k ELSE c.pos
         /\ Count(c, outcome, k).neg = IF outcome = "negative" THEN c.neg + k ELSE c.neg
         /\ c.pos \in Nat /\ c.neg \in Nat
  BY DEF Count, Counts, Outcomes

(* What a record writes keeps the counts between the two sums.             *)
LEMMA EnteredCounted ==
  ASSUME NEW tables \in Ledger, CountsAreSums(tables), NEW signal \in Signal, NEW k, NEW E,
         CameTo(signal, k, E)
  PROVE  CountsAreSums(Entered(tables, signal, k, E))
<1> DEFINE entered == Entered(tables, signal, k, E)
           given == tables.signals
           more == entered.signals
           n == Len(given) + 1
           list == signal.nodes
           outcome == signal.outcome
<1>1. /\ given \in Seq(Signal) /\ more = Append(given, signal)
      /\ list \in Seq(Nodes) /\ outcome \in Outcomes
      /\ "positive" \in Outcomes /\ "negative" \in Outcomes
  BY DEF Ledger, Signal, Entered, Outcomes
<1>2. /\ DOMAIN more = DOMAIN given \cup {n}
      /\ \A i \in DOMAIN given : more[i] = given[i] /\ given[i].nodes \in Seq(Nodes)
      /\ more[n].nodes = list
  <2> HIDE DEF given, more, list
  <2>1. more \in Seq(Signal) /\ Len(more) = Len(given) + 1 /\ more[Len(given) + 1] = signal
        /\ \A i \in 1 .. Len(given) : more[i] = given[i]
    BY <1>1, AppendProperties
  <2>2. Len(given) \in Nat /\ DOMAIN given = 1 .. Len(given) /\ DOMAIN more = 1 .. Len(given) + 1
    BY <1>1, <2>1, LenProperties
  <2>3. \A i \in 1 .. Len(given) : given[i] \in Signal
    BY <1>1, ElementOfSeq
  <2>4. QED
    BY <2>1, <2>2, <2>3 DEF Signal, list
<1>3. /\ \A x : /\ Occurrences(list, k, x) \in Nat /\ Occurrences(list, Len(list), x) \in Nat
                /\ Occurrences(list, k, x) <= Occurrences(list, Len(list), x)
      /\ \A P : /\ PairOccurrences(list, E, P) \in Nat
                /\ PairOccurrences(list, Combinations(list), P) \in Nat
                /\ PairOccurrences(list, E, P) <= PairOccurrences(list, Combinations(list), P)
      /\ ~signal.raised => k = Len(list) /\ E = Combinations(list)
  BY <1>1, OccurrencesAreNumbers DEF CameTo
<1>4. /\ \A x \in Nodes : entered.nodeAgg[x] = Count(tables.nodeAgg[x], outcome, Occurrences(list, k, x))
      /\ \A P \in Pair : entered.pairAgg[P] = Count(tables.pairAgg[P], outcome, PairOccurrences(list, E, P))
      /\ \A x \in Nodes : tables.nodeAgg[x] \in Counts
      /\ \A P \in Pair : tables.pairAgg[P] \in Counts
  BY DEF Entered, Ledger
<1>5. ASSUME NEW x \in Nodes
      PROVE  /\ Between(entered.nodeAgg[x].pos,
                        NodeSum(more, Judged(more, "positive") \cap Returned(more), x),
                        NodeSum(more, Judged(more, "positive"), x))
             /\ Between(entered.nodeAgg[x].neg,
                        NodeSum(more, Judged(more, "negative") \cap Returned(more), x),
                        NodeSum(more, Judged(more, "negative"), x))
  <2> DEFINE f == [i \in DOMAIN given |-> Occurrences(given[i].nodes, Len(given[i].nodes), x)]
             e == [i \in DOMAIN more |-> Occurrences(more[i].nodes, Len(more[i].nodes), x)]
             c == tables.nodeAgg[x]
             done == Occurrences(list, k, x)
             most == Occurrences(list, Len(list), x)
  <2>1. /\ Between(c.pos, SumFunctionOnSet(f, Judged(given, "positive") \cap Returned(given)),
                   SumFunctionOnSet(f, Judged(given, "positive")))
        /\ Between(c.neg, SumFunctionOnSet(f, Judged(given, "negative") \cap Returned(given)),
                   SumFunctionOnSet(f, Judged(given, "negative")))
    BY DEF CountsAreSums, NodeSum
  <2>2. \A i \in DOMAIN given : f[i] \in Nat /\ e[i] = f[i]
    <3>1. \A i \in DOMAIN given : Occurrences(given[i].nodes, Len(given[i].nodes), x) \in Nat
      <4>1. ASSUME NEW l \in Seq(Nodes) PROVE Occurrences(l, Len(l), x) \in Nat
        <5>1. 0 \in 0 .. Len(l)
          BY LenProperties
        <5>2. QED
          BY <5>1, OccurrencesAreNumbers
      <4>2. QED
        BY <1>2, <4>1
    <3>2. QED
      BY <1>2, <3>1
  <2>3. e[n] = most
    BY <1>2
  <2>4. /\ done \in Nat /\ most \in Nat /\ done <= most /\ (~signal.raised => done = most)
        /\ c \in Counts /\ entered.nodeAgg[x] = Count(c, outcome, done)
    BY <1>3, <1>4
  <2>5. /\ \A S : NodeSum(more, S, x) = SumFunctionOnSet(e, S)
    BY DEF NodeSum
  <2> HIDE DEF entered, given, more, n, list, outcome, f, e, c, done, most
  <2>6. /\ entered.nodeAgg[x].pos = IF outcome = "positive" THEN c.pos + done ELSE c.pos
        /\ entered.nodeAgg[x].neg = IF outcome = "negative" THEN c.neg + done ELSE c.neg
        /\ c.pos \in Nat /\ c.neg \in Nat
    BY ONLY <1>1, <2>4, CountByOutcome
  <2>7. ASSUME NEW S \in SUBSET DOMAIN given
        PROVE  SumFunctionOnSet(f, S) = SumFunctionOnSet(e, S)
    <3>1. IsFiniteSet(S)
      BY <1>1, JudgedGrows, FS_Subset
    <3>2. QED
      BY ONLY <2>2, <2>7, <3>1, SumOfSame
  <2>8. \A o : Judged(given, o) \in SUBSET DOMAIN given
               /\ Judged(given, o) \cap Returned(given) \in SUBSET DOMAIN given
    BY DEF Judged
  <2>9. /\ \A i \in DOMAIN given : e[i] \in Nat
        /\ e[Len(given) + 1] \in Nat /\ done <= e[Len(given) + 1]
        /\ ~signal.raised => done = e[Len(given) + 1]
    BY <2>2, <2>3, <2>4 DEF n
  <2>10. Between(IF signal.outcome = "positive" THEN c.pos + done ELSE c.pos,
                 SumFunctionOnSet(e, Judged(more, "positive") \cap Returned(more)),
                 SumFunctionOnSet(e, Judged(more, "positive")))
    <3>1. Between(c.pos, SumFunctionOnSet(e, Judged(given, "positive") \cap Returned(given)),
                  SumFunctionOnSet(e, Judged(given, "positive")))
      BY <2>1, <2>7, <2>8
    <3>2. QED
      BY ONLY <1>1, <2>4, <2>6, <2>9, <3>1, signal \in Signal, BetweenGrows
  <2>11. Between(IF signal.outcome = "negative" THEN c.neg + done ELSE c.neg,
                 SumFunctionOnSet(e, Judged(more, "negative") \cap Returned(more)),
                 SumFunctionOnSet(e, Judged(more, "negative")))
    <3>1. Between(c.neg, SumFunctionOnSet(e, Judged(given, "negative") \cap Returned(given)),
                  SumFunctionOnSet(e, Judged(given, "negative")))
      BY <2>1, <2>7, <2>8
    <3>2. QED
      BY ONLY <1>1, <2>4, <2>6, <2>9, <3>1, signal \in Signal, BetweenGrows
  <2>12. QED
    BY <2>5, <2>6, <2>10, <2>11 DEF outcome
<1>6. ASSUME NEW x \in Pair
      PROVE  /\ Between(entered.pairAgg[x].pos,
                        PairSum(more, Judged(more, "positive") \cap Returned(more), x),
                        PairSum(more, Judged(more, "positive"), x))
             /\ Between(entered.pairAgg[x].neg,
                        PairSum(more, Judged(more, "negative") \cap Returned(more), x),
                        PairSum(more, Judged(more, "negative"), x))
  <2> DEFINE f == [i \in DOMAIN given |-> PairOccurrences(given[i].nodes, Combinations(given[i].nodes), x)]
             e == [i \in DOMAIN more |-> PairOccurrences(more[i].nodes, Combinations(more[i].nodes), x)]
             c == tables.pairAgg[x]
             done == PairOccurrences(list, E, x)
             most == PairOccurrences(list, Combinations(list), x)
  <2>1. /\ Between(c.pos, SumFunctionOnSet(f, Judged(given, "positive") \cap Returned(given)),
                   SumFunctionOnSet(f, Judged(given, "positive")))
        /\ Between(c.neg, SumFunctionOnSet(f, Judged(given, "negative") \cap Returned(given)),
                   SumFunctionOnSet(f, Judged(given, "negative")))
    BY DEF CountsAreSums, PairSum
  <2>2. \A i \in DOMAIN given : f[i] \in Nat /\ e[i] = f[i]
    <3>1. \A i \in DOMAIN given : PairOccurrences(given[i].nodes, Combinations(given[i].nodes), x) \in Nat
      <4>1. ASSUME NEW l \in Seq(Nodes) PROVE PairOccurrences(l, Combinations(l), x) \in Nat
        <5>1. 0 \in 0 .. Len(l) /\ {} \in SUBSET Combinations(l)
          BY LenProperties
        <5>2. QED
          BY <5>1, OccurrencesAreNumbers
      <4>2. QED
        BY <1>2, <4>1
    <3>2. QED
      BY <1>2, <3>1
  <2>3. e[n] = most
    BY <1>2
  <2>4. /\ done \in Nat /\ most \in Nat /\ done <= most /\ (~signal.raised => done = most)
        /\ c \in Counts /\ entered.pairAgg[x] = Count(c, outcome, done)
    BY <1>3, <1>4
  <2>5. \A S : PairSum(more, S, x) = SumFunctionOnSet(e, S)
    BY DEF PairSum
  <2> HIDE DEF entered, given, more, n, list, outcome, f, e, c, done, most
  <2>6. /\ entered.pairAgg[x].pos = IF outcome = "positive" THEN c.pos + done ELSE c.pos
        /\ entered.pairAgg[x].neg = IF outcome = "negative" THEN c.neg + done ELSE c.neg
        /\ c.pos \in Nat /\ c.neg \in Nat
    BY ONLY <1>1, <2>4, CountByOutcome
  <2>7. ASSUME NEW S \in SUBSET DOMAIN given
        PROVE  SumFunctionOnSet(f, S) = SumFunctionOnSet(e, S)
    <3>1. IsFiniteSet(S)
      BY <1>1, JudgedGrows, FS_Subset
    <3>2. QED
      BY ONLY <2>2, <2>7, <3>1, SumOfSame
  <2>8. \A o : Judged(given, o) \in SUBSET DOMAIN given
               /\ Judged(given, o) \cap Returned(given) \in SUBSET DOMAIN given
    BY DEF Judged
  <2>9. /\ \A i \in DOMAIN given : e[i] \in Nat
        /\ e[Len(given) + 1] \in Nat /\ done <= e[Len(given) + 1]
        /\ ~signal.raised => done = e[Len(given) + 1]
    BY <2>2, <2>3, <2>4 DEF n
  <2>10. Between(IF signal.outcome = "positive" THEN c.pos + done ELSE c.pos,
                 SumFunctionOnSet(e, Judged(more, "positive") \cap Returned(more)),
                 SumFunctionOnSet(e, Judged(more, "positive")))
    <3>1. Between(c.pos, SumFunctionOnSet(e, Judged(given, "positive") \cap Returned(given)),
                  SumFunctionOnSet(e, Judged(given, "positive")))
      BY <2>1, <2>7, <2>8
    <3>2. QED
      BY ONLY <1>1, <2>4, <2>6, <2>9, <3>1, signal \in Signal, BetweenGrows
  <2>11. Between(IF signal.outcome = "negative" THEN c.neg + done ELSE c.neg,
                 SumFunctionOnSet(e, Judged(more, "negative") \cap Returned(more)),
                 SumFunctionOnSet(e, Judged(more, "negative")))
    <3>1. Between(c.neg, SumFunctionOnSet(e, Judged(given, "negative") \cap Returned(given)),
                  SumFunctionOnSet(e, Judged(given, "negative")))
      BY <2>1, <2>7, <2>8
    <3>2. QED
      BY ONLY <1>1, <2>4, <2>6, <2>9, <3>1, signal \in Signal, BetweenGrows
  <2>12. QED
    BY <2>5, <2>6, <2>10, <2>11 DEF outcome
<1>7. QED
  BY <1>5, <1>6 DEF CountsAreSums

(***************************************************************************)
(* The feedback store: its types, and its counts as committed and as the   *)
(* open transaction has them.                                              *)
(***************************************************************************)

FeedbackInv == FeedbackTypeOK /\ CountsAreSums(ledger) /\ CountsAreSums(draft)

(* What a step of the system may do to the store.                          *)
FeedbackStep ==
  \/ UNCHANGED feedback
  \/ \E p \in Procs :
       \/ \E list \in Seq(Nodes), outcome \in Outcomes, source \in {"explicit", "implicit"} :
            AddSignal(p, list, outcome, source) \/ AddSignalFails(p, list, outcome, source)
       \/ CloseFeedback(p)
       \/ PurgeSignals(p)

LEMMA FeedbackStart == FeedbackInit => FeedbackInv
<1> SUFFICES ASSUME FeedbackInit PROVE FeedbackInv
  OBVIOUS
<1>1. /\ ledger.signals = <<>> /\ ledger.nodeAgg = [n \in Nodes |-> Zero]
      /\ ledger.pairAgg = [P \in Pair |-> Zero]
      /\ ledger = [signals |-> <<>>, nodeAgg |-> [n \in Nodes |-> Zero],
                   pairAgg |-> [P \in Pair |-> Zero]]
      /\ draft = ledger /\ writer \in Procs /\ retained = {}
  BY DEF FeedbackInit
<1>2. Zero \in Counts /\ Zero.pos = 0 /\ Zero.neg = 0
  BY DEF Zero, Counts
<1>3. ledger \in Ledger
  BY <1>1, <1>2, EmptySeq DEF Ledger
<1>4. FeedbackTypeOK
  <2>1. Len(ledger.signals) <= Len(draft.signals)
    BY <1>1
  <2>2. QED
    BY <1>1, <1>3, <2>1, FeedbackAssumption DEF FeedbackTypeOK
<1>5. \A o : Judged(ledger.signals, o) = {}
  BY <1>1 DEF Judged
<1>6. \A n, o : /\ NodeSum(ledger.signals, Judged(ledger.signals, o), n) = 0
                /\ NodeSum(ledger.signals, Judged(ledger.signals, o) \cap Returned(ledger.signals), n) = 0
  BY <1>5, SumOfNone DEF NodeSum
<1>7. \A P, o : /\ PairSum(ledger.signals, Judged(ledger.signals, o), P) = 0
                /\ PairSum(ledger.signals, Judged(ledger.signals, o) \cap Returned(ledger.signals), P) = 0
  BY <1>5, SumOfNone DEF PairSum
<1>8. /\ \A n \in Nodes : ledger.nodeAgg[n].pos = 0 /\ ledger.nodeAgg[n].neg = 0
      /\ \A P \in Pair : ledger.pairAgg[P].pos = 0 /\ ledger.pairAgg[P].neg = 0
  BY <1>1, <1>2
<1>9. Between(0, 0, 0)
  BY DEF Between
<1>10. CountsAreSums(ledger)
  BY <1>6, <1>7, <1>8, <1>9, Zenon DEF CountsAreSums
<1>11. QED
  BY <1>1, <1>4, <1>10 DEF FeedbackInv

(* A list and how far its record came.                                     *)
LEMMA SignalOfList ==
  ASSUME NEW list \in Seq(Nodes), NEW outcome \in Outcomes,
         NEW source \in {"explicit", "implicit"}
  PROVE  /\ \A r \in BOOLEAN : SignalOf(list, outcome, source, r) \in Signal
         /\ CameTo(SignalOf(list, outcome, source, FALSE), Len(list), Combinations(list))
         /\ \A k \in 0 .. Len(list), E \in SUBSET Combinations(list) :
              CameTo(SignalOf(list, outcome, source, TRUE), k, E)
<1>1. Len(list) \in 0 .. Len(list)
  BY LenProperties
<1>2. QED
  BY <1>1 DEF SignalOf, Signal, CameTo

LEMMA FeedbackTypeKept == FeedbackTypeOK /\ FeedbackStep => FeedbackTypeOK'
<1> SUFFICES ASSUME FeedbackTypeOK, FeedbackStep PROVE FeedbackTypeOK'
  OBVIOUS
<1>1. CASE UNCHANGED feedback
  BY <1>1 DEF feedback, FeedbackTypeOK
<1>2. ASSUME NEW p \in Procs, NEW list \in Seq(Nodes), NEW outcome \in Outcomes,
             NEW source \in {"explicit", "implicit"}, AddSignal(p, list, outcome, source)
      PROVE  FeedbackTypeOK'
  <2> DEFINE signal == SignalOf(list, outcome, source, FALSE)
             entered == Entered(draft, signal, Len(list), Combinations(list))
  <2>1. signal \in Signal /\ CameTo(signal, Len(list), Combinations(list)) /\ draft \in Ledger
    BY SignalOfList DEF FeedbackTypeOK
  <2> HIDE DEF signal
  <2>2. entered \in Ledger /\ DOMAIN entered.signals = DOMAIN draft.signals \cup {Len(draft.signals) + 1}
    BY <2>1, EnteredTypeOK
  <2>3. /\ draft' = entered /\ ledger' = entered /\ writer' = NoProc
        /\ retained' = retained \cup (Len(ledger.signals) + 1 .. Len(draft.signals) + 1)
    BY <1>2 DEF AddSignal, signal
  <2> HIDE DEF entered
  <2>4. retained \subseteq DOMAIN ledger.signals /\ ledger.signals \in Seq(Signal) /\ draft.signals \in Seq(Signal)
    BY DEF FeedbackTypeOK, Ledger
  <2>5. retained' \subseteq DOMAIN entered.signals
    <3>1. /\ DOMAIN ledger.signals = 1 .. Len(ledger.signals) /\ Len(ledger.signals) \in Nat
          /\ DOMAIN draft.signals = 1 .. Len(draft.signals) /\ Len(draft.signals) \in Nat
      BY <2>4, LenProperties
    <3>2. Len(ledger.signals) <= Len(draft.signals)
      BY DEF FeedbackTypeOK
    <3>3. QED
      BY <2>2, <2>3, <2>4, <3>1, <3>2
  <2>6. QED
    BY <2>2, <2>3, <2>5 DEF FeedbackTypeOK
<1>3. ASSUME NEW p \in Procs, NEW list \in Seq(Nodes), NEW outcome \in Outcomes,
             NEW source \in {"explicit", "implicit"}, AddSignalFails(p, list, outcome, source)
      PROVE  FeedbackTypeOK'
  <2> DEFINE signal == SignalOf(list, outcome, source, TRUE)
  <2>1. CASE \E k \in 0 .. Len(list), E \in SUBSET Combinations(list) :
               /\ draft' = Entered(draft, signal, k, E) /\ writer' = p
               /\ UNCHANGED <<ledger, retained>>
    <3>1. PICK k \in 0 .. Len(list), E \in SUBSET Combinations(list) :
            draft' = Entered(draft, signal, k, E) /\ writer' = p /\ UNCHANGED <<ledger, retained>>
      BY <2>1
    <3>2. signal \in Signal /\ CameTo(signal, k, E) /\ draft \in Ledger
      BY SignalOfList DEF FeedbackTypeOK
    <3> HIDE DEF signal
    <3>3. /\ draft' \in Ledger
          /\ DOMAIN draft'.signals = DOMAIN draft.signals \cup {Len(draft.signals) + 1}
      BY <3>1, <3>2, EnteredTypeOK
    <3>4. Len(draft.signals) <= Len(draft'.signals)
      <4>1. draft.signals \in Seq(Signal) /\ draft'.signals \in Seq(Signal)
        BY <3>2, <3>3 DEF Ledger
      <4>2. /\ DOMAIN draft.signals = 1 .. Len(draft.signals) /\ Len(draft.signals) \in Nat
            /\ DOMAIN draft'.signals = 1 .. Len(draft'.signals) /\ Len(draft'.signals) \in Nat
        BY <4>1, LenProperties
      <4>3. Len(draft.signals) + 1 \in 1 .. Len(draft'.signals)
        BY <3>3, <4>2
      <4>4. QED
        BY <4>2, <4>3
    <3>5. Len(ledger.signals) \in Nat /\ Len(draft.signals) \in Nat /\ Len(draft'.signals) \in Nat
      BY <3>2, <3>3, LenProperties DEF FeedbackTypeOK, Ledger
    <3>6. writer' # NoProc
      BY <3>1, FeedbackAssumption
    <3>7. Len(ledger.signals) <= Len(draft'.signals)
      BY <3>4, <3>5 DEF FeedbackTypeOK
    <3>8. QED
      BY <3>1, <3>3, <3>6, <3>7 DEF FeedbackTypeOK
  <2>2. QED
    BY <1>1, <1>3, <2>1 DEF AddSignalFails
<1>4. ASSUME NEW p \in Procs, CloseFeedback(p) PROVE FeedbackTypeOK'
  <2>1. UNCHANGED <<ledger, retained>> /\ ((draft' = ledger /\ writer' = NoProc) \/ UNCHANGED <<draft, writer>>)
    BY <1>4 DEF CloseFeedback
  <2>2. Len(ledger.signals) <= Len(ledger.signals)
    <3>1. Len(ledger.signals) \in Nat
      BY LenProperties DEF FeedbackTypeOK, Ledger
    <3>2. QED
      BY <3>1
  <2>3. QED
    BY <2>1, <2>2 DEF FeedbackTypeOK
<1>5. ASSUME NEW p \in Procs, PurgeSignals(p) PROVE FeedbackTypeOK'
  <2>1. /\ UNCHANGED <<ledger, draft>> /\ retained' \subseteq retained
        /\ \/ writer' = writer
           \/ writer = NoProc /\ writer' \in {p, NoProc}
    BY <1>5 DEF PurgeSignals
  <2>2. QED
    BY <2>1 DEF FeedbackTypeOK
<1>6. QED
  BY <1>1, <1>2, <1>3, <1>4, <1>5 DEF FeedbackStep

LEMMA FeedbackKept == FeedbackInv /\ FeedbackStep => FeedbackInv'
<1> SUFFICES ASSUME FeedbackInv, FeedbackStep PROVE FeedbackInv'
  OBVIOUS
<1>1. FeedbackTypeOK'
  BY FeedbackTypeKept DEF FeedbackInv
<1>2. /\ \/ ledger' = ledger
         \/ ledger' = draft'
      /\ \/ draft' = draft
         \/ draft' = ledger
         \/ \E signal \in Signal : \E k, E : CameTo(signal, k, E) /\ draft' = Entered(draft, signal, k, E)
  <2>1. CASE UNCHANGED feedback
    BY <2>1 DEF feedback
  <2>2. ASSUME NEW p \in Procs, NEW list \in Seq(Nodes), NEW outcome \in Outcomes,
               NEW source \in {"explicit", "implicit"}, AddSignal(p, list, outcome, source)
        PROVE  <1>2!1 /\ <1>2!2
    BY <2>2, SignalOfList DEF AddSignal
  <2>3. ASSUME NEW p \in Procs, NEW list \in Seq(Nodes), NEW outcome \in Outcomes,
               NEW source \in {"explicit", "implicit"}, AddSignalFails(p, list, outcome, source)
        PROVE  <1>2!1 /\ <1>2!2
    BY <2>3, SignalOfList DEF AddSignalFails, feedback
  <2>4. ASSUME NEW p \in Procs, CloseFeedback(p) \/ PurgeSignals(p)
        PROVE  <1>2!1 /\ <1>2!2
    BY <2>4 DEF CloseFeedback, PurgeSignals
  <2>5. QED
    BY <2>1, <2>2, <2>3, <2>4 DEF FeedbackStep
<1>3. ASSUME NEW tables, NEW more, more = tables, CountsAreSums(tables) PROVE CountsAreSums(more)
  BY <1>3
<1>4. CountsAreSums(draft')
  <2>1. draft \in Ledger
    BY DEF FeedbackInv, FeedbackTypeOK
  <2>2. QED
    BY <1>2, <2>1, EnteredCounted DEF FeedbackInv
<1>5. CountsAreSums(ledger')
  BY <1>2, <1>4 DEF FeedbackInv
<1>6. QED
  BY <1>1, <1>4, <1>5 DEF FeedbackInv, CountsAreSums, NodeSum, PairSum, Judged, Returned, Between

(***************************************************************************)
(* What the operations on a session do to its turns and entries.           *)
(***************************************************************************)

LEMMA SessionParts ==
  ASSUME NEW session \in Session
  PROVE  /\ session.history \in Seq(QueryRecord) /\ Len(session.history) \in Nat
         /\ DOMAIN session.history = 1 .. Len(session.history)
         /\ \A i \in 1 .. Len(session.history) :
              /\ session.history[i] \in QueryRecord
              /\ session.history[i].turn \in Nat /\ session.history[i].nodes \in SUBSET Nodes
         /\ session.at \in [Nodes -> Nat] /\ session.about \in [Nodes -> Topic]
         /\ CurrentTurn(session) \in Nat
<1>1. /\ session.history \in Seq(QueryRecord)
      /\ session.at \in [Nodes -> Nat] /\ session.about \in [Nodes -> Topic]
  BY DEF Session
<1>2. /\ Len(session.history) \in Nat /\ DOMAIN session.history = 1 .. Len(session.history)
      /\ \A i \in 1 .. Len(session.history) : session.history[i] \in QueryRecord
  BY <1>1, LenProperties, ElementOfSeq
<1>3. \A i \in 1 .. Len(session.history) :
        session.history[i].turn \in Nat /\ session.history[i].nodes \in SUBSET Nodes
  BY <1>2 DEF QueryRecord
<1>4. CurrentTurn(session) \in Nat
  <2>1. CASE session.history = <<>>
    BY <2>1 DEF CurrentTurn
  <2>2. CASE session.history # <<>>
    <3>1. Len(session.history) \in 1 .. Len(session.history)
      BY <1>1, <1>2, <2>2, EmptySeq
    <3>2. QED
      BY <2>2, <3>1, <1>3 DEF CurrentTurn, Last
  <2>3. QED
    BY <2>1, <2>2
<1>5. QED
  BY <1>1, <1>2, <1>3, <1>4

LEMMA NewSessionOK == NewSession \in Session /\ SessionOK(NewSession) /\ Entries(NewSession) = {}
                      /\ CurrentTurn(NewSession) = 0
<1>1. NewSession.history = <<>> /\ NewSession.at = [n \in Nodes |-> 0]
  BY DEF NewSession
<1>2. Entries(NewSession) = {}
  BY <1>1 DEF Entries
<1>3. CurrentTurn(NewSession) = 0
  BY <1>1 DEF CurrentTurn
<1>4. NewSession \in Session
  BY DEF NewSession, Session, Topic
<1>5. Len(NewSession.history) = 0 /\ DOMAIN NewSession.history = {}
  BY <1>1
<1>6. SessionOK(NewSession)
  BY <1>1, <1>2, <1>3, <1>5, FS_EmptySet, SessionsAssumption
  DEF SessionOK, WindowFollowsHistory, TurnsInOrder
<1>7. QED
  BY <1>2, <1>3, <1>4, <1>6

(* record_query appends a record with the next turn and stamps its nodes.  *)
Recorded(session, ns, recorded) ==
  /\ recorded \in Session /\ recorded.history # <<>>
  /\ Len(recorded.history) = Len(session.history) + 1
  /\ CurrentTurn(recorded) = CurrentTurn(session) + 1
  /\ \A i \in 1 .. Len(session.history) : recorded.history[i] = session.history[i]
  /\ recorded.history[Len(session.history) + 1].turn = CurrentTurn(session) + 1
  /\ recorded.history[Len(session.history) + 1].nodes = ns
  /\ recorded.at = [n \in Nodes |-> IF n \in ns THEN CurrentTurn(session) + 1
                                     ELSE session.at[n]]

LEMMA RecordQueryResult ==
  ASSUME NEW session \in Session, NEW ns \in SUBSET Nodes, NEW t \in Topic,
         NEW recorded, recorded = RecordQuery(session, ns, t)
  PROVE  Recorded(session, ns, recorded)
<1> DEFINE turn == CurrentTurn(session) + 1
           record == [turn |-> turn, nodes |-> ns, topic |-> t]
<1>1. /\ recorded.history = Append(session.history, record)
      /\ recorded.at = [n \in Nodes |-> IF n \in ns THEN turn ELSE session.at[n]]
      /\ recorded.about = [n \in Nodes |-> IF n \in ns THEN t ELSE session.about[n]]
      /\ recorded = [history |-> recorded.history, at |-> recorded.at, about |-> recorded.about]
  BY DEF RecordQuery
<1>2. turn \in Nat /\ record \in QueryRecord /\ record.turn = turn /\ record.nodes = ns
  BY SessionParts DEF QueryRecord
<1> HIDE DEF turn, record
<1>3. /\ recorded.history \in Seq(QueryRecord) /\ recorded.history # <<>>
      /\ Len(recorded.history) = Len(session.history) + 1
      /\ \A i \in 1 .. Len(session.history) : recorded.history[i] = session.history[i]
      /\ recorded.history[Len(session.history) + 1] = record
  BY <1>1, <1>2, SessionParts, AppendProperties
<1>4. recorded.at \in [Nodes -> Nat] /\ recorded.about \in [Nodes -> Topic]
  BY <1>1, <1>2, SessionParts
<1>5. recorded \in Session
  BY <1>1, <1>3, <1>4 DEF Session
<1>6. CurrentTurn(recorded) = turn
  BY <1>2, <1>3 DEF CurrentTurn, Last
<1>7. QED
  BY <1>1, <1>2, <1>3, <1>5, <1>6 DEF turn, Recorded

LEMMA EntriesFinite ==
  ASSUME NEW session
  PROVE  IsFiniteSet(Entries(session)) /\ Cardinality(Entries(session)) \in Nat
  BY FeedbackAssumption, FS_Subset, FS_CardinalityType DEF Entries

(* The window follows the history with the new record, too.                *)
LEMMA RecordQueryWindow ==
  ASSUME NEW session \in Session, NEW ns \in SUBSET Nodes, NEW t \in Topic,
         WindowFollowsHistory(session), TurnsInOrder(session),
         NEW recorded, Recorded(session, ns, recorded)
  PROVE  WindowFollowsHistory(recorded) /\ TurnsInOrder(recorded)
<1> DEFINE h == session.history
           g == recorded.history
           turn == CurrentTurn(session) + 1
<1>1. /\ CurrentTurn(session) \in Nat /\ Len(h) \in Nat /\ DOMAIN h = 1 .. Len(h)
      /\ turn \in Nat /\ turn > 0
      /\ session.at \in [Nodes -> Nat] /\ MaxContext \in Nat
      /\ \A i \in 1 .. Len(h) : h[i].turn \in Nat
  <2>1. CurrentTurn(session) \in Nat
    BY SessionParts
  <2>2. QED
    BY <2>1, SessionParts, SessionsAssumption
<1>2. /\ Len(g) = Len(h) + 1 /\ CurrentTurn(recorded) = turn
      /\ \A i \in 1 .. Len(h) : g[i] = h[i]
      /\ g[Len(h) + 1].turn = turn /\ g[Len(h) + 1].nodes = ns
      /\ recorded.at = [n \in Nodes |-> IF n \in ns THEN turn ELSE session.at[n]]
      /\ recorded \in Session
  BY DEF Recorded
<1>3. DOMAIN g = 1 .. Len(h) + 1
  BY <1>2, SessionParts
<1>4. ASSUME NEW i \in 1 .. Len(h)
      PROVE  h[i].turn = turn - 1 - Len(h) + i /\ h[i].turn > 0 /\ h[i].turn < turn
  <2>1. h[i].turn = CurrentTurn(session) - Len(h) + i /\ h[i].turn > 0
    BY <1>1 DEF TurnsInOrder
  <2> HIDE DEF h
  <2>2. QED
    BY <1>1, <2>1
<1>5. ASSUME NEW i \in 1 .. Len(h) + 1 PROVE g[i].turn = turn - Len(g) + i /\ g[i].turn > 0
  <2> HIDE DEF h, g, turn
  <2>1. CASE i = Len(h) + 1
    BY <1>1, <1>2, <2>1
  <2>2. CASE i # Len(h) + 1
    <3>1. i \in 1 .. Len(h)
      BY <1>1, <2>2
    <3>2. QED
      BY <1>1, <1>2, <1>4, <3>1
  <2>3. QED
    BY <2>1, <2>2
<1>6. TurnsInOrder(recorded)
  BY <1>2, <1>3, <1>5 DEF TurnsInOrder
<1>7. \A n \in Nodes : session.at[n] < turn
  <2>1. \A n \in Nodes : session.at[n] <= CurrentTurn(session)
    BY DEF WindowFollowsHistory
  <2>2. \A n \in Nodes : session.at[n] \in Nat
    BY <1>1
  <2>3. QED
    BY <1>1, <2>1, <2>2
<1>8. /\ Entries(recorded) = Entries(session) \cup ns
      /\ Cardinality(Entries(session)) <= Cardinality(Entries(recorded))
  <2>1. Entries(recorded) = Entries(session) \cup ns
    BY <1>1, <1>2 DEF Entries
  <2>2. QED
    BY <2>1, EntriesFinite, FS_Subset
<1>9. ASSUME NEW i \in 1 .. Len(h) + 1, NEW n \in Nodes
      PROVE  /\ recorded.at[n] = g[i].turn => n \in g[i].nodes
             /\ n \in g[i].nodes =>
                  \/ recorded.at[n] >= g[i].turn
                  \/ /\ recorded.at[n] = 0
                     /\ Cardinality(Entries(recorded)) >= MaxContext
                     /\ \A m \in Entries(recorded) : recorded.at[m] >= g[i].turn
  <2>1. CASE i = Len(h) + 1
    BY <1>1, <1>2, <1>7, <2>1
  <2>2. CASE i # Len(h) + 1
    <3>1. i \in 1 .. Len(h) /\ g[i] = h[i] /\ h[i].turn < turn /\ h[i].turn \in Nat
      <4> HIDE DEF h, g, turn
      <4>1. i \in 1 .. Len(h)
        BY <1>1, <2>2
      <4>2. QED
        BY <1>1, <1>2, <1>4, <4>1
    <3>2. /\ session.at[n] = h[i].turn => n \in h[i].nodes
          /\ n \in h[i].nodes =>
               \/ session.at[n] >= h[i].turn
               \/ /\ session.at[n] = 0
                  /\ Cardinality(Entries(session)) >= MaxContext
                  /\ \A m \in Entries(session) : session.at[m] >= h[i].turn
      BY <1>1, <3>1 DEF WindowFollowsHistory
    <3>3. CASE n \in ns
      BY <1>1, <1>2, <3>1, <3>3
    <3>4. CASE n \notin ns
      <4>1. recorded.at[n] = session.at[n]
        BY <1>2, <3>4
      <4>2. Entries(session) \subseteq Nodes /\ ns \subseteq Nodes
        BY DEF Entries
      <4>3. (\A m \in Entries(session) : session.at[m] >= h[i].turn)
              => \A m \in Entries(recorded) : recorded.at[m] >= h[i].turn
        BY <1>1, <1>2, <1>8, <3>1, <4>2
      <4>4. Cardinality(Entries(session)) >= MaxContext => Cardinality(Entries(recorded)) >= MaxContext
        <5>1. Cardinality(Entries(session)) \in Nat /\ Cardinality(Entries(recorded)) \in Nat
          BY EntriesFinite
        <5>2. QED
          BY <1>1, <1>8, <5>1
      <4>5. QED
        BY <3>1, <3>2, <4>1, <4>3, <4>4
    <3>5. QED
      BY <3>3, <3>4
  <2>3. QED
    BY <2>1, <2>2
<1>10. ASSUME NEW i \in 1 .. Len(g) - 1 PROVE g[i + 1].turn = g[i].turn + 1
  <2> HIDE DEF h, g, turn
  <2>1. i \in 1 .. Len(h) + 1 /\ i + 1 \in 1 .. Len(h) + 1
    BY <1>1, <1>2
  <2>2. g[i].turn = turn - Len(g) + i /\ g[i + 1].turn = turn - Len(g) + (i + 1)
    BY <1>5, <2>1
  <2>3. QED
    BY <1>1, <1>2, <2>2
<1>11. \A n \in Nodes : recorded.at[n] <= CurrentTurn(recorded)
  BY <1>1, <1>2, <1>7
<1>12. WindowFollowsHistory(recorded)
  BY <1>3, <1>9, <1>10, <1>11 DEF WindowFollowsHistory
<1>13. QED
  BY <1>6, <1>12

LEMMA MinOfTwo ==
  ASSUME NEW a \in Nat, NEW b \in Nat
  PROVE  Min({a, b}) \in {a, b} /\ Min({a, b}) <= a /\ Min({a, b}) <= b
<1>1. \E x \in {a, b} : \A y \in {a, b} : x <= y
  <2>1. CASE a <= b
    BY <2>1
  <2>2. CASE ~(a <= b)
    BY <2>2
  <2>3. QED
    BY <2>1, <2>2
<1>2. Min({a, b}) \in {a, b} /\ \A y \in {a, b} : Min({a, b}) <= y
  BY <1>1, Zenon DEF Min
<1>3. QED
  BY <1>2

(* prune keeps the tail of the history and the entries it is given.        *)
Pruned(session, keep, pruned) ==
  /\ pruned \in Session
  /\ Len(pruned.history) \in 1 .. Len(session.history)
  /\ Len(pruned.history) <= MaxHistory
  /\ \A i \in 1 .. Len(pruned.history) :
       pruned.history[i] = session.history[Len(session.history) - Len(pruned.history) + i]
  /\ pruned.at = [n \in Nodes |-> IF n \in keep THEN session.at[n] ELSE 0]
  /\ CurrentTurn(pruned) = CurrentTurn(session)

LEMMA PruneResult ==
  ASSUME NEW session \in Session, session.history # <<>>, NEW keep,
         NEW pruned, pruned = Prune(session, keep)
  PROVE  Pruned(session, keep, pruned)
<1> DEFINE h == session.history
           k == Min({Len(h), MaxHistory})
<1>1. h \in Seq(QueryRecord) /\ Len(h) \in Nat \ {0} /\ MaxHistory \in Nat \ {0}
  BY SessionParts, SessionsAssumption, EmptySeq
<1>2. k \in Nat /\ k \in 1 .. Len(h) /\ k <= MaxHistory
  BY <1>1, MinOfTwo
<1>3. /\ pruned.history = SubSeq(h, Len(h) - k + 1, Len(h))
      /\ pruned.at = [n \in Nodes |-> IF n \in keep THEN session.at[n] ELSE 0]
      /\ pruned.about = [n \in Nodes |-> IF n \in keep THEN session.about[n] ELSE NoTopic]
      /\ pruned = [history |-> pruned.history, at |-> pruned.at, about |-> pruned.about]
  BY DEF Prune
<1>4. /\ pruned.history \in Seq(QueryRecord) /\ Len(pruned.history) = k
      /\ \A i \in 1 .. k : pruned.history[i] = h[Len(h) - k + i]
  <2> HIDE DEF k, h
  <2>1. Len(h) - k + 1 \in 1 .. Len(h) + 1 /\ Len(h) \in Len(h) - k + 1 - 1 .. Len(h)
    BY <1>1, <1>2
  <2>2. /\ Len(h) - (Len(h) - k + 1) + 1 = k
        /\ \A i \in 1 .. k : Len(h) - k + 1 + i - 1 = Len(h) - k + i
    BY <1>1, <1>2
  <2>3. QED
    BY <1>1, <1>2, <1>3, <2>1, <2>2, SubSeqProperties
<1>5. pruned.at \in [Nodes -> Nat] /\ pruned.about \in [Nodes -> Topic]
  BY <1>3, SessionParts DEF Topic
<1>6. pruned \in Session
  BY <1>3, <1>4, <1>5 DEF Session
<1>7. CurrentTurn(pruned) = CurrentTurn(session)
  <2>1. pruned.history # <<>> /\ pruned.history[k] = h[Len(h)]
    <3> HIDE DEF k, h
    <3>1. Len(h) - k + k = Len(h) /\ k \in 1 .. k /\ k # 0
      BY <1>1, <1>2
    <3>2. QED
      BY <1>4, <3>1
  <2> HIDE DEF k
  <2>2. QED
    BY <1>4, <2>1 DEF CurrentTurn, Last
<1> HIDE DEF k
<1>8. QED
  BY <1>2, <1>3, <1>4, <1>6, <1>7 DEF Pruned

(* Pruning the oldest entries leaves what the window says of the history.  *)
LEMMA PruneOK ==
  ASSUME NEW session \in Session, WindowFollowsHistory(session), TurnsInOrder(session),
         NEW keep \in NewestEntries(session), NEW pruned, Pruned(session, keep, pruned)
  PROVE  SessionOK(pruned) /\ Entries(pruned) \subseteq Entries(session)
<1> DEFINE h == session.history
           g == pruned.history
           off == Len(h) - Len(g)
<1>1. /\ CurrentTurn(session) \in Nat /\ Len(h) \in Nat /\ DOMAIN h = 1 .. Len(h)
      /\ session.at \in [Nodes -> Nat] /\ MaxContext \in Nat
      /\ \A i \in 1 .. Len(h) : h[i].turn \in Nat
      /\ DOMAIN g = 1 .. Len(g) /\ Len(g) \in Nat
  <2>1. CurrentTurn(session) \in Nat /\ pruned \in Session
    BY SessionParts DEF Pruned
  <2>2. QED
    BY <2>1, SessionParts, SessionsAssumption
<1>2. /\ Len(g) \in 1 .. Len(h) /\ Len(g) <= MaxHistory
      /\ \A i \in 1 .. Len(g) : g[i] = h[off + i]
      /\ pruned.at = [n \in Nodes |-> IF n \in keep THEN session.at[n] ELSE 0]
      /\ CurrentTurn(pruned) = CurrentTurn(session)
  BY DEF Pruned
<1>3. \A i \in 1 .. Len(g) : off + i \in 1 .. Len(h)
  <2> HIDE DEF h, g
  <2>1. QED
    BY <1>1, <1>2
<1>4. ASSUME NEW i \in 1 .. Len(g)
      PROVE  g[i].turn = CurrentTurn(session) - Len(g) + i /\ g[i].turn > 0
  <2>1. /\ h[off + i].turn = CurrentTurn(session) - Len(h) + (off + i) /\ h[off + i].turn > 0
        /\ g[i] = h[off + i]
    BY <1>1, <1>2, <1>3 DEF TurnsInOrder
  <2>2. CurrentTurn(session) - Len(h) + (off + i) = CurrentTurn(session) - Len(g) + i
    <3> HIDE DEF h, g
    <3>1. QED
      BY <1>1
  <2>3. QED
    BY <2>1, <2>2
<1>5. TurnsInOrder(pruned)
  BY <1>1, <1>2, <1>4 DEF TurnsInOrder
<1>6. /\ keep \subseteq Entries(session)
      /\ IF Cardinality(Entries(session)) > MaxContext
         THEN Cardinality(keep) = MaxContext ELSE keep = Entries(session)
      /\ \A m \in keep, n \in Entries(session) \ keep : session.at[n] <= session.at[m]
  BY DEF NewestEntries
<1>7. Entries(pruned) = keep
  BY <1>1, <1>2, <1>6 DEF Entries
<1>8. Cardinality(Entries(session)) \in Nat
  BY EntriesFinite
<1>9. Cardinality(Entries(pruned)) <= MaxContext
  BY <1>1, <1>6, <1>7, <1>8
<1>10. ASSUME NEW i \in 1 .. Len(g), NEW n \in Nodes
       PROVE  /\ pruned.at[n] = g[i].turn => n \in g[i].nodes
              /\ n \in g[i].nodes =>
                   \/ pruned.at[n] >= g[i].turn
                   \/ /\ pruned.at[n] = 0
                      /\ Cardinality(Entries(pruned)) >= MaxContext
                      /\ \A m \in Entries(pruned) : pruned.at[m] >= g[i].turn
  <2>1. off + i \in 1 .. Len(h) /\ g[i] = h[off + i] /\ g[i].turn \in Nat /\ g[i].turn > 0
    BY <1>1, <1>2, <1>3, <1>4
  <2> HIDE DEF off
  <2>2. /\ session.at[n] = g[i].turn => n \in g[i].nodes
        /\ n \in g[i].nodes =>
             \/ session.at[n] >= g[i].turn
             \/ /\ session.at[n] = 0
                /\ Cardinality(Entries(session)) >= MaxContext
                /\ \A m \in Entries(session) : session.at[m] >= g[i].turn
    BY <1>1, <2>1 DEF WindowFollowsHistory
  <2> HIDE DEF h, g
  <2>3. \A m \in keep : m \in Nodes /\ m \in Entries(session) /\ session.at[m] \in Nat /\ session.at[m] # 0
                         /\ pruned.at[m] = session.at[m]
    BY <1>1, <1>2, <1>6 DEF Entries
  <2>4. CASE n \in keep
    BY <2>1, <2>2, <2>3, <2>4
  <2>5. CASE n \notin keep
    <3>1. pruned.at[n] = 0
      BY <1>2, <2>5
    <3>2. CASE n \in Entries(session)
      <4>1. Cardinality(keep) = MaxContext
        BY <1>6, <2>5, <3>2
      <4>2. n \in g[i].nodes => session.at[n] >= g[i].turn /\ session.at[n] \in Nat
        <5>1. session.at[n] # 0 /\ session.at[n] \in Nat
          BY <1>1, <3>2 DEF Entries
        <5>2. QED
          BY <2>2, <5>1
      <4>3. \A m \in keep : session.at[n] <= session.at[m]
        BY <1>6, <2>5, <3>2
      <4>4. n \in g[i].nodes => \A m \in keep : pruned.at[m] >= g[i].turn
        BY <2>1, <2>3, <4>2, <4>3
      <4>5. QED
        BY <1>1, <1>7, <2>1, <3>1, <4>1, <4>4
    <3>3. CASE n \notin Entries(session)
      <4>1. session.at[n] = 0
        BY <3>3 DEF Entries
      <4>2. n \in g[i].nodes => /\ Cardinality(Entries(session)) >= MaxContext
                                /\ \A m \in Entries(session) : session.at[m] >= g[i].turn
        BY <2>1, <2>2, <4>1
      <4>3. n \in g[i].nodes => Cardinality(keep) >= MaxContext
        BY <1>1, <1>6, <1>8, <4>2
      <4>4. n \in g[i].nodes => \A m \in keep : pruned.at[m] >= g[i].turn
        BY <2>3, <4>2
      <4>5. QED
        BY <1>7, <2>1, <3>1, <4>3, <4>4
    <3>4. QED
      BY <3>2, <3>3
  <2>6. QED
    BY <2>4, <2>5
<1>11. ASSUME NEW i \in 1 .. Len(g) - 1 PROVE g[i + 1].turn = g[i].turn + 1
  <2> HIDE DEF g
  <2>1. i \in 1 .. Len(g) /\ i + 1 \in 1 .. Len(g)
    BY <1>1
  <2>2. g[i].turn = CurrentTurn(session) - Len(g) + i
        /\ g[i + 1].turn = CurrentTurn(session) - Len(g) + (i + 1)
    BY <1>4, <2>1
  <2>3. QED
    BY <1>1, <2>2
<1>12. \A n \in Nodes : pruned.at[n] <= CurrentTurn(pruned)
  <2>1. \A n \in Nodes : session.at[n] <= CurrentTurn(session)
    BY DEF WindowFollowsHistory
  <2>2. QED
    BY <1>1, <1>2, <2>1
<1>13. WindowFollowsHistory(pruned)
  BY <1>1, <1>10, <1>11, <1>12 DEF WindowFollowsHistory
<1>14. QED
  BY <1>2, <1>5, <1>6, <1>7, <1>9, <1>13 DEF SessionOK

(* What a row brings back is the session that was saved, but for topics.   *)
LEMMA PersistedSame ==
  ASSUME NEW session \in Session, NEW row, row = Persisted(session)
  PROVE  /\ row \in Session /\ Entries(row) = Entries(session)
         /\ CurrentTurn(row) = CurrentTurn(session)
         /\ SessionOK(session) => SessionOK(row)
<1> DEFINE h == session.history
           g == row.history
<1>1. /\ h \in Seq(QueryRecord) /\ Len(h) \in Nat /\ DOMAIN h = 1 .. Len(h)
      /\ \A i \in 1 .. Len(h) : h[i] \in QueryRecord
      /\ session.at \in [Nodes -> Nat] /\ session.about \in [Nodes -> Topic]
      /\ session = [history |-> h, at |-> session.at, about |-> session.about]
  BY SessionParts DEF Session
<1>2. /\ g = [i \in DOMAIN h |-> [h[i] EXCEPT !.topic = NoTopic]]
      /\ row.at = session.at /\ row.about = session.about
      /\ row = [history |-> g, at |-> row.at, about |-> row.about]
  BY <1>1 DEF Persisted
<1>3. \A i \in 1 .. Len(h) :
        [h[i] EXCEPT !.topic = NoTopic] = [turn |-> h[i].turn, nodes |-> h[i].nodes, topic |-> NoTopic]
  BY <1>1 DEF QueryRecord
<1>4. ASSUME NEW i \in 1 .. Len(h)
      PROVE  g[i] \in QueryRecord /\ g[i].turn = h[i].turn /\ g[i].nodes = h[i].nodes
  <2>1. g[i] = [turn |-> h[i].turn, nodes |-> h[i].nodes, topic |-> NoTopic]
    BY <1>1, <1>2, <1>3
  <2>2. h[i].turn \in Nat /\ h[i].nodes \in SUBSET Nodes
    BY SessionParts
  <2> HIDE DEF g, h
  <2>3. QED
    BY <2>1, <2>2 DEF QueryRecord, Topic
<1>5. g \in [1 .. Len(h) -> QueryRecord]
  BY <1>1, <1>2, <1>4
<1>6. g \in Seq(QueryRecord) /\ Len(g) = Len(h) /\ DOMAIN g = DOMAIN h
  BY <1>1, <1>5
<1>7. row \in Session
  BY <1>1, <1>2, <1>6 DEF Session
<1>8. Entries(row) = Entries(session)
  BY <1>2 DEF Entries
<1>9. CurrentTurn(row) = CurrentTurn(session)
  <2>1. h = <<>> <=> g = <<>>
    BY <1>1, <1>6, EmptySeq
  <2>2. h # <<>> => Len(h) \in 1 .. Len(h)
    BY <1>1, EmptySeq
  <2>3. QED
    BY <1>4, <1>6, <2>1, <2>2 DEF CurrentTurn, Last
<1>10. TurnsInOrder(session) => TurnsInOrder(row)
  BY <1>1, <1>4, <1>6, <1>9 DEF TurnsInOrder
<1>11. WindowFollowsHistory(session) => WindowFollowsHistory(row)
  <2>1. \A i \in 1 .. Len(h) - 1 : i \in 1 .. Len(h) /\ i + 1 \in 1 .. Len(h)
    BY <1>1
  <2>2. QED
    BY <1>1, <1>2, <1>4, <1>6, <1>8, <1>9, <2>1 DEF WindowFollowsHistory
<1>12. QED
  BY <1>6, <1>7, <1>8, <1>9, <1>10, <1>11 DEF SessionOK

(***************************************************************************)
(* Every action keeps the invariant.                                       *)
(***************************************************************************)

LEMMA InitInv == Init => SessionsInv
<1> SUFFICES ASSUME Init PROVE SessionsInv
  OBVIOUS
<1>1. FeedbackTypeOK
  BY FeedbackStart DEF Init, FeedbackInv
<1>2. TypeOK
  BY <1>1, NewSessionOK, SessionsAssumption DEF Init, TypeOK, Topic
<1>3. SessionsOK /\ EntriesWereSent
  BY NewSessionOK DEF Init, SessionsOK, EntriesWereSent
<1>4. \A s \in SessionIds : Busy(s) = {}
  BY DEF Init, Busy
<1>5. TurnsCounted
  BY <1>4 DEF Init, TurnsCounted
<1>6. QED
  BY <1>2, <1>3, <1>5 DEF SessionsInv

(* What every action needs of the types.                                   *)
LEMMA Types ==
  ASSUME SessionsInv
  PROVE  /\ copy \in [Procs -> Session] /\ sid \in [Procs -> SessionIds]
         /\ pc \in [Procs -> {"idle", "create", "apply", "save", "send", "down"}]
         /\ store \in [SessionIds -> Session \cup {NoSession}]
         /\ answers \in [SessionIds -> Nat] /\ handed \in [SessionIds -> SUBSET Nodes]
         /\ lost \in [SessionIds -> SUBSET Nodes]
         /\ full \in [Procs -> SUBSET Nodes] /\ brief \in [Procs -> SUBSET Nodes]
         /\ found \in [Procs -> SUBSET Nodes] /\ topic \in [Procs -> Topic]
         /\ NewSession # NoSession
  BY NewSessionOK, NoSessionAssumption DEF SessionsInv, TypeOK

(* A process that keeps its session leaves the others' requests alone.     *)
LEMMA OthersBusy ==
  ASSUME SessionsInv, NEW p \in Procs, NEW step, pc' = [pc EXCEPT ![p] = step],
         sid' = sid
  PROVE  /\ \A s : s # sid[p] => Busy(s)' = Busy(s)
         /\ \A s : Busy(s)' \subseteq Busy(s) \cup {p}
         /\ \A s : \A q \in Busy(s)' : q \in Procs /\ sid[q] = s
         /\ step \in {"create", "apply", "save"} /\ pc[p] \in {"create", "apply", "save"}
              => \A s : Busy(s)' = Busy(s)
  BY Types DEF Busy

(* A process that has saved or ended its request is busy with no session.  *)
LEMMA NotBusy ==
  ASSUME SessionsInv, NEW p \in Procs, UNCHANGED sid,
         NEW step \in {"idle", "send", "down"}, pc' = [pc EXCEPT ![p] = step]
  PROVE  \A s : Busy(s)' = Busy(s) \ {p}
<1>1. pc'[p] \notin {"create", "apply", "save"}
  BY Types
<1>2. \A q \in Procs \ {p} : pc'[q] = pc[q]
  BY Types
<1>3. QED
  BY <1>1, <1>2 DEF Busy

(* What was an answer sent, lost or about to be sent remains one of them.  *)
LEMMA AnsweredKept ==
  ASSUME SessionsInv, NEW p \in Procs,
         \A q \in Procs \ {p} : /\ pc'[q] = pc[q] /\ sid'[q] = sid[q]
                                 /\ full'[q] = full[q] /\ brief'[q] = brief[q],
         \A s \in SessionIds : handed[s] \subseteq handed'[s] /\ lost[s] \subseteq lost'[s],
         pc[p] = "send" => Answer(p) \subseteq handed'[sid[p]] \cup lost'[sid[p]]
  PROVE  \A s \in SessionIds : Answered(s) \subseteq Answered(s)'
<1> SUFFICES ASSUME NEW s \in SessionIds, NEW n \in Answered(s) PROVE n \in Answered(s)'
  OBVIOUS
<1>1. CASE n \in handed[s] \cup lost[s]
  BY <1>1 DEF Answered
<1>2. CASE n \in Unsent(s)
  <2>1. PICK q \in Procs : pc[q] = "send" /\ sid[q] = s /\ n \in Answer(q)
    BY <1>2 DEF Unsent
  <2>2. CASE q = p
    BY <2>1, <2>2 DEF Answered
  <2>3. CASE q # p
    <3>1. pc'[q] = "send" /\ sid'[q] = s /\ n \in Answer(q)'
      BY <2>1, <2>3 DEF Answer
    <3>2. n \in Unsent(s)'
      BY <3>1 DEF Unsent
    <3>3. QED
      BY <3>2 DEF Answered
  <2>4. QED
    BY <2>2, <2>3
<1>3. QED
  BY <1>1, <1>2 DEF Answered

(* What EntriesWereSent says of a process.                                 *)
SentTo(p) ==
  /\ pc[p] \in {"create", "apply"} => Entries(copy[p]) \subseteq Answered(sid[p])
  /\ pc[p] = "save" => Entries(copy[p]) \subseteq Answered(sid[p]) \cup Answer(p)

LEMMA OthersSent ==
  ASSUME SessionsInv, NEW p \in Procs,
         \A q \in Procs \ {p} : /\ pc'[q] = pc[q] /\ sid'[q] = sid[q] /\ copy'[q] = copy[q]
                                 /\ full'[q] = full[q] /\ brief'[q] = brief[q],
         \A s \in SessionIds : Answered(s) \subseteq Answered(s)'
  PROVE  \A q \in Procs \ {p} : SentTo(q)'
<1> SUFFICES ASSUME NEW q \in Procs \ {p} PROVE SentTo(q)'
  OBVIOUS
<1>1. /\ pc'[q] = pc[q] /\ sid'[q] = sid[q] /\ copy'[q] = copy[q]
      /\ full'[q] = full[q] /\ brief'[q] = brief[q]
  OBVIOUS
<1>2. PICK s \in SessionIds : s = sid[q]
  BY Types
<1>3. sid'[q] = s /\ Answered(s) \subseteq Answered(s)' /\ Answer(q)' = Answer(q)
  BY <1>1, <1>2 DEF Answer
<1>4. SentTo(q)
  BY DEF SentTo, SessionsInv, EntriesWereSent
<1>5. QED
  BY <1>1, <1>2, <1>3, <1>4 DEF SentTo, Answered, Unsent

LEMMA LoadInv ==
  ASSUME SessionsInv, NEW p \in Procs, NEW s \in SessionIds, NEW nodes \in Bundles,
         NEW t \in Topic, Load(p, s, nodes, t)
  PROVE  SessionsInv'
<1> DEFINE row == IF store[s] = NoSession THEN NewSession ELSE store[s]
           step == IF store[s] = NoSession THEN "create" ELSE "apply"
<1>1. /\ pc[p] = "idle" /\ copy' = [copy EXCEPT ![p] = row] /\ pc' = [pc EXCEPT ![p] = step]
      /\ sid' = [sid EXCEPT ![p] = s]
      /\ UNCHANGED <<store, full, brief, crashes, handed, lost, lastTurn, answers, feedback>>
  BY DEF Load
<1>2. row \in Session /\ SessionOK(row) /\ step \in {"create", "apply"}
  BY NewSessionOK DEF SessionsInv, TypeOK, SessionsOK
<1>3. /\ copy \in [Procs -> Session] /\ sid \in [Procs -> SessionIds]
      /\ pc \in [Procs -> {"idle", "create", "apply", "save", "send", "down"}]
      /\ overlapped \subseteq SessionIds
  BY DEF SessionsInv, TypeOK
<1> HIDE DEF row, step
<1>4. nodes \in SUBSET Nodes
  <2>1. nodes \in SUBSET Nodes \/ \E n \in Oversized : nodes = {n}
    <3>1. nodes \in SUBSET (Nodes \ Oversized) \/ nodes \in {{n} : n \in Oversized}
      BY Zenon DEF Bundles
    <3>2. QED
      BY <3>1
  <2>2. Oversized \subseteq Nodes
    BY SessionsAssumption
  <2>3. QED
    BY <2>1, <2>2
<1>5. TypeOK'
  <2>1. requests' \in 0 .. MaxRequests
    BY SessionsAssumption DEF Load, SessionsInv, TypeOK
  <2>2. found' \in [Procs -> SUBSET Nodes] /\ topic' \in [Procs -> Topic]
    BY <1>4 DEF Load, SessionsInv, TypeOK
  <2>3. overlapped' \subseteq SessionIds
    BY DEF Load, SessionsInv, TypeOK
  <2>4. pc' \in [Procs -> {"idle", "create", "apply", "save", "send", "down"}]
        /\ copy' \in [Procs -> Session] /\ sid' \in [Procs -> SessionIds]
    BY <1>1, <1>2, <1>3
  <2>5. FeedbackTypeOK'
    BY <1>1 DEF SessionsInv, TypeOK, feedback, FeedbackTypeOK
  <2>6. QED
    BY <1>1, <2>1, <2>2, <2>3, <2>4, <2>5 DEF SessionsInv, TypeOK
<1>6. SessionsOK'
  BY <1>1, <1>2, <1>3 DEF SessionsInv, SessionsOK
<1>7. EntriesWereSent'
  <2>1. Entries(row) \subseteq Answered(s)
    BY NewSessionOK DEF row, SessionsInv, EntriesWereSent
  <2>2. step = "apply" \/ step = "create"
    BY <1>2
  <2>3. ASSUME NEW q \in Procs, q # p
        PROVE  /\ copy'[q] = copy[q] /\ sid'[q] = sid[q] /\ pc'[q] = pc[q]
               /\ full'[q] = full[q] /\ brief'[q] = brief[q]
    BY <1>1, <1>3, <2>3
  <2>4. \A r \in SessionIds : Answered(r) \subseteq Answered(r)'
    BY <1>1, <2>3, AnsweredKept
  <2>5. sid'[p] = s /\ pc'[p] = step /\ copy'[p] = row
    BY <1>1, <1>3
  <2>6. SentTo(p)'
    BY <2>1, <2>2, <2>4, <2>5 DEF SentTo, Answered, Unsent
  <2>7. \A r \in SessionIds : store'[r] # NoSession => Entries(store'[r]) \subseteq Answered(r)'
    BY <1>1, <2>4 DEF SessionsInv, EntriesWereSent
  <2>8. \A q \in Procs \ {p} : SentTo(q)'
    BY <2>3, <2>4, OthersSent
  <2>9. QED
    BY <2>6, <2>7, <2>8 DEF EntriesWereSent, SentTo
<1>8. TurnsCounted'
  <2> SUFFICES ASSUME NEW r \in SessionIds \ overlapped'
               PROVE  /\ answers[r] = IF store[r] = NoSession THEN 0 ELSE CurrentTurn(store[r])
                      /\ \A q \in Busy(r)' :
                           /\ Busy(r)' = {q}
                           /\ pc'[q] = "create" <=> store[r] = NoSession
                           /\ CurrentTurn(copy'[q]) = IF pc'[q] = "save" THEN answers[r] + 1
                                                                       ELSE answers[r]
    BY <1>1 DEF TurnsCounted
  <2>1. r \in SessionIds \ overlapped /\ (r = s => Busy(s) = {})
    BY DEF Load
  <2>2. answers[r] = IF store[r] = NoSession THEN 0 ELSE CurrentTurn(store[r])
    BY <2>1 DEF SessionsInv, TurnsCounted
  <2>3. CASE r = s
    <3>1. Busy(r)' = {p}
      BY <1>1, <1>2, <1>3, <2>1, <2>3 DEF Busy
    <3>2. step = "create" <=> store[r] = NoSession
      BY <2>3 DEF step
    <3>3. CurrentTurn(row) = answers[r]
      BY <2>2, <2>3, NewSessionOK DEF row
    <3>4. pc'[p] = step /\ copy'[p] = row /\ step # "save"
      BY <1>1, <1>2, <1>3
    <3>5. QED
      BY <2>2, <3>1, <3>2, <3>3, <3>4
  <2>4. CASE r # s
    <3>1. Busy(r)' = Busy(r) /\ p \notin Busy(r)
      BY <1>1, <1>2, <1>3, <2>4 DEF Busy
    <3>2. \A q \in Busy(r) : pc'[q] = pc[q] /\ copy'[q] = copy[q]
      BY <1>1, <1>3, <3>1 DEF Busy
    <3>3. QED
      BY <2>1, <3>1, <3>2 DEF SessionsInv, TurnsCounted
  <2>5. QED
    BY <2>3, <2>4
<1>9. QED
  BY <1>5, <1>6, <1>7, <1>8 DEF SessionsInv

LEMMA CreateInv ==
  ASSUME SessionsInv, NEW p \in Procs, Create(p) PROVE SessionsInv'
<1> DEFINE s == sid[p]
<1>1. /\ pc[p] = "create" /\ store' = [store EXCEPT ![s] = NewSession]
      /\ pc' = [pc EXCEPT ![p] = "apply"]
      /\ UNCHANGED <<sid, found, topic, copy, full, brief, requests, crashes,
                     handed, lost, lastTurn, answers, overlapped, feedback>>
  BY DEF Create, local, bounds, history
<1>2. s \in SessionIds
  BY Types
<1> HIDE DEF s
<1>3. TypeOK'
  <2>1. /\ store' \in [SessionIds -> Session \cup {NoSession}]
        /\ pc' \in [Procs -> {"idle", "create", "apply", "save", "send", "down"}]
    BY <1>1, Types, NewSessionOK
  <2>2. FeedbackTypeOK'
    BY <1>1 DEF SessionsInv, TypeOK, feedback, FeedbackTypeOK
  <2>3. QED
    BY <1>1, <2>1, <2>2 DEF SessionsInv, TypeOK
<1>4. SessionsOK'
  BY <1>1, <1>2, Types, NewSessionOK DEF SessionsInv, SessionsOK
<1>5. ASSUME NEW r \in SessionIds \ overlapped
      PROVE  /\ answers[r] = IF store'[r] = NoSession THEN 0 ELSE CurrentTurn(store'[r])
             /\ \A q \in Busy(r)' :
                  /\ Busy(r)' = {q}
                  /\ pc'[q] = "create" <=> store'[r] = NoSession
                  /\ CurrentTurn(copy[q]) = IF pc'[q] = "save" THEN answers[r] + 1
                                                              ELSE answers[r]
  <2>1. Busy(r)' = Busy(r)
    BY <1>1, OthersBusy
  <2>2. CASE r = s
    <3>1. p \in Busy(r)
      BY <1>1, <2>2 DEF Busy, s
    <3>2. /\ Busy(r) = {p} /\ store[r] = NoSession /\ answers[r] = 0
          /\ CurrentTurn(copy[p]) = answers[r]
      BY <1>1, <3>1 DEF SessionsInv, TurnsCounted
    <3>3. store'[r] = NewSession /\ pc'[p] = "apply"
      BY <1>1, <1>2, <2>2, Types
    <3>4. QED
      BY <2>1, <3>2, <3>3, NewSessionOK, Types
  <2>3. CASE r # s
    <3>1. store'[r] = store[r]
      BY <1>1, <1>2, <2>3, Types
    <3>2. \A q \in Busy(r) : pc'[q] = pc[q]
      BY <1>1, <2>3, Types DEF Busy, s
    <3>3. QED
      BY <2>1, <3>1, <3>2 DEF SessionsInv, TurnsCounted
  <2>4. QED
    BY <2>2, <2>3
<1>6. TurnsCounted'
  BY <1>1, <1>5 DEF TurnsCounted
<1>7. EntriesWereSent'
  <2>1. /\ \A q \in Procs \ {p} : pc'[q] = pc[q]
        /\ pc'[p] = "apply"
    BY <1>1, Types
  <2>2. \A r \in SessionIds : Answered(r) \subseteq Answered(r)'
    BY <1>1, <2>1, AnsweredKept
  <2>3. \A q \in Procs \ {p} : SentTo(q)'
    BY <1>1, <2>1, <2>2, OthersSent
  <2>4. SentTo(p)'
    <3>1. PICK r \in SessionIds : r = sid[p]
      BY Types
    <3>2. Entries(copy[p]) \subseteq Answered(r) /\ Answered(r) \subseteq Answered(r)'
      BY <1>1, <2>2, <3>1 DEF SessionsInv, EntriesWereSent
    <3>3. sid'[p] = r /\ copy'[p] = copy[p]
      BY <1>1, <3>1
    <3>4. QED
      BY <2>1, <3>2, <3>3 DEF SentTo, Answered, Unsent
  <2>5. \A r \in SessionIds : store'[r] # NoSession => Entries(store'[r]) \subseteq Answered(r)'
    BY <1>1, <1>2, <2>2, Types, NewSessionOK DEF SessionsInv, EntriesWereSent
  <2>6. QED
    BY <2>3, <2>4, <2>5 DEF EntriesWereSent, SentTo
<1>8. QED
  BY <1>3, <1>4, <1>6, <1>7 DEF SessionsInv

(* record_implicit records a signal on nodes in an order, or nothing.      *)
LEMMA ImplicitSignal ==
  ASSUME NEW p \in Procs, NEW recorded \in Session, RecordImplicit(p, recorded)
  PROVE  FeedbackStep
<1>1. CASE ImplicitOutcomes(recorded) # {}
  <2> DEFINE given == recorded.history[Len(recorded.history) - 1].nodes
  <2>1. PICK outcome \in ImplicitOutcomes(recorded) :
          \/ AddSignal(p, SetToSeq(given), outcome, "implicit")
          \/ AddSignalFails(p, SetToSeq(given), outcome, "implicit")
    BY <1>1 DEF RecordImplicit
  <2>2. outcome \in Outcomes /\ Len(recorded.history) >= 2
    <3>1. ~(Len(recorded.history) < 2)
      BY <2>1, Zenon DEF ImplicitOutcomes
    <3>2. ImplicitOutcomes(recorded) \in {{}, {"negative"}, {"positive"}}
      BY Zenon DEF ImplicitOutcomes
    <3>3. Len(recorded.history) \in Nat
      BY SessionParts
    <3>4. QED
      BY <2>1, <3>1, <3>2, <3>3 DEF Outcomes
  <2>3. Len(recorded.history) - 1 \in 1 .. Len(recorded.history)
    BY <2>2, SessionParts
  <2>4. given \in SUBSET Nodes
    BY <2>3, SessionParts
  <2> HIDE DEF given
  <2>5. SetToSeq(given) \in Seq(Nodes)
    BY <2>4, NodesInOrder
  <2>6. QED
    BY <2>1, <2>2, <2>5 DEF FeedbackStep
<1>2. QED
  BY <1>1 DEF RecordImplicit, FeedbackStep

LEMMA ApplyInv ==
  ASSUME SessionsInv, NEW p \in Procs, Apply(p) PROVE SessionsInv'
<1> DEFINE s == sid[p]
           fading == Fading(found[p], copy[p], topic[p])
           fresh == (found[p] \ Omitted(found[p], copy[p], topic[p])) \ fading
           code == fresh \ Oversized
           summaries == fading \cup (fresh \cap Oversized \cap Summarised)
           recorded == RecordQuery(copy[p], code \cup summaries, topic[p])
<1>1. /\ pc[p] = "apply" /\ pc' = [pc EXCEPT ![p] = "save"]
      /\ full' = [full EXCEPT ![p] = code] /\ brief' = [brief EXCEPT ![p] = summaries]
      /\ RecordImplicit(p, recorded)
      /\ \E keep \in NewestEntries(recorded) : copy' = [copy EXCEPT ![p] = Prune(recorded, keep)]
      /\ UNCHANGED <<store, sid, found, topic, requests, crashes, handed, lost, lastTurn,
                     answers, overlapped>>
  BY DEF Apply, bounds, history
<1>2. s \in SessionIds /\ found[p] \in SUBSET Nodes /\ topic[p] \in Topic
      /\ copy[p] \in Session /\ SessionOK(copy[p])
  BY Types DEF SessionsInv, SessionsOK
<1>3. code \in SUBSET Nodes /\ summaries \in SUBSET Nodes
  BY <1>2 DEF Fading, Remembered
<1> HIDE DEF s, code, summaries
<1>4. Recorded(copy[p], code \cup summaries, recorded)
  BY <1>2, <1>3, RecordQueryResult
<1>5. /\ recorded \in Session /\ recorded.history # <<>>
      /\ CurrentTurn(recorded) = CurrentTurn(copy[p]) + 1
      /\ Entries(recorded) \subseteq Entries(copy[p]) \cup (code \cup summaries)
  BY <1>4 DEF Recorded, Entries
<1>6. WindowFollowsHistory(recorded) /\ TurnsInOrder(recorded)
  BY <1>2, <1>3, <1>4, RecordQueryWindow DEF SessionOK
<1> HIDE DEF recorded
<1>7. PICK keep \in NewestEntries(recorded) : copy' = [copy EXCEPT ![p] = Prune(recorded, keep)]
  BY <1>1
<1> DEFINE pruned == Prune(recorded, keep)
<1>8. Pruned(recorded, keep, pruned)
  BY <1>5, PruneResult
<1> HIDE DEF pruned
<1>9. /\ pruned \in Session /\ SessionOK(pruned)
      /\ Entries(pruned) \subseteq Entries(copy[p]) \cup (code \cup summaries)
      /\ CurrentTurn(pruned) = CurrentTurn(copy[p]) + 1
  <2>1. SessionOK(pruned) /\ Entries(pruned) \subseteq Entries(recorded)
    BY <1>5, <1>6, <1>7, <1>8, PruneOK
  <2>2. QED
    BY <1>5, <1>8, <2>1 DEF Pruned
<1>10. copy' = [copy EXCEPT ![p] = pruned]
  BY <1>7 DEF pruned
<1>11. FeedbackTypeOK'
  <2>1. FeedbackStep
    BY <1>1, <1>5, ImplicitSignal
  <2>2. QED
    BY <2>1, FeedbackTypeKept DEF SessionsInv, TypeOK
<1>12. TypeOK'
  <2>1. /\ pc' \in [Procs -> {"idle", "create", "apply", "save", "send", "down"}]
        /\ copy' \in [Procs -> Session]
        /\ full' \in [Procs -> SUBSET Nodes] /\ brief' \in [Procs -> SUBSET Nodes]
    BY <1>1, <1>3, <1>9, <1>10, Types
  <2>2. QED
    BY <1>1, <1>11, <2>1 DEF SessionsInv, TypeOK
<1>13. SessionsOK'
  BY <1>1, <1>9, <1>10, Types DEF SessionsInv, SessionsOK
<1>14. EntriesWereSent'
  <2>1. Entries(pruned) \subseteq Answered(s) \cup code \cup summaries
    BY <1>1, <1>9 DEF SessionsInv, EntriesWereSent, s
  <2>2. /\ pc'[p] = "save" /\ copy'[p] = pruned /\ full'[p] = code /\ brief'[p] = summaries
        /\ sid'[p] = s
    BY <1>1, <1>10, Types DEF s
  <2>3. ASSUME NEW q \in Procs, q # p
        PROVE  pc'[q] = pc[q] /\ copy'[q] = copy[q] /\ full'[q] = full[q] /\ brief'[q] = brief[q]
    BY <1>1, <1>10, <2>3, Types
  <2>4. \A r \in SessionIds : Answered(r) \subseteq Answered(r)'
    BY <1>1, <2>3, AnsweredKept
  <2>5. \A q \in Procs \ {p} : SentTo(q)'
    BY <1>1, <2>3, <2>4, OthersSent
  <2>6. PICK r0 \in SessionIds : r0 = s
    BY <1>2
  <2>7. SentTo(p)'
    <3>1. Entries(pruned) \subseteq Answered(r0) \cup code \cup summaries
      BY <2>1, <2>6
    <3>2. Answered(r0) \subseteq Answered(r0)' /\ sid'[p] = r0
      BY <2>2, <2>4, <2>6
    <3>3. Answer(p)' = code \cup summaries
      BY <2>2 DEF Answer
    <3>4. QED
      BY <2>2, <3>1, <3>2, <3>3 DEF SentTo, Answered, Unsent
  <2>8. \A r \in SessionIds : store'[r] # NoSession => Entries(store'[r]) \subseteq Answered(r)'
    BY <1>1, <2>4 DEF SessionsInv, EntriesWereSent
  <2>9. QED
    BY <2>5, <2>7, <2>8 DEF EntriesWereSent, SentTo
<1>15. ASSUME NEW r \in SessionIds \ overlapped
       PROVE  \A q \in Busy(r)' :
                 /\ Busy(r)' = {q}
                 /\ pc'[q] = "create" <=> store[r] = NoSession
                 /\ CurrentTurn(copy'[q]) = IF pc'[q] = "save" THEN answers[r] + 1
                                                              ELSE answers[r]
  <2>1. Busy(r)' = Busy(r)
    BY <1>1, OthersBusy
  <2>2. CASE r = s
    <3>1. p \in Busy(r)
      BY <1>1, <2>2 DEF Busy, s
    <3>2. Busy(r) = {p} /\ store[r] # NoSession /\ CurrentTurn(copy[p]) = answers[r]
      BY <1>1, <3>1 DEF SessionsInv, TurnsCounted
    <3>3. pc'[p] = "save" /\ copy'[p] = pruned
      BY <1>1, <1>10, Types
    <3>4. QED
      BY <1>9, <2>1, <3>2, <3>3
  <2>3. CASE r # s
    <3>1. \A q \in Busy(r) : pc'[q] = pc[q] /\ copy'[q] = copy[q]
      BY <1>1, <1>10, <2>3, Types DEF Busy, s
    <3>2. QED
      BY <2>1, <3>1 DEF SessionsInv, TurnsCounted
  <2>4. QED
    BY <2>2, <2>3
<1>16. TurnsCounted'
  BY <1>1, <1>15 DEF SessionsInv, TurnsCounted
<1>17. QED
  BY <1>12, <1>13, <1>14, <1>16 DEF SessionsInv

LEMMA SaveInv ==
  ASSUME SessionsInv, NEW p \in Procs, Save(p) PROVE SessionsInv'
<1> DEFINE s == sid[p]
           row == Persisted(copy[p])
           sent == Answer(p)
<1>1. /\ pc[p] = "save" /\ pc' = [pc EXCEPT ![p] = "send"]
      /\ store' = [store EXCEPT ![s] = row]
      /\ answers' = [answers EXCEPT ![s] = answers[s] + 1]
      /\ found' = [found EXCEPT ![p] = {}] /\ topic' = [topic EXCEPT ![p] = NoTopic]
      /\ copy' = [copy EXCEPT ![p] = NewSession]
      /\ UNCHANGED <<sid, full, brief, requests, crashes, handed, lost, overlapped, feedback>>
  BY Types DEF Save, bounds
<1>2. s \in SessionIds /\ copy[p] \in Session /\ SessionOK(copy[p]) /\ sent \in SUBSET Nodes
  BY Types DEF SessionsInv, SessionsOK, Answer
<1>3. /\ row \in Session /\ SessionOK(row) /\ Entries(row) = Entries(copy[p])
      /\ CurrentTurn(row) = CurrentTurn(copy[p]) /\ row # NoSession
  BY <1>2, PersistedSame, NoSessionAssumption
<1>4. Entries(row) \subseteq Answered(s) \cup sent
  BY <1>1, <1>3 DEF SessionsInv, EntriesWereSent
<1> HIDE DEF s, row, sent
<1>5. TypeOK'
  <2>1. /\ store' \in [SessionIds -> Session \cup {NoSession}]
        /\ pc' \in [Procs -> {"idle", "create", "apply", "save", "send", "down"}]
        /\ copy' \in [Procs -> Session] /\ answers' \in [SessionIds -> Nat]
    BY <1>1, <1>2, <1>3, Types, NewSessionOK
  <2>2. found' \in [Procs -> SUBSET Nodes] /\ topic' \in [Procs -> Topic]
    BY <1>1, Types DEF Topic
  <2>3. lastTurn' \in [SessionIds -> [Nodes -> Nat]]
    <3>1. CurrentTurn(copy[p]) \in Nat
      BY <1>2, SessionParts
    <3>2. lastTurn \in [SessionIds -> [Nodes -> Nat]]
      BY DEF SessionsInv, TypeOK
    <3>3. lastTurn' = [lastTurn EXCEPT ![s] =
                         [n \in Nodes |-> IF n \in sent THEN CurrentTurn(copy[p])
                                          ELSE lastTurn[s][n]]]
      BY DEF Save, s, sent
    <3>4. QED
      BY <1>2, <3>1, <3>2, <3>3
  <2>4. FeedbackTypeOK'
    BY <1>1 DEF SessionsInv, TypeOK, feedback, FeedbackTypeOK
  <2>5. QED
    BY <1>1, <2>1, <2>2, <2>3, <2>4 DEF SessionsInv, TypeOK
<1>6. SessionsOK'
  BY <1>1, <1>2, <1>3, Types, NewSessionOK DEF SessionsInv, SessionsOK
<1>7. EntriesWereSent'
  <2>1. ASSUME NEW q \in Procs, q # p
        PROVE  pc'[q] = pc[q] /\ copy'[q] = copy[q]
    BY <1>1, <2>1, Types
  <2>2. pc'[p] = "send" /\ sid'[p] = s /\ Answer(p)' = sent
    BY <1>1, Types DEF s, sent, Answer
  <2>3. \A r \in SessionIds : Answered(r) \subseteq Answered(r)'
    BY <1>1, <2>1, AnsweredKept
  <2>4. PICK r0 \in SessionIds : r0 = s /\ sent \subseteq Answered(r0)'
    <3>1. PICK r0 \in SessionIds : r0 = s
      BY <1>2
    <3>2. sid'[p] = r0
      BY <2>2, <3>1
    <3>3. sent \subseteq Unsent(r0)'
      BY <2>2, <3>2 DEF Unsent
    <3>4. QED
      BY <3>1, <3>3 DEF Answered
  <2>5. \A q \in Procs \ {p} : SentTo(q)'
    BY <1>1, <2>1, <2>3, OthersSent
  <2>6. SentTo(p)'
    BY <2>2 DEF SentTo
  <2>7. ASSUME NEW r \in SessionIds, store'[r] # NoSession
        PROVE  Entries(store'[r]) \subseteq Answered(r)'
    <3>1. CASE r = r0
      <4>1. store'[r] = row /\ Entries(row) \subseteq Answered(r) \cup sent
        BY <1>1, <1>2, <1>4, <2>4, <3>1, Types
      <4>2. sent \subseteq Answered(r)'
        BY <2>4, <3>1
      <4>3. QED
        BY <2>3, <4>1, <4>2
    <3>2. CASE r # r0
      BY <1>1, <1>2, <2>3, <2>4, <2>7, <3>2, Types DEF SessionsInv, EntriesWereSent
    <3>3. QED
      BY <3>1, <3>2
  <2>8. QED
    BY <2>5, <2>6, <2>7 DEF EntriesWereSent, SentTo
<1>8. ASSUME NEW r \in SessionIds \ overlapped
      PROVE  /\ answers'[r] = IF store'[r] = NoSession THEN 0 ELSE CurrentTurn(store'[r])
             /\ \A q \in Busy(r)' :
                  /\ Busy(r)' = {q}
                  /\ pc'[q] = "create" <=> store'[r] = NoSession
                  /\ CurrentTurn(copy'[q]) = IF pc'[q] = "save" THEN answers'[r] + 1
                                                               ELSE answers'[r]
  <2>1. Busy(r)' = Busy(r) \ {p}
    BY <1>1, NotBusy
  <2>2. CASE r = s
    <3>1. p \in Busy(r)
      BY <1>1, <2>2 DEF Busy, s
    <3>2. Busy(r) = {p} /\ CurrentTurn(copy[p]) = answers[r] + 1
      BY <1>1, <3>1 DEF SessionsInv, TurnsCounted
    <3>3. store'[r] = row /\ answers'[r] = answers[r] + 1
      BY <1>1, <1>2, <2>2, Types
    <3>4. QED
      BY <1>3, <2>1, <3>2, <3>3
  <2>3. CASE r # s
    <3>1. store'[r] = store[r] /\ answers'[r] = answers[r] /\ Busy(r)' = Busy(r)
      BY <1>1, <1>2, <2>1, <2>3, Types, OthersBusy DEF s
    <3>2. \A q \in Busy(r) : pc'[q] = pc[q] /\ copy'[q] = copy[q]
      BY <1>1, <2>3, Types DEF Busy, s
    <3>3. QED
      BY <3>1, <3>2 DEF SessionsInv, TurnsCounted
  <2>4. QED
    BY <2>2, <2>3
<1>9. TurnsCounted'
  BY <1>1, <1>8 DEF TurnsCounted
<1>10. QED
  BY <1>5, <1>6, <1>7, <1>9 DEF SessionsInv

(* A request ends: its answer is sent, or lost.                            *)
LEMMA EndInv ==
  ASSUME SessionsInv, NEW p \in Procs, NEW step \in {"idle", "down"},
         pc' = [pc EXCEPT ![p] = step], Forget(p), FeedbackTypeOK',
         UNCHANGED <<store, sid, lastTurn, answers, overlapped>>,
         requests' \in 0 .. MaxRequests, crashes' \in 0 .. MaxCrashes,
         handed' \in [SessionIds -> SUBSET Nodes], lost' \in [SessionIds -> SUBSET Nodes],
         \A s \in SessionIds : handed[s] \subseteq handed'[s] /\ lost[s] \subseteq lost'[s],
         pc[p] = "send" => Answer(p) \subseteq handed'[sid[p]] \cup lost'[sid[p]]
  PROVE  SessionsInv'
<1>1. /\ copy' = [copy EXCEPT ![p] = NewSession]
      /\ full' = [full EXCEPT ![p] = {}] /\ brief' = [brief EXCEPT ![p] = {}]
  BY DEF Forget
<1>2. TypeOK'
  <2>1. /\ pc' \in [Procs -> {"idle", "create", "apply", "save", "send", "down"}]
        /\ copy' \in [Procs -> Session]
        /\ full' \in [Procs -> SUBSET Nodes] /\ brief' \in [Procs -> SUBSET Nodes]
    BY <1>1, Types, NewSessionOK
  <2>2. found' \in [Procs -> SUBSET Nodes] /\ topic' \in [Procs -> Topic]
    BY Types DEF Forget, Topic
  <2>3. QED
    BY <2>1, <2>2 DEF SessionsInv, TypeOK
<1>3. SessionsOK'
  BY <1>1, Types, NewSessionOK DEF SessionsInv, SessionsOK
<1>4. ASSUME NEW q \in Procs, q # p
      PROVE  pc'[q] = pc[q] /\ copy'[q] = copy[q] /\ full'[q] = full[q] /\ brief'[q] = brief[q]
  BY <1>1, <1>4, Types
<1>5. pc'[p] = step
  BY Types
<1>6. EntriesWereSent'
  <2>1. \A r \in SessionIds : Answered(r) \subseteq Answered(r)'
    BY <1>4, AnsweredKept
  <2>2. \A q \in Procs \ {p} : SentTo(q)'
    BY <1>4, <2>1, OthersSent
  <2>3. SentTo(p)'
    BY <1>5 DEF SentTo
  <2>4. \A r \in SessionIds : store'[r] # NoSession => Entries(store'[r]) \subseteq Answered(r)'
    BY <2>1 DEF SessionsInv, EntriesWereSent
  <2>5. QED
    BY <2>2, <2>3, <2>4 DEF EntriesWereSent, SentTo
<1>7. ASSUME NEW r \in SessionIds \ overlapped
      PROVE  \A q \in Busy(r)' :
                /\ Busy(r)' = {q}
                /\ pc'[q] = "create" <=> store[r] = NoSession
                /\ CurrentTurn(copy'[q]) = IF pc'[q] = "save" THEN answers[r] + 1 ELSE answers[r]
  <2>1. Busy(r)' = Busy(r) \ {p}
    BY NotBusy
  <2>2. \A q \in Busy(r)' : q \in Procs /\ q # p /\ q \in Busy(r)
    BY <2>1 DEF Busy
  <2>3. QED
    BY <1>4, <2>1, <2>2 DEF SessionsInv, TurnsCounted
<1>8. TurnsCounted'
  BY <1>7 DEF SessionsInv, TurnsCounted
<1>9. QED
  BY <1>2, <1>3, <1>6, <1>8 DEF SessionsInv

LEMMA SendInv ==
  ASSUME SessionsInv, NEW p \in Procs, Send(p) PROVE SessionsInv'
<1> DEFINE s == sid[p]
<1>1. /\ pc' = [pc EXCEPT ![p] = "idle"] /\ Forget(p)
      /\ handed' = [handed EXCEPT ![s] = handed[s] \cup Answer(p)]
      /\ UNCHANGED <<store, sid, requests, crashes, lost, lastTurn, answers, overlapped, feedback>>
  BY Types DEF Send, bounds
<1>2. s \in SessionIds /\ Answer(p) \in SUBSET Nodes
  BY Types DEF Answer
<1> HIDE DEF s
<1>3. /\ handed' \in [SessionIds -> SUBSET Nodes]
      /\ \A r \in SessionIds : handed[r] \subseteq handed'[r]
      /\ Answer(p) \subseteq handed'[sid[p]]
  BY <1>1, <1>2, Types DEF s
<1>4. /\ FeedbackTypeOK' /\ requests' \in 0 .. MaxRequests /\ crashes' \in 0 .. MaxCrashes
      /\ lost' \in [SessionIds -> SUBSET Nodes]
  BY <1>1 DEF SessionsInv, TypeOK, feedback, FeedbackTypeOK
<1>5. QED
  BY <1>1, <1>3, <1>4, EndInv

LEMMA LosesInv ==
  ASSUME SessionsInv, NEW p \in Procs, NEW step \in {"idle", "down"},
         pc' = [pc EXCEPT ![p] = step], LosesAnswer(p), FeedbackTypeOK'
  PROVE  SessionsInv'
<1> DEFINE s == sid[p]
<1>1. /\ Forget(p)
      /\ lost' = IF pc[p] = "send" THEN [lost EXCEPT ![s] = lost[s] \cup Answer(p)] ELSE lost
      /\ UNCHANGED <<store, sid, requests, handed, lastTurn, answers, overlapped>>
  BY Types DEF LosesAnswer
<1>2. s \in SessionIds /\ Answer(p) \in SUBSET Nodes
  BY Types DEF Answer
<1> HIDE DEF s
<1>3. /\ lost' \in [SessionIds -> SUBSET Nodes]
      /\ \A r \in SessionIds : lost[r] \subseteq lost'[r]
      /\ pc[p] = "send" => Answer(p) \subseteq lost'[sid[p]]
  BY <1>1, <1>2, Types DEF s
<1>4. crashes' \in 0 .. MaxCrashes
  BY SessionsAssumption DEF LosesAnswer, SessionsInv, TypeOK
<1>5. requests' \in 0 .. MaxRequests /\ handed' \in [SessionIds -> SUBSET Nodes]
  BY <1>1 DEF SessionsInv, TypeOK
<1>6. QED
  BY <1>1, <1>3, <1>4, <1>5, EndInv

LEMMA FailInv ==
  ASSUME SessionsInv, NEW p \in Procs, SaveFails(p) \/ SendFails(p) \/ Crash(p)
  PROVE  SessionsInv'
<1>1. FeedbackStep
  BY DEF FeedbackStep, SaveFails, SendFails, Crash
<1>2. FeedbackTypeOK'
  BY <1>1, FeedbackTypeKept DEF SessionsInv, TypeOK
<1>3. QED
  BY <1>2, LosesInv DEF SaveFails, SendFails, Crash

LEMMA StartInv ==
  ASSUME SessionsInv, NEW p \in Procs, Start(p) PROVE SessionsInv'
<1>1. PICK old \in SUBSET {s \in SessionIds : store[s] # NoSession} :
        /\ store' = [s \in SessionIds |-> IF s \in old THEN NoSession ELSE store[s]]
        /\ lastTurn' = [s \in SessionIds |->
                          IF s \in old THEN [n \in Nodes |-> 0] ELSE lastTurn[s]]
        /\ answers' = [s \in SessionIds |-> IF s \in old THEN 0 ELSE answers[s]]
        /\ overlapped' = overlapped \cup {s \in old : Busy(s) # {}}
  BY DEF Start
<1>2. /\ pc[p] = "down" /\ pc' = [pc EXCEPT ![p] = "idle"] /\ PurgeSignals(p)
      /\ UNCHANGED <<sid, found, topic, copy, full, brief, requests, crashes, handed, lost>>
  BY DEF Start, local, bounds
<1>3. \A r : Busy(r)' = Busy(r)
  BY <1>2, Types DEF Busy
<1>4. TypeOK'
  <2>1. FeedbackTypeOK'
    BY <1>2, FeedbackTypeKept DEF FeedbackStep, SessionsInv, TypeOK
  <2>2. /\ store' \in [SessionIds -> Session \cup {NoSession}]
        /\ lastTurn' \in [SessionIds -> [Nodes -> Nat]] /\ answers' \in [SessionIds -> Nat]
        /\ overlapped' \subseteq SessionIds
        /\ pc' \in [Procs -> {"idle", "create", "apply", "save", "send", "down"}]
    BY <1>1, <1>2 DEF SessionsInv, TypeOK
  <2>3. QED
    BY <1>2, <2>1, <2>2 DEF SessionsInv, TypeOK
<1>5. SessionsOK'
  BY <1>1, <1>2 DEF SessionsInv, SessionsOK
<1>6. \A q \in Procs : pc'[q] \in {"create", "apply", "save"} => pc'[q] = pc[q]
  BY <1>2, Types
<1>7. EntriesWereSent'
  <2>1. /\ \A q \in Procs \ {p} : pc'[q] = pc[q]
        /\ pc'[p] = "idle"
    BY <1>2, Types
  <2>2. \A r \in SessionIds : Answered(r) \subseteq Answered(r)'
    BY <1>2, <2>1, AnsweredKept
  <2>3. \A q \in Procs \ {p} : SentTo(q)'
    BY <1>2, <2>1, <2>2, OthersSent
  <2>4. SentTo(p)'
    BY <2>1 DEF SentTo
  <2>5. \A r \in SessionIds : store'[r] # NoSession => Entries(store'[r]) \subseteq Answered(r)'
    BY <1>1, <2>2 DEF SessionsInv, EntriesWereSent
  <2>6. QED
    BY <2>3, <2>4, <2>5 DEF EntriesWereSent, SentTo
<1>8. ASSUME NEW r \in SessionIds \ overlapped'
      PROVE  /\ answers'[r] = IF store'[r] = NoSession THEN 0 ELSE CurrentTurn(store'[r])
             /\ \A q \in Busy(r) :
                  /\ Busy(r) = {q}
                  /\ pc'[q] = "create" <=> store'[r] = NoSession
                  /\ CurrentTurn(copy[q]) = IF pc'[q] = "save" THEN answers'[r] + 1
                                                              ELSE answers'[r]
  <2>1. r \in SessionIds \ overlapped /\ (r \in old => Busy(r) = {})
    BY <1>1
  <2>2. CASE r \in old
    BY <1>1, <2>1, <2>2
  <2>3. CASE r \notin old
    <3>1. store'[r] = store[r] /\ answers'[r] = answers[r]
      BY <1>1, <2>3
    <3>2. \A q \in Busy(r) : pc'[q] = pc[q]
      BY <1>3, <1>6 DEF Busy
    <3>3. QED
      BY <2>1, <3>1, <3>2 DEF SessionsInv, TurnsCounted
  <2>4. QED
    BY <2>2, <2>3
<1>9. TurnsCounted'
  BY <1>2, <1>3, <1>8 DEF TurnsCounted
<1>10. QED
  BY <1>4, <1>5, <1>7, <1>9 DEF SessionsInv

LEMMA JudgeSignal ==
  ASSUME NEW p \in Procs, Judge(p) PROVE FeedbackStep
<1>1. PICK list \in FeedbackLists, outcome \in Outcomes : RecordExplicit(p, list, outcome)
  BY DEF Judge
<1>2. list \in Seq(Nodes)
  BY FeedbackAssumption
<1>3. QED
  BY <1>1, <1>2 DEF RecordExplicit, FeedbackStep

(* A step that touches no session.                                         *)
LEMMA SameInv ==
  ASSUME SessionsInv, FeedbackTypeOK', requests' \in 0 .. MaxRequests,
         UNCHANGED <<store, pc, sid, found, topic, copy, full, brief, crashes,
                     handed, lost, lastTurn, answers, overlapped>>
  PROVE  SessionsInv'
<1>1. TypeOK'
  BY DEF SessionsInv, TypeOK
<1>2. SessionsOK'
  BY DEF SessionsInv, SessionsOK
<1>3. EntriesWereSent'
  BY DEF SessionsInv, EntriesWereSent, Answered, Unsent, Answer
<1>4. TurnsCounted'
  BY DEF SessionsInv, TurnsCounted, Busy
<1>5. QED
  BY <1>1, <1>2, <1>3, <1>4 DEF SessionsInv

LEMMA NextInv == SessionsInv /\ [Next]_vars => SessionsInv'
<1> SUFFICES ASSUME SessionsInv, [Next]_vars PROVE SessionsInv'
  OBVIOUS
<1>1. ASSUME NEW p \in Procs, Request(p) PROVE SessionsInv'
  BY <1>1, LoadInv, CreateInv, ApplyInv, SaveInv, SendInv, FailInv DEF Request
<1>2. ASSUME NEW p \in Procs, Judge(p) PROVE SessionsInv'
  <2>1. FeedbackTypeOK'
    BY <1>2, JudgeSignal, FeedbackTypeKept DEF SessionsInv, TypeOK
  <2>2. /\ requests' \in 0 .. MaxRequests
        /\ UNCHANGED <<store, pc, sid, found, topic, copy, full, brief, crashes,
                       handed, lost, lastTurn, answers, overlapped>>
    BY <1>2, SessionsAssumption DEF Judge, local, history, SessionsInv, TypeOK
  <2>3. QED
    BY <2>1, <2>2, SameInv
<1>3. CASE UNCHANGED vars
  <2>1. UNCHANGED <<store, pc, sid, found, topic, copy, full, brief, requests, crashes,
                    handed, lost, lastTurn, answers, overlapped, feedback>>
    BY <1>3 DEF vars, local, bounds, history
  <2>2. FeedbackTypeOK' /\ requests' \in 0 .. MaxRequests
    BY <2>1 DEF SessionsInv, TypeOK, feedback, FeedbackTypeOK
  <2>3. QED
    BY <2>1, <2>2, SameInv
<1>4. QED
  BY <1>1, <1>2, <1>3, FailInv, StartInv DEF Next

(***************************************************************************)
(* Theorems.                                                               *)
(***************************************************************************)

(* The inductive invariant: types, sessions within their bounds whose      *)
(* turns are in order, entries that were sent, and a turn that counts.     *)
THEOREM SessionsInvariant == Spec => []SessionsInv
<1>1. QED
  BY InitInv, NextInv, PTL DEF Spec

(* Rows, copies and the tables of feedback have the types the code gives   *)
(* them.                                                                   *)
THEOREM SessionsTypeCorrect == Spec => []TypeOK
<1>1. SessionsInv => TypeOK
  BY DEF SessionsInv
<1>2. QED
  BY <1>1, SessionsInvariant, PTL

(* What session_dedup leaves out or strips was part of an earlier answer   *)
(* of the session that is sent, still on its way after its row was saved,  *)
(* or lost by a send that failed or a process that died in between.        *)
THEOREM OnlySentIsOmitted == Spec => []OmittedWasSent
<1>1. SessionsInv => OmittedWasSent
  <2>1. ASSUME SessionsInv, NEW p \in Procs, pc[p] = "apply"
        PROVE  Remembered(30, found[p], copy[p], topic[p])
                 \subseteq handed[sid[p]] \cup lost[sid[p]] \cup Unsent(sid[p])
    <3>1. Entries(copy[p]) \subseteq handed[sid[p]] \cup lost[sid[p]] \cup Unsent(sid[p])
      BY <2>1 DEF SessionsInv, EntriesWereSent, Answered
    <3>2. found[p] \in SUBSET Nodes
      BY <2>1, Types
    <3>3. Remembered(30, found[p], copy[p], topic[p]) \subseteq Entries(copy[p])
      BY <3>2 DEF Remembered, Entries
    <3>4. QED
      BY <3>1, <3>3
  <2>2. QED
    BY <2>1 DEF OmittedWasSent
<1>2. QED
  BY <1>1, SessionsInvariant, PTL

(* A saved row's context window tells of every node the last turn that     *)
(* delivered it, and prune has kept the row within its bounds.             *)
THEOREM RowsStayConsistent == Spec => []RowsConsistent
<1>1. SessionsInv => RowsConsistent
  BY DEF SessionsInv, SessionsOK, SessionOK, RowsConsistent
<1>2. QED
  BY <1>1, SessionsInvariant, PTL

(* Requests of a session that do not overlap are counted without a gap,    *)
(* although prune drops old records and the turn is read off the last one. *)
THEOREM TurnsCountAnswers == Spec => []TurnCountsAnswers
<1>1. SessionsInv => TurnCountsAnswers
  BY DEF SessionsInv, TurnsCounted, TurnCountsAnswers
<1>2. QED
  BY <1>1, SessionsInvariant, PTL

(***************************************************************************)
(* Powers, and the decay weight.                                           *)
(***************************************************************************)

LEMMA TimesMonotone ==
  ASSUME NEW a \in Nat, NEW b \in Nat, NEW x \in Nat, NEW y \in Nat, a <= b, x <= y
  PROVE  a * x \in Nat /\ b * y \in Nat /\ a * x <= b * y
<1>1. a * x \in Nat /\ b * x \in Nat /\ b * y \in Nat
  OBVIOUS
<1>2. a * x <= b * x
  <2>1. b * x = a * x + (b - a) * x /\ (b - a) * x \in Nat
    OBVIOUS
  <2>2. QED
    BY <1>1, <2>1
<1>3. b * x <= b * y
  <2>1. b * y = b * x + b * (y - x) /\ b * (y - x) \in Nat
    OBVIOUS
  <2>2. QED
    BY <1>1, <2>1
<1>4. QED
  BY <1>1, <1>2, <1>3

Powers(w, b, k) == Iterates(w, Nat, 1, [x \in Nat |-> b * x], 0, k)

LEMMA PowerUnfolds ==
  ASSUME NEW b \in Nat, NEW k \in Nat
  PROVE  \E w : Powers(w, b, k) /\ Power(b, k) = w[k]
<1> DEFINE step == [x \in Nat |-> b * x]
           Rec(w) == w = [i \in 0 .. k |-> IF i = 0 THEN 1 ELSE b * w[i - 1]]
<1>1. 1 \in Nat /\ step \in [Nat -> Nat]
  OBVIOUS
<1>2. PICK f : Iterates(f, Nat, 1, step, 0, k)
  <2> HIDE DEF step
  <2>1. QED
    BY <1>1, RecursionExists
<1>3. Rec(f)
  <2>1. ASSUME NEW i \in 0 .. k
        PROVE  f[i] = IF i = 0 THEN 1 ELSE b * f[i - 1]
    <3>1. CASE i = 0
      BY <1>2, <3>1 DEF Iterates
    <3>2. CASE i # 0
      <4>1. i - 1 \in 0 .. k
        BY <3>2
      <4>2. f[i - 1] \in Nat /\ f[i] = step[f[i - 1]]
        <5> HIDE DEF step
        <5>1. QED
          BY <1>2, <3>2, <4>1 DEF Iterates
      <4>3. QED
        BY <3>2, <4>2
    <3>3. QED
      BY <3>1, <3>2
  <2>2. f = [i \in 0 .. k |-> f[i]]
    BY <1>2 DEF Iterates
  <2>3. QED
    BY <2>1, <2>2
<1> DEFINE w == CHOOSE x : Rec(x)
<1>4. Rec(w)
  <2> HIDE DEF Rec
  <2>1. QED
    BY <1>3
<1>5. Power(b, k) = w[k]
  BY DEF Power
<1>6. Iterates(w, Nat, 1, step, 0, k)
  <2> HIDE DEF w
  <2>1. w = [i \in 0 .. k |-> w[i]] /\ w[0] = 1
    BY <1>4
  <2>2. ASSUME NEW i \in 0 .. k, i # 0, w[i - 1] \in Nat PROVE w[i] = step[w[i - 1]]
    <3>1. w[i] = b * w[i - 1]
      BY <1>4, <2>2
    <3>2. QED
      BY <2>2, <3>1
  <2> HIDE DEF step, Rec
  <2>3. QED
    BY <1>1, <2>1, <2>2, RecursionTyped
<1>7. QED
  BY <1>5, <1>6 DEF Powers

LEMMA PowerMonotone ==
  ASSUME NEW a \in Nat, NEW b \in Nat, a <= b, NEW k \in Nat
  PROVE  Power(a, k) \in Nat /\ Power(b, k) \in Nat /\ Power(a, k) <= Power(b, k)
<1>1. PICK v : Powers(v, a, k) /\ Power(a, k) = v[k]
  BY PowerUnfolds
<1>2. PICK w : Powers(w, b, k) /\ Power(b, k) = w[k]
  BY PowerUnfolds
<1>3. /\ \A i \in 0 .. k : v[i] \in Nat /\ w[i] \in Nat
      /\ v[0] = 1 /\ w[0] = 1
      /\ \A i \in 0 .. k : i # 0 => v[i] = a * v[i - 1] /\ w[i] = b * w[i - 1]
  <2> DEFINE byA == [x \in Nat |-> a * x]
             byB == [x \in Nat |-> b * x]
  <2>1. /\ v \in [0 .. k -> Nat] /\ w \in [0 .. k -> Nat] /\ v[0] = 1 /\ w[0] = 1
        /\ \A i \in 0 .. k : i # 0 => v[i] = byA[v[i - 1]] /\ w[i] = byB[w[i - 1]]
    <3>1. Iterates(v, Nat, 1, byA, 0, k) /\ Iterates(w, Nat, 1, byB, 0, k)
      BY <1>1, <1>2 DEF Powers
    <3> HIDE DEF byA, byB
    <3>2. QED
      BY <3>1 DEF Iterates
  <2>2. \A i \in 0 .. k : i # 0 => i - 1 \in 0 .. k
    OBVIOUS
  <2>3. \A i \in 0 .. k : v[i] \in Nat /\ w[i] \in Nat
    BY <2>1
  <2>4. QED
    BY <2>1, <2>2, <2>3
<1> DEFINE Good == {n \in Nat : n <= k => v[n] <= w[n]}
<1>4. 0 \in Good
  BY <1>3
<1>5. ASSUME NEW n \in Nat, n \in Good PROVE n + 1 \in Good
  <2>1. SUFFICES ASSUME n + 1 <= k PROVE v[n + 1] <= w[n + 1]
    OBVIOUS
  <2>2. n \in 0 .. k /\ n + 1 \in 0 .. k /\ n + 1 # 0 /\ (n + 1) - 1 = n /\ n <= k
    BY <2>1
  <2>3. v[n] <= w[n] /\ v[n] \in Nat /\ w[n] \in Nat
    BY <1>3, <1>5, <2>2
  <2>4. v[n + 1] = a * v[n] /\ w[n + 1] = b * w[n]
    BY <1>3, <2>2
  <2>5. a * v[n] <= b * w[n]
    BY <2>3, TimesMonotone
  <2>6. QED
    BY <2>4, <2>5
<1>6. \A n \in Nat : n \in Good
  <2> HIDE DEF Good
  <2>1. QED
    BY <1>4, <1>5, NatSetInduction
<1>7. v[k] <= w[k] /\ v[k] \in Nat /\ w[k] \in Nat
  BY <1>3, <1>6
<1>8. QED
  BY <1>1, <1>2, <1>7

(* What has faded although its topic came back has faded.                  *)
LEMMA FadedWithoutTopic ==
  ASSUME NEW turns \in Nat, NEW similarity \in 0 .. 10, ~WeightExceeds(30, turns, similarity)
  PROVE  ~WeightExceeds(30, turns, 0)
<1> DEFINE A == Power(30 - 2 * similarity, HalfLife)
           B == Power(30 - 2 * 0, HalfLife)
           C == Power(2, turns)
           D == Power(100, HalfLife)
<1>1. 30 - 2 * similarity \in Nat /\ 30 - 2 * 0 \in Nat /\ 30 - 2 * similarity <= 30 - 2 * 0
  OBVIOUS
<1>2. HalfLife \in Nat
  BY SessionsAssumption
<1>3. A \in Nat /\ B \in Nat /\ A <= B
  BY <1>1, <1>2, PowerMonotone
<1>4. C \in Nat /\ D \in Nat
  <2>1. 2 \in Nat /\ 2 <= 2 /\ 100 \in Nat /\ 100 <= 100
    OBVIOUS
  <2>2. Power(2, turns) \in Nat
    BY <2>1, PowerMonotone
  <2>3. Power(100, HalfLife) \in Nat
    BY <1>2, <2>1, PowerMonotone
  <2>4. QED
    BY <2>2, <2>3
<1>5. ~(D > A * C)
  BY DEF WeightExceeds
<1> HIDE DEF A, B, C, D
<1>6. A * C \in Nat /\ B * C \in Nat /\ A * C <= B * C
  BY <1>3, <1>4, TimesMonotone
<1>7. ~(D > B * C)
  BY <1>4, <1>5, <1>6
<1>8. QED
  BY <1>7 DEF WeightExceeds, B, C, D

(***************************************************************************)
(* What a window knows of what was sent.                                   *)
(***************************************************************************)

LEMMA NewSessionKnows == KnowsWhatWasSent(NewSession, [n \in Nodes |-> 0])
  BY DEF KnowsWhatWasSent, NewSession

LEMMA PersistedKnows ==
  ASSUME NEW session \in Session, NEW row, row = Persisted(session), NEW turns,
         KnowsWhatWasSent(session, turns)
  PROVE  KnowsWhatWasSent(row, turns)
<1>1. row.at = session.at
  BY DEF Persisted, Session
<1>2. Entries(row) = Entries(session)
  BY <1>1 DEF Entries
<1>3. QED
  BY <1>1, <1>2 DEF KnowsWhatWasSent

LEMMA MoreEntries ==
  ASSUME NEW S \in SUBSET Nodes, NEW T \in SUBSET Nodes, S \subseteq T
  PROVE  Cardinality(S) \in Nat /\ Cardinality(T) \in Nat /\ Cardinality(S) <= Cardinality(T)
<1>1. IsFiniteSet(T)
  BY FeedbackAssumption, FS_Subset
<1>2. QED
  BY <1>1, FS_Subset, FS_CardinalityType

LEMMA RecordKnows ==
  ASSUME NEW session \in Session, WindowFollowsHistory(session), NEW ns \in SUBSET Nodes,
         NEW recorded, Recorded(session, ns, recorded),
         NEW turns \in [Nodes -> Nat], KnowsWhatWasSent(session, turns)
  PROVE  KnowsWhatWasSent(recorded, [n \in Nodes |-> IF n \in ns THEN CurrentTurn(session) + 1
                                                     ELSE turns[n]])
<1> DEFINE turn == CurrentTurn(session) + 1
           later == [n \in Nodes |-> IF n \in ns THEN turn ELSE turns[n]]
<1>1. /\ turn \in Nat \ {0} /\ session.at \in [Nodes -> Nat]
      /\ \A n \in Nodes : session.at[n] <= turn
  BY SessionParts DEF WindowFollowsHistory
<1>2. recorded.at = [n \in Nodes |-> IF n \in ns THEN turn ELSE session.at[n]]
  BY DEF Recorded
<1> HIDE DEF turn
<1>3. Entries(session) \subseteq Entries(recorded)
  BY <1>1, <1>2 DEF Entries
<1>4. MaxContext \in Nat \ {0}
  BY SessionsAssumption
<1>5. /\ Cardinality(Entries(session)) \in Nat /\ Cardinality(Entries(recorded)) \in Nat
      /\ Cardinality(Entries(session)) <= Cardinality(Entries(recorded))
  <2>1. Entries(session) \in SUBSET Nodes /\ Entries(recorded) \in SUBSET Nodes
    BY DEF Entries
  <2>2. QED
    BY <1>3, <2>1, MoreEntries
<1>6. ASSUME NEW n \in Nodes
      PROVE  \/ recorded.at[n] = later[n]
             \/ /\ recorded.at[n] = 0
                /\ Cardinality(Entries(recorded)) >= MaxContext
                /\ \A m \in Entries(recorded) : recorded.at[m] >= later[n]
  <2>1. CASE n \in ns \/ session.at[n] = turns[n]
    BY <1>2, <2>1
  <2>2. CASE n \notin ns /\ session.at[n] # turns[n]
    <3>1. /\ session.at[n] = 0 /\ Cardinality(Entries(session)) >= MaxContext
          /\ \A m \in Entries(session) : session.at[m] >= turns[n]
      BY <2>2 DEF KnowsWhatWasSent
    <3>2. PICK k \in Entries(session) : TRUE
      <4>1. Entries(session) # {}
        BY <1>4, <3>1, FS_EmptySet
      <4>2. QED
        BY <4>1
    <3>3. turns[n] <= turn
      <4>1. k \in Nodes /\ session.at[k] >= turns[n]
        BY <3>1, <3>2 DEF Entries
      <4>2. QED
        BY <1>1, <4>1
    <3>4. recorded.at[n] = 0 /\ later[n] = turns[n]
      BY <1>2, <2>2, <3>1
    <3>5. Cardinality(Entries(recorded)) >= MaxContext
      BY <1>4, <1>5, <3>1
    <3>6. ASSUME NEW m \in Entries(recorded) PROVE recorded.at[m] >= turns[n]
      <4>1. m \in Nodes /\ recorded.at[m] # 0
        BY DEF Entries
      <4>2. CASE m \in ns
        BY <1>2, <3>3, <4>1, <4>2, <1>1
      <4>3. CASE m \notin ns
        <5>1. recorded.at[m] = session.at[m]
          BY <1>2, <4>1, <4>3
        <5>2. m \in Entries(session)
          BY <4>1, <5>1 DEF Entries
        <5>3. QED
          BY <3>1, <5>1, <5>2
      <4>4. QED
        BY <4>2, <4>3
    <3>7. QED
      BY <3>4, <3>5, <3>6
  <2>3. QED
    BY <2>1, <2>2
<1> HIDE DEF later
<1>7. KnowsWhatWasSent(recorded, later)
  BY <1>6 DEF KnowsWhatWasSent
<1>8. QED
  BY <1>7 DEF later, turn

LEMMA PruneKnows ==
  ASSUME NEW session \in Session, NEW keep \in NewestEntries(session),
         NEW pruned, Pruned(session, keep, pruned),
         NEW turns \in [Nodes -> Nat], KnowsWhatWasSent(session, turns)
  PROVE  KnowsWhatWasSent(pruned, turns)
<1>1. session.at \in [Nodes -> Nat] /\ MaxContext \in Nat
  BY SessionParts, SessionsAssumption
<1>2. pruned.at = [n \in Nodes |-> IF n \in keep THEN session.at[n] ELSE 0]
  BY DEF Pruned
<1>3. /\ keep \in SUBSET Entries(session)
      /\ IF Cardinality(Entries(session)) > MaxContext THEN Cardinality(keep) = MaxContext
         ELSE keep = Entries(session)
      /\ \A k \in keep, d \in Entries(session) \ keep : session.at[d] <= session.at[k]
  BY DEF NewestEntries
<1>4. Entries(session) \in SUBSET Nodes
  BY DEF Entries
<1>5. Entries(pruned) = keep
  BY <1>2, <1>3, <1>4 DEF Entries
<1>6. Cardinality(keep) \in Nat /\ Cardinality(Entries(session)) \in Nat
  BY <1>3, <1>4, MoreEntries
<1>7. ASSUME NEW n \in Nodes
      PROVE  \/ pruned.at[n] = turns[n]
             \/ /\ pruned.at[n] = 0
                /\ Cardinality(keep) >= MaxContext
                /\ \A m \in keep : pruned.at[m] >= turns[n]
  <2>1. CASE session.at[n] = turns[n] /\ n \in keep
    BY <1>2, <2>1
  <2>2. CASE session.at[n] = turns[n] /\ session.at[n] = 0
    BY <1>2, <2>2
  <2>3. CASE session.at[n] = turns[n] /\ session.at[n] # 0 /\ n \notin keep
    <3>1. n \in Entries(session) \ keep
      BY <2>3 DEF Entries
    <3>2. Cardinality(keep) = MaxContext
      BY <1>3, <3>1
    <3>3. \A m \in keep : pruned.at[m] >= turns[n]
      BY <1>1, <1>2, <1>3, <1>4, <2>3, <3>1
    <3>4. QED
      BY <1>1, <1>2, <2>3, <3>2, <3>3
  <2>4. CASE session.at[n] # turns[n]
    <3>1. /\ session.at[n] = 0 /\ Cardinality(Entries(session)) >= MaxContext
          /\ \A m \in Entries(session) : session.at[m] >= turns[n]
      BY <2>4 DEF KnowsWhatWasSent
    <3>2. Cardinality(keep) >= MaxContext
      BY <1>1, <1>3, <1>6, <3>1
    <3>3. \A m \in keep : pruned.at[m] >= turns[n]
      BY <1>2, <1>3, <1>4, <3>1
    <3>4. QED
      BY <1>2, <3>1, <3>2, <3>3
  <2>5. QED
    BY <2>1, <2>2, <2>3, <2>4
<1>8. QED
  BY <1>5, <1>7 DEF KnowsWhatWasSent

LEMMA SimilarityInTenths ==
  ASSUME NEW t \in Topic, NEW u \in Topic PROVE TopicSimilarity(t, u) \in 0 .. 10
<1>1. CASE NoTopic \in {t, u}
  <2>1. TopicSimilarity(t, u) = 0
    BY <1>1, Zenon DEF TopicSimilarity
  <2>2. QED
    BY <2>1
<1>2. CASE NoTopic \notin {t, u}
  <2>1. <<t, u>> \in Topics \X Topics
    BY <1>2 DEF Topic
  <2>2. Similarity[<<t, u>>] \in 0 .. 10
    BY <2>1, SessionsAssumption
  <2>3. QED
    BY <1>2, <2>2, Zenon DEF TopicSimilarity
<1>3. QED
  BY <1>1, <1>2

(* When a node may be sent with its code again.                            *)
Forgotten(n, turns, count) ==
  \/ turns[n] = 0
  \/ ~WeightExceeds(30, count - turns[n], 0)
  \/ Cardinality({m \in Nodes \ {n} : turns[m] >= turns[n]}) >= MaxContext

(* A node that the window does not remember above 0.3 is one of those.     *)
LEMMA UnrememberedIsForgotten ==
  ASSUME NEW session \in Session, WindowFollowsHistory(session), NEW turns \in [Nodes -> Nat],
         KnowsWhatWasSent(session, turns), NEW nodes \in SUBSET Nodes, NEW t \in Topic,
         NEW n \in nodes, n \notin Remembered(30, nodes, session, t)
  PROVE  Forgotten(n, turns, CurrentTurn(session))
<1>1. /\ session.at \in [Nodes -> Nat] /\ session.about \in [Nodes -> Topic]
      /\ CurrentTurn(session) \in Nat /\ n \in Nodes /\ MaxContext \in Nat
  BY SessionParts, SessionsAssumption
<1>2. CASE session.at[n] = turns[n] /\ turns[n] # 0
  <2> DEFINE gone == CurrentTurn(session) - session.at[n]
             similarity == TopicSimilarity(t, session.about[n])
  <2>1. ~WeightExceeds(30, gone, similarity)
    BY <1>2 DEF Remembered
  <2>2. gone \in Nat
    <3>1. session.at[n] <= CurrentTurn(session) /\ session.at[n] \in Nat
      BY <1>1 DEF WindowFollowsHistory
    <3>2. QED
      BY <1>1, <3>1
  <2>3. similarity \in 0 .. 10
    BY <1>1, SimilarityInTenths
  <2>4. gone = CurrentTurn(session) - turns[n]
    BY <1>2
  <2> HIDE DEF gone, similarity
  <2>5. ~WeightExceeds(30, gone, 0)
    BY <2>1, <2>2, <2>3, FadedWithoutTopic
  <2>6. QED
    BY <2>4, <2>5 DEF Forgotten
<1>3. CASE session.at[n] # turns[n]
  <2> DEFINE later == {m \in Nodes \ {n} : turns[m] >= turns[n]}
  <2>1. /\ session.at[n] = 0 /\ Cardinality(Entries(session)) >= MaxContext
        /\ \A m \in Entries(session) : session.at[m] >= turns[n]
    BY <1>1, <1>3 DEF KnowsWhatWasSent
  <2>2. Entries(session) \subseteq later
    <3> SUFFICES ASSUME NEW m \in Entries(session) PROVE m \in later
      OBVIOUS
    <3>1. m \in Nodes /\ session.at[m] # 0
      BY DEF Entries
    <3>2. session.at[m] = turns[m]
      BY <3>1 DEF KnowsWhatWasSent
    <3>3. QED
      BY <2>1, <3>1, <3>2
  <2>3. /\ Cardinality(Entries(session)) \in Nat /\ Cardinality(later) \in Nat
        /\ Cardinality(Entries(session)) <= Cardinality(later)
    <3>1. Entries(session) \in SUBSET Nodes /\ later \in SUBSET Nodes
      BY DEF Entries
    <3> HIDE DEF later
    <3>2. QED
      BY <2>2, <3>1, MoreEntries
  <2> HIDE DEF later
  <2>4. Cardinality(later) >= MaxContext
    BY <1>1, <2>1, <2>3
  <2>5. QED
    BY <2>4 DEF Forgotten, later
<1>4. QED
  BY <1>2, <1>3 DEF Forgotten

(***************************************************************************)
(* Every action keeps ResendInv, session by session.                       *)
(***************************************************************************)

Known(r) ==
  /\ IF store[r] = NoSession THEN lastTurn[r] = [n \in Nodes |-> 0]
     ELSE KnowsWhatWasSent(store[r], lastTurn[r])
  /\ \A p \in Busy(r) :
       /\ KnowsWhatWasSent(copy[p], IF pc[p] = "save" THEN Delivered(p) ELSE lastTurn[r])
       /\ pc[p] = "save" => \A n \in full[p] : Forgotten(n, lastTurn[r], answers[r])

LEMMA ResendKnown ==
  ASSUME ResendInv, NEW r \in SessionIds \ overlapped PROVE Known(r)
<1>1. ASSUME NEW p \in Busy(r), pc[p] = "save", NEW n \in full[p]
      PROVE  Forgotten(n, lastTurn[r], answers[r])
  BY <1>1 DEF ResendInv, NoEarlyResend, Busy, Forgotten
<1>2. QED
  BY <1>1 DEF Known, ResendInv, WindowsCurrent

LEMMA KnownResend ==
  ASSUME sid' \in [Procs -> SessionIds], \A r \in SessionIds \ overlapped' : Known(r)'
  PROVE  ResendInv'
<1>1. WindowsCurrent'
  BY DEF Known, WindowsCurrent
<1>2. ASSUME NEW r \in SessionIds \ overlapped', NEW p \in Procs, pc'[p] = "save", sid'[p] = r,
             NEW n \in full'[p]
      PROVE  Forgotten(n, lastTurn'[r], answers'[r])
  <2>1. p \in Busy(r)'
    BY <1>2 DEF Busy
  <2>2. QED
    BY <1>2, <2>1 DEF Known
<1>3. NoEarlyResend'
  BY <1>2 DEF NoEarlyResend, Forgotten
<1>4. QED
  BY <1>1, <1>3 DEF ResendInv

(* A session that a step leaves alone, and its requests.                   *)
LEMMA StaysKnown ==
  ASSUME NEW r, Known(r), store'[r] = store[r], lastTurn'[r] = lastTurn[r],
         answers'[r] = answers[r], Busy(r)' = Busy(r),
         \A q \in Busy(r) : /\ pc'[q] = pc[q] /\ copy'[q] = copy[q] /\ sid'[q] = sid[q]
                            /\ full'[q] = full[q] /\ brief'[q] = brief[q]
  PROVE  Known(r)'
<1>1. \A q \in Busy(r) : sid[q] = r
  BY DEF Busy
<1>2. \A q \in Busy(r) : Delivered(q)' = Delivered(q)
  BY <1>1 DEF Delivered, Answer
<1>3. QED
  BY <1>2 DEF Known

LEMMA InitResend == Init => ResendInv
<1> SUFFICES ASSUME Init PROVE ResendInv
  OBVIOUS
<1>1. \A s \in SessionIds : Busy(s) = {}
  BY DEF Init, Busy
<1>2. WindowsCurrent
  BY <1>1 DEF Init, WindowsCurrent
<1>3. NoEarlyResend
  BY DEF Init, NoEarlyResend
<1>4. QED
  BY <1>2, <1>3 DEF ResendInv

LEMMA LoadResend ==
  ASSUME SessionsInv, ResendInv, NEW p \in Procs, NEW s \in SessionIds, NEW nodes \in Bundles,
         NEW t \in Topic, Load(p, s, nodes, t)
  PROVE  ResendInv'
<1> DEFINE row == IF store[s] = NoSession THEN NewSession ELSE store[s]
           step == IF store[s] = NoSession THEN "create" ELSE "apply"
<1>1. /\ pc[p] = "idle" /\ copy' = [copy EXCEPT ![p] = row] /\ pc' = [pc EXCEPT ![p] = step]
      /\ sid' = [sid EXCEPT ![p] = s]
      /\ overlapped' = IF Busy(s) = {} THEN overlapped ELSE overlapped \cup {s}
      /\ UNCHANGED <<store, full, brief, lastTurn, answers>>
  BY DEF Load
<1>2. step \in {"create", "apply"}
  OBVIOUS
<1> HIDE DEF step
<1>3. ASSUME NEW r \in SessionIds \ overlapped' PROVE Known(r)'
  <2>1. r \in SessionIds \ overlapped /\ (r = s => Busy(s) = {})
    BY <1>1
  <2>2. Known(r)
    BY <2>1, ResendKnown
  <2>3. CASE r = s
    <3>1. Busy(r)' = {p}
      BY <1>1, <1>2, <2>1, <2>3, Types DEF Busy
    <3>2. KnowsWhatWasSent(row, lastTurn[r])
      BY <2>2, <2>3, NewSessionKnows DEF Known
    <3>3. pc'[p] = step /\ copy'[p] = row /\ step # "save"
      BY <1>1, <1>2, Types
    <3> HIDE DEF row
    <3>4. QED
      BY <1>1, <2>2, <3>1, <3>2, <3>3 DEF Known
  <2>4. CASE r # s
    <3>1. Busy(r)' = Busy(r) /\ p \notin Busy(r)
      BY <1>1, <1>2, <2>4, Types DEF Busy
    <3>2. \A q \in Busy(r) : pc'[q] = pc[q] /\ copy'[q] = copy[q] /\ sid'[q] = sid[q]
      BY <1>1, <3>1, Types DEF Busy
    <3>3. QED
      BY <1>1, <2>2, <3>1, <3>2, StaysKnown
  <2>5. QED
    BY <2>3, <2>4
<1>4. sid' \in [Procs -> SessionIds]
  BY <1>1, Types
<1>5. QED
  BY <1>3, <1>4, KnownResend

LEMMA CreateResend ==
  ASSUME SessionsInv, ResendInv, NEW p \in Procs, Create(p) PROVE ResendInv'
<1> DEFINE s == sid[p]
<1>1. /\ pc[p] = "create" /\ store' = [store EXCEPT ![s] = NewSession]
      /\ pc' = [pc EXCEPT ![p] = "apply"]
      /\ UNCHANGED <<sid, copy, full, brief, lastTurn, answers, overlapped>>
  BY DEF Create, local, history
<1>2. s \in SessionIds
  BY Types
<1> HIDE DEF s
<1>3. ASSUME NEW r \in SessionIds \ overlapped PROVE Known(r)'
  <2>1. Known(r)
    BY ResendKnown
  <2>2. Busy(r)' = Busy(r)
    BY <1>1, OthersBusy
  <2>3. CASE r = s
    <3>1. p \in Busy(r)
      BY <1>1, <2>3 DEF Busy, s
    <3>2. Busy(r) = {p} /\ store[r] = NoSession
      BY <1>1, <3>1 DEF SessionsInv, TurnsCounted
    <3>3. store'[r] = NewSession /\ pc'[p] = "apply"
      BY <1>1, <1>2, <2>3, Types
    <3>4. KnowsWhatWasSent(NewSession, lastTurn[r]) /\ KnowsWhatWasSent(copy[p], lastTurn[r])
      BY <1>1, <2>1, <3>1, <3>2, NewSessionKnows DEF Known
    <3>5. QED
      BY <1>1, <2>2, <3>2, <3>3, <3>4, Types DEF Known
  <2>4. CASE r # s
    <3>1. store'[r] = store[r]
      BY <1>1, <1>2, <2>4, Types
    <3>2. \A q \in Busy(r) : pc'[q] = pc[q]
      BY <1>1, <2>4, Types DEF Busy, s
    <3>3. QED
      BY <1>1, <2>1, <2>2, <3>1, <3>2, StaysKnown
  <2>5. QED
    BY <2>3, <2>4
<1>4. QED
  BY <1>1, <1>3, Types, KnownResend

LEMMA ApplyResend ==
  ASSUME SessionsInv, ResendInv, NEW p \in Procs, Apply(p) PROVE ResendInv'
<1> DEFINE s == sid[p]
           fading == Fading(found[p], copy[p], topic[p])
           fresh == (found[p] \ Omitted(found[p], copy[p], topic[p])) \ fading
           code == fresh \ Oversized
           summaries == fading \cup (fresh \cap Oversized \cap Summarised)
           recorded == RecordQuery(copy[p], code \cup summaries, topic[p])
           later == [n \in Nodes |-> IF n \in code \cup summaries THEN CurrentTurn(copy[p]) + 1
                                     ELSE lastTurn[s][n]]
<1>1. /\ pc[p] = "apply" /\ pc' = [pc EXCEPT ![p] = "save"]
      /\ full' = [full EXCEPT ![p] = code] /\ brief' = [brief EXCEPT ![p] = summaries]
      /\ \E keep \in NewestEntries(recorded) : copy' = [copy EXCEPT ![p] = Prune(recorded, keep)]
      /\ UNCHANGED <<store, sid, lastTurn, answers, overlapped>>
  BY DEF Apply, history
<1>2. s \in SessionIds /\ found[p] \in SUBSET Nodes /\ topic[p] \in Topic
      /\ copy[p] \in Session /\ SessionOK(copy[p])
  BY Types DEF SessionsInv, SessionsOK
<1>3. code \in SUBSET Nodes /\ summaries \in SUBSET Nodes
  BY <1>2 DEF Fading, Remembered
<1>4. ASSUME NEW n \in code
      PROVE  n \in found[p] /\ n \notin Remembered(30, found[p], copy[p], topic[p])
  BY DEF Fading
<1> HIDE DEF s, code, summaries
<1>5. Recorded(copy[p], code \cup summaries, recorded)
  BY <1>2, <1>3, RecordQueryResult
<1> HIDE DEF recorded
<1>6. PICK keep \in NewestEntries(recorded) : copy' = [copy EXCEPT ![p] = Prune(recorded, keep)]
  BY <1>1
<1> DEFINE pruned == Prune(recorded, keep)
<1>7. recorded \in Session /\ Pruned(recorded, keep, pruned)
  BY <1>5, PruneResult DEF Recorded
<1>8. copy' = [copy EXCEPT ![p] = pruned]
  BY <1>6
<1> HIDE DEF pruned
<1>9. lastTurn[s] \in [Nodes -> Nat]
  BY <1>2 DEF SessionsInv, TypeOK
<1>10. pc'[p] = "save" /\ copy'[p] = pruned /\ full'[p] = code /\ brief'[p] = summaries
  BY <1>1, <1>8, Types
<1>11. ASSUME NEW r \in SessionIds \ overlapped PROVE Known(r)'
  <2>1. Known(r)
    BY ResendKnown
  <2>2. Busy(r)' = Busy(r)
    BY <1>1, OthersBusy
  <2>3. CASE r = s
    <3>1. p \in Busy(r)
      BY <1>1, <2>3 DEF Busy, s
    <3>2. Busy(r) = {p} /\ store[r] # NoSession /\ CurrentTurn(copy[p]) = answers[r]
      BY <1>1, <3>1 DEF SessionsInv, TurnsCounted
    <3>3. KnowsWhatWasSent(copy[p], lastTurn[r])
      BY <1>1, <2>1, <3>1 DEF Known
    <3>4. KnowsWhatWasSent(recorded, later)
      BY <1>2, <1>3, <1>5, <1>9, <2>3, <3>3, RecordKnows DEF SessionOK
    <3>5. later \in [Nodes -> Nat]
      <4>1. CurrentTurn(copy[p]) \in Nat
        BY <1>2, SessionParts
      <4>2. QED
        BY <1>9, <4>1
    <3>6. Delivered(p)' = later
      <4>1. CurrentTurn(pruned) = CurrentTurn(copy[p]) + 1
        BY <1>5, <1>7 DEF Recorded, Pruned
      <4>2. QED
        BY <1>1, <1>10, <4>1 DEF Delivered, Answer, s
    <3> HIDE DEF later
    <3>7. KnowsWhatWasSent(pruned, later)
      BY <1>6, <1>7, <3>4, <3>5, PruneKnows
    <3>8. ASSUME NEW n \in code PROVE Forgotten(n, lastTurn[r], answers[r])
      BY <1>2, <1>4, <1>9, <2>3, <3>2, <3>3, UnrememberedIsForgotten DEF SessionOK
    <3>9. QED
      BY <1>1, <1>10, <2>1, <2>2, <3>2, <3>6, <3>7, <3>8 DEF Known
  <2>4. CASE r # s
    <3>1. \A q \in Busy(r) : /\ pc'[q] = pc[q] /\ copy'[q] = copy[q]
                             /\ full'[q] = full[q] /\ brief'[q] = brief[q]
      BY <1>1, <1>8, <2>4, Types DEF Busy, s
    <3>2. QED
      BY <1>1, <2>1, <2>2, <3>1, StaysKnown
  <2>5. QED
    BY <2>3, <2>4
<1>12. QED
  BY <1>1, <1>11, Types, KnownResend

LEMMA SaveResend ==
  ASSUME SessionsInv, ResendInv, NEW p \in Procs, Save(p) PROVE ResendInv'
<1> DEFINE s == sid[p]
           row == Persisted(copy[p])
           turns == Delivered(p)
<1>1. /\ pc[p] = "save" /\ pc' = [pc EXCEPT ![p] = "send"]
      /\ store' = [store EXCEPT ![s] = row]
      /\ answers' = [answers EXCEPT ![s] = answers[s] + 1]
      /\ copy' = [copy EXCEPT ![p] = NewSession]
      /\ UNCHANGED <<sid, full, brief, overlapped>>
  BY Types DEF Save
<1>2. s \in SessionIds /\ copy[p] \in Session
  BY Types
<1>3. lastTurn \in [SessionIds -> [Nodes -> Nat]]
  BY DEF SessionsInv, TypeOK
<1>4. lastTurn' = [lastTurn EXCEPT ![s] = turns]
  BY <1>2, <1>3 DEF Save, Delivered
<1>5. row \in Session /\ row # NoSession
  BY <1>2, PersistedSame, NoSessionAssumption
<1> HIDE DEF s, row, turns
<1>6. ASSUME NEW r \in SessionIds \ overlapped PROVE Known(r)'
  <2>1. Known(r)
    BY ResendKnown
  <2>2. Busy(r)' = Busy(r) \ {p}
    BY <1>1, NotBusy
  <2>3. CASE r = s
    <3>1. p \in Busy(r)
      BY <1>1, <2>3 DEF Busy, s
    <3>2. Busy(r) = {p}
      BY <3>1 DEF SessionsInv, TurnsCounted
    <3>3. KnowsWhatWasSent(row, turns)
      <4>1. KnowsWhatWasSent(copy[p], turns)
        BY <1>1, <2>1, <3>1 DEF Known, turns
      <4>2. QED
        BY <1>2, <4>1, PersistedKnows DEF row
    <3>4. store'[r] = row /\ lastTurn'[r] = turns
      BY <1>1, <1>2, <1>3, <1>4, <2>3, Types
    <3>5. QED
      BY <1>5, <2>2, <3>2, <3>3, <3>4 DEF Known
  <2>4. CASE r # s
    <3>1. /\ store'[r] = store[r] /\ lastTurn'[r] = lastTurn[r] /\ answers'[r] = answers[r]
      BY <1>1, <1>2, <1>3, <1>4, <2>4, Types
    <3>2. p \notin Busy(r) /\ Busy(r)' = Busy(r)
      BY <2>2, <2>4 DEF Busy, s
    <3>3. \A q \in Busy(r) : /\ pc'[q] = pc[q] /\ copy'[q] = copy[q]
                             /\ full'[q] = full[q] /\ brief'[q] = brief[q]
      BY <1>1, <3>2, Types DEF Busy
    <3>4. QED
      BY <1>1, <2>1, <3>1, <3>2, <3>3, StaysKnown
  <2>5. QED
    BY <2>3, <2>4
<1>7. QED
  BY <1>1, <1>6, Types, KnownResend

(* A request that ends, its answer sent or lost.                           *)
LEMMA EndResend ==
  ASSUME SessionsInv, ResendInv, NEW p \in Procs,
         Send(p) \/ SaveFails(p) \/ SendFails(p) \/ Crash(p)
  PROVE  ResendInv'
<1>1. PICK step \in {"idle", "down"} :
        /\ pc' = [pc EXCEPT ![p] = step] /\ copy' = [copy EXCEPT ![p] = NewSession]
        /\ full' = [full EXCEPT ![p] = {}] /\ brief' = [brief EXCEPT ![p] = {}]
        /\ UNCHANGED <<store, sid, lastTurn, answers, overlapped>>
  BY DEF Send, SaveFails, SendFails, Crash, LosesAnswer, Forget
<1>2. ASSUME NEW r \in SessionIds \ overlapped PROVE Known(r)'
  <2>1. Known(r)
    BY ResendKnown
  <2>2. Busy(r)' = Busy(r) \ {p}
    BY <1>1, NotBusy
  <2>3. CASE p \in Busy(r)
    <3>1. Busy(r) = {p}
      BY <2>3 DEF SessionsInv, TurnsCounted
    <3>2. QED
      BY <1>1, <2>1, <2>2, <3>1 DEF Known
  <2>4. CASE p \notin Busy(r)
    <3>1. \A q \in Busy(r) : /\ pc'[q] = pc[q] /\ copy'[q] = copy[q]
                             /\ full'[q] = full[q] /\ brief'[q] = brief[q]
      BY <1>1, <2>4, Types DEF Busy
    <3>2. QED
      BY <1>1, <2>1, <2>2, <2>4, <3>1, StaysKnown
  <2>5. QED
    BY <2>3, <2>4
<1>3. QED
  BY <1>1, <1>2, Types, KnownResend

LEMMA StartResend ==
  ASSUME SessionsInv, ResendInv, NEW p \in Procs, Start(p) PROVE ResendInv'
<1>1. PICK old \in SUBSET {s \in SessionIds : store[s] # NoSession} :
        /\ store' = [s \in SessionIds |-> IF s \in old THEN NoSession ELSE store[s]]
        /\ lastTurn' = [s \in SessionIds |->
                          IF s \in old THEN [n \in Nodes |-> 0] ELSE lastTurn[s]]
        /\ answers' = [s \in SessionIds |-> IF s \in old THEN 0 ELSE answers[s]]
        /\ overlapped' = overlapped \cup {s \in old : Busy(s) # {}}
  BY DEF Start
<1>2. /\ pc[p] = "down" /\ pc' = [pc EXCEPT ![p] = "idle"]
      /\ UNCHANGED <<sid, copy, full, brief>>
  BY DEF Start, local
<1>3. \A r : Busy(r)' = Busy(r)
  BY <1>2, Types DEF Busy
<1>4. ASSUME NEW r \in SessionIds \ overlapped' PROVE Known(r)'
  <2>1. r \in SessionIds \ overlapped /\ (r \in old => Busy(r) = {})
    BY <1>1
  <2>2. Known(r)
    BY <2>1, ResendKnown
  <2>3. CASE r \in old
    BY <1>1, <1>3, <2>1, <2>3 DEF Known
  <2>4. CASE r \notin old
    <3>1. store'[r] = store[r] /\ lastTurn'[r] = lastTurn[r] /\ answers'[r] = answers[r]
      BY <1>1, <2>4
    <3>2. \A q \in Busy(r) : pc'[q] = pc[q]
      BY <1>2, Types DEF Busy
    <3>3. QED
      BY <1>2, <1>3, <2>2, <3>1, <3>2, StaysKnown
  <2>5. QED
    BY <2>3, <2>4
<1>5. QED
  BY <1>2, <1>4, Types, KnownResend

LEMMA NextResend == SessionsInv /\ ResendInv /\ [Next]_vars => ResendInv'
<1> SUFFICES ASSUME SessionsInv, ResendInv, [Next]_vars PROVE ResendInv'
  OBVIOUS
<1>1. ASSUME NEW p \in Procs, Request(p) PROVE ResendInv'
  BY <1>1, LoadResend, CreateResend, ApplyResend, SaveResend, EndResend DEF Request
<1>2. ASSUME UNCHANGED <<store, pc, sid, copy, full, brief, lastTurn, answers, overlapped>>
      PROVE  ResendInv'
  <2>1. \A r : Busy(r)' = Busy(r)
    BY <1>2 DEF Busy
  <2>2. \A r \in SessionIds \ overlapped' : Known(r)'
    BY <1>2, <2>1, ResendKnown, StaysKnown
  <2>3. QED
    BY <1>2, <2>2, Types, KnownResend
<1>3. ASSUME NEW p \in Procs, Judge(p) PROVE ResendInv'
  BY <1>2, <1>3 DEF Judge, local, history
<1>4. CASE UNCHANGED vars
  BY <1>2, <1>4 DEF vars, local, history
<1>5. QED
  BY <1>1, <1>3, <1>4, EndResend, StartResend DEF Next

(* Code that was sent is sent again only when its decay weight has fallen  *)
(* to 0.3 or max_context_entries other nodes were sent since: for every    *)
(* number of nodes, sessions and processes, and every size of the window.  *)
THEOREM ResendOnlyForgotten == Spec => []NoEarlyResend
<1>1. ResendInv => NoEarlyResend
  BY DEF ResendInv
<1>2. QED
  BY <1>1, InitResend, NextResend, SessionsInvariant, PTL DEF Spec

(* Whatever the system does, the feedback store makes a step of its own.   *)
LEMMA FeedbackSteps == SessionsInv /\ [Next]_vars => FeedbackStep
<1> SUFFICES ASSUME SessionsInv, [Next]_vars PROVE FeedbackStep
  OBVIOUS
<1>1. ASSUME NEW p \in Procs, Apply(p) PROVE FeedbackStep
  <2> DEFINE fading == Fading(found[p], copy[p], topic[p])
             fresh == (found[p] \ Omitted(found[p], copy[p], topic[p])) \ fading
             code == fresh \ Oversized
             summaries == fading \cup (fresh \cap Oversized \cap Summarised)
             recorded == RecordQuery(copy[p], code \cup summaries, topic[p])
  <2>1. RecordImplicit(p, recorded)
    BY <1>1 DEF Apply
  <2>2. code \in SUBSET Nodes /\ summaries \in SUBSET Nodes
    BY <1>1, Types DEF Fading, Remembered
  <2> HIDE DEF code, summaries
  <2>3. recorded \in Session
    BY <1>1, <2>2, Types, RecordQueryResult DEF Recorded
  <2> HIDE DEF recorded
  <2>4. QED
    BY <1>1, <2>1, <2>3, ImplicitSignal
<1>2. ASSUME NEW p \in Procs, Request(p) PROVE Apply(p) \/ UNCHANGED feedback
  BY <1>2 DEF Request, Load, Create, Save, SaveFails, Send, SendFails
<1>3. ASSUME NEW p \in Procs, Crash(p) \/ Start(p) PROVE FeedbackStep
  BY <1>3 DEF Crash, Start, FeedbackStep
<1>4. CASE UNCHANGED vars
  BY <1>4 DEF vars, FeedbackStep
<1>5. QED
  BY <1>1, <1>2, <1>3, <1>4, JudgeSignal DEF Next, FeedbackStep

(* The counts lie between what the signals whose record returned say and   *)
(* what all signals say, although a record that raised leaves part of its  *)
(* counts to the next transaction, lists repeat ids, signals expire, and   *)
(* processes die with a transaction open.                                  *)
THEOREM AggregatesAreSums == Spec => []AggregatesCountSignals
<1>1. Init => FeedbackInv
  BY FeedbackStart DEF Init
<1>2. SessionsInv /\ FeedbackInv /\ [Next]_vars => FeedbackInv'
  BY FeedbackSteps, FeedbackKept
<1>3. FeedbackInv => AggregatesCountSignals
  BY DEF FeedbackInv, AggregatesCountSignals
<1>4. QED
  BY <1>1, <1>2, <1>3, SessionsInvariant, PTL DEF Spec
=============================================================================
