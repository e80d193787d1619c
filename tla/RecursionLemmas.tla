-------------------------- MODULE RecursionLemmas --------------------------
(* Induction over the natural numbers, stated with a set instead of a      *)
(* predicate, and what it gives: a function defined by recursion on        *)
(* 0 .. k or 1 .. k exists, and finite sets are counted one at a time.     *)
EXTENDS Integers, FiniteSets, Functions, WellFoundedInduction, FiniteSetTheorems, TLAPS

LEMMA LeastNumber ==
  ASSUME NEW T \in SUBSET Nat, T # {}
  PROVE  \E m \in T : \A k \in T : m <= k
<1> DEFINE Below == {ss \in Nat \X Nat : ss[1] < ss[2]}
<1>1. PICK m \in T : \A y \in T : <<y, m>> \notin Below
  <2>1. IsWellFoundedOn(Below, Nat)
    BY NatLessThanWellFounded, Zenon DEF OpToRel
  <2> HIDE DEF Below
  <2>2. QED
    BY <2>1, WFMin
<1>2. ASSUME NEW k \in T PROVE m <= k
  <2>1. k \in Nat /\ m \in Nat /\ (k < m => <<k, m>> \in Below)
    OBVIOUS
  <2> HIDE DEF Below
  <2>2. ~ (k < m)
    BY <1>1, <2>1
  <2>3. QED
    BY <2>1, <2>2
<1>3. QED
  BY <1>2

LEMMA NatSetInduction ==
  ASSUME NEW S, 0 \in S, \A n \in Nat : n \in S => n + 1 \in S
  PROVE  \A n \in Nat : n \in S
<1> DEFINE T == Nat \ S
<1> SUFFICES ASSUME T # {} PROVE FALSE
  OBVIOUS
<1>1. PICK x \in T : \A k \in T : x <= k
  BY LeastNumber
<1>2. x # 0 /\ x - 1 \in Nat
  OBVIOUS
<1>3. x - 1 \in T
  <2>1. x - 1 \in S => (x - 1) + 1 \in S
    BY <1>2
  <2>2. QED
    BY <1>2, <2>1
<1>4. QED
  BY <1>1, <1>2, <1>3

(* What a function takes a finite set to is finite.                        *)
LEMMA ImageFinite ==
  ASSUME NEW f, IsFiniteSet(DOMAIN f), f = [x \in DOMAIN f |-> f[x]]
  PROVE  IsFiniteSet({f[x] : x \in DOMAIN f})
<1> DEFINE T == {f[x] : x \in DOMAIN f}
<1>1. f \in Surjection(DOMAIN f, T)
  BY DEF Surjection
<1>2. QED
  BY <1>1, FS_Surjection

(* f is the recursion over first .. last that starts with from and goes    *)
(* on with step.                                                           *)
Iterates(f, S, from, step, first, last) ==
  /\ f \in [first .. last -> S]
  /\ first <= last => f[first] = from
  /\ \A j \in first .. last : j # first => f[j] = step[f[j - 1]]

(* There is one, for every step on a set.                                  *)
LEMMA RecursionExists ==
  ASSUME NEW S, NEW from \in S, NEW step \in [S -> S], NEW first \in Nat, NEW last \in Nat
  PROVE  \E f : Iterates(f, S, from, step, first, last)
<1> DEFINE Runs(n) == \E f : Iterates(f, S, from, step, first, first + n)
           Good == {n \in Nat : Runs(n)}
<1>1. 0 \in Good
  <2>1. Iterates([j \in first .. first + 0 |-> from], S, from, step, first, first + 0)
    BY DEF Iterates
  <2>2. QED
    BY <2>1
<1>2. ASSUME NEW n \in Nat, n \in Good PROVE n + 1 \in Good
  <2>1. PICK f : Iterates(f, S, from, step, first, first + n)
    BY <1>2
  <2> DEFINE m == first + n
             g == [j \in first .. m + 1 |-> IF j <= m THEN f[j] ELSE step[f[m]]]
  <2>2. m \in Nat /\ m >= first
    OBVIOUS
  <2>3. /\ f \in [first .. m -> S] /\ f[first] = from
        /\ \A j \in first .. m : j # first => f[j] = step[f[j - 1]]
    BY <2>1, <2>2 DEF Iterates
  <2> HIDE DEF m
  <2>4. \A j \in first .. m + 1 : g[j] \in S
    <3>1. f[m] \in S /\ step[f[m]] \in S
      BY <2>2, <2>3
    <3>2. QED
      BY <2>2, <2>3, <3>1
  <2>5. g[first] = from
    BY <2>2, <2>3
  <2>6. ASSUME NEW j \in first .. m + 1, j # first PROVE g[j] = step[g[j - 1]]
    <3>1. CASE j <= m
      <4>1. g[j] = f[j] /\ g[j - 1] = f[j - 1]
        BY <2>2, <2>6, <3>1
      <4> HIDE DEF g
      <4>2. QED
        BY <2>3, <2>6, <3>1, <4>1
    <3>2. CASE ~ (j <= m)
      <4>1. j = m + 1 /\ j - 1 = m
        BY <2>2, <2>6, <3>2
      <4>2. g[j] = step[f[m]] /\ g[m] = f[m]
        BY <2>2, <4>1
      <4> HIDE DEF g
      <4>3. QED
        BY <4>1, <4>2
    <3>3. QED
      BY <3>1, <3>2
  <2>7. g \in [first .. m + 1 -> S]
    BY <2>4
  <2> HIDE DEF g
  <2>8. Iterates(g, S, from, step, first, m + 1)
    BY <2>5, <2>6, <2>7 DEF Iterates
  <2>9. m + 1 = first + (n + 1)
    BY DEF m
  <2>10. Runs(n + 1)
    BY <2>8, <2>9
  <2> HIDE DEF Runs
  <2>11. QED
    BY <2>10
<1>3. \A n \in Nat : n \in Good
  <2> HIDE DEF Good
  <2>1. QED
    BY <1>1, <1>2, NatSetInduction
<1>4. CASE first <= last
  <2>1. last - first \in Nat /\ first + (last - first) = last
    BY <1>4
  <2>2. Runs(last - first)
    BY <1>3, <2>1
  <2>3. QED
    BY <2>1, <2>2
<1>5. CASE ~ (first <= last)
  <2>1. first .. last = {}
    BY <1>5
  <2>2. [j \in first .. last |-> from] \in [first .. last -> S]
    OBVIOUS
  <2>3. Iterates([j \in first .. last |-> from], S, from, step, first, last)
    BY <1>5, <2>1, <2>2 DEF Iterates
  <2>4. QED
    BY <2>3
<1>6. QED
  BY <1>4, <1>5

(* Whatever satisfies the equations of the recursion is it.                *)
LEMMA RecursionTyped ==
  ASSUME NEW S, NEW from \in S, NEW step \in [S -> S], NEW first \in Nat, NEW last \in Nat,
         NEW w, w = [j \in first .. last |-> w[j]],
         first <= last => w[first] = from,
         \A j \in first .. last : j # first /\ w[j - 1] \in S => w[j] = step[w[j - 1]]
  PROVE  Iterates(w, S, from, step, first, last)
<1> DEFINE Good == {n \in Nat : first + n <= last => w[first + n] \in S}
<1>1. 0 \in Good
  OBVIOUS
<1>2. ASSUME NEW n \in Nat, n \in Good PROVE n + 1 \in Good
  <2>1. SUFFICES ASSUME first + (n + 1) <= last PROVE w[first + (n + 1)] \in S
    OBVIOUS
  <2>2. first + n <= last /\ w[first + n] \in S
    BY <1>2, <2>1
  <2> DEFINE j == first + (n + 1)
  <2>3. j \in first .. last /\ j # first /\ j - 1 = first + n
    BY <2>1
  <2>4. w[j] = step[w[j - 1]]
    <3> HIDE DEF j
    <3>1. QED
      BY <2>2, <2>3
  <2>5. QED
    BY <2>2, <2>3, <2>4
<1>3. \A n \in Nat : n \in Good
  <2> HIDE DEF Good
  <2>1. QED
    BY <1>1, <1>2, NatSetInduction
<1>4. \A j \in first .. last : w[j] \in S
  <2> SUFFICES ASSUME NEW j \in first .. last PROVE w[j] \in S
    OBVIOUS
  <2>1. j - first \in Nat /\ first + (j - first) = j
    OBVIOUS
  <2>2. first + (j - first) <= last => w[first + (j - first)] \in S
    BY <1>3, <2>1
  <2>3. QED
    BY <2>1, <2>2
<1>5. w \in [first .. last -> S]
  <2>1. [j \in first .. last |-> w[j]] \in [first .. last -> S]
    BY <1>4
  <2>2. QED
    BY <2>1
<1>6. \A j \in first .. last : j # first => w[j] = step[w[j - 1]]
  <2> SUFFICES ASSUME NEW j \in first .. last, j # first PROVE w[j] = step[w[j - 1]]
    OBVIOUS
  <2>1. j - 1 \in first .. last
    OBVIOUS
  <2>2. QED
    BY <1>4, <2>1
<1>7. QED
  BY <1>5, <1>6 DEF Iterates

(* Two runs of the same recursion agree as far as both go.                 *)
LEMMA RunsAgree ==
  ASSUME NEW S, NEW from \in S, NEW step \in [S -> S], NEW first \in Nat, NEW m \in Nat, NEW n \in Nat,
         NEW v, Iterates(v, S, from, step, first, m),
         NEW w, Iterates(w, S, from, step, first, n)
  PROVE  \A j \in Nat : j \in first .. m /\ j \in first .. n => v[j] = w[j]
<1> DEFINE Good == {k \in Nat : first + k <= m /\ first + k <= n => v[first + k] = w[first + k]}
<1>1. 0 \in Good
  BY DEF Iterates
<1>2. ASSUME NEW k \in Nat, k \in Good PROVE k + 1 \in Good
  <2>1. SUFFICES ASSUME first + (k + 1) <= m, first + (k + 1) <= n
                 PROVE  v[first + (k + 1)] = w[first + (k + 1)]
    OBVIOUS
  <2> DEFINE j == first + (k + 1)
  <2>2. /\ j \in first .. m /\ j \in first .. n /\ j # first /\ j - 1 = first + k
        /\ first + k <= m /\ first + k <= n
    BY <2>1
  <2>3. v[first + k] = w[first + k]
    BY <1>2, <2>2
  <2> HIDE DEF j, Good
  <2>4. v[j] = step[v[j - 1]] /\ w[j] = step[w[j - 1]]
    BY <2>2 DEF Iterates
  <2>5. v[j] = w[j]
    BY <2>2, <2>3, <2>4
  <2>6. QED
    BY <2>5 DEF j
<1>3. \A k \in Nat : k \in Good
  <2> HIDE DEF Good
  <2>1. QED
    BY <1>1, <1>2, NatSetInduction
<1>4. ASSUME NEW j \in Nat, j \in first .. m, j \in first .. n PROVE v[j] = w[j]
  <2>1. j - first \in Nat /\ first + (j - first) = j
    BY <1>4
  <2>2. first + (j - first) <= m /\ first + (j - first) <= n
          => v[first + (j - first)] = w[first + (j - first)]
    BY <1>3, <2>1
  <2>3. QED
    BY <1>4, <2>1, <2>2
<1>5. QED
  BY <1>4

(* Adding to a set of members of N again and again adds nothing any more   *)
(* after as many rounds as N has members.                                  *)
LEMMA Saturation ==
  ASSUME NEW N, IsFiniteSet(N), NEW S, S = SUBSET N, NEW from \in S, NEW step \in [S -> S],
         \A s \in S : s \subseteq step[s],
         NEW last \in Nat, Cardinality(N) <= last,
         NEW w, Iterates(w, S, from, step, 0, last)
  PROVE  step[w[last]] = w[last]
<1> DEFINE Good == {k \in Nat : k <= last => step[w[k]] = w[k] \/ Cardinality(w[k]) >= k}
<1>1. \A k \in Nat : k <= last => w[k] \in SUBSET N
  BY DEF Iterates
<1>2. \A k \in Nat : k <= last => IsFiniteSet(w[k]) /\ Cardinality(w[k]) \in Nat
  BY <1>1, FS_Subset, FS_CardinalityType
<1>3. 0 \in Good
  BY <1>2
<1>4. ASSUME NEW k \in Nat, k \in Good PROVE k + 1 \in Good
  <2>1. SUFFICES ASSUME k + 1 <= last
                 PROVE  step[w[k + 1]] = w[k + 1] \/ Cardinality(w[k + 1]) >= k + 1
    OBVIOUS
  <2>2. k <= last /\ k + 1 \in 0 .. last /\ k + 1 # 0 /\ (k + 1) - 1 = k
    BY <2>1
  <2>3. step[w[k]] = w[k] \/ Cardinality(w[k]) >= k
    BY <1>4, <2>2
  <2> HIDE DEF Good
  <2>4. w[k + 1] = step[w[k]]
    BY <2>2 DEF Iterates
  <2>5. CASE step[w[k]] = w[k]
    BY <2>4, <2>5
  <2>6. CASE step[w[k]] # w[k] /\ Cardinality(w[k]) >= k
    <3>1. w[k] \subseteq w[k + 1] /\ w[k] # w[k + 1]
      BY <1>1, <2>2, <2>4, <2>6
    <3>2. IsFiniteSet(w[k + 1])
      BY <1>2, <2>1
    <3>3. Cardinality(w[k]) <= Cardinality(w[k + 1]) /\ Cardinality(w[k]) # Cardinality(w[k + 1])
      BY <3>1, <3>2, <1>2, <2>2, <2>1, FS_Subset
    <3>4. QED
      BY <3>3, <2>6, <1>2, <2>1, <2>2
  <2>7. QED
    BY <2>3, <2>5, <2>6
<1>5. \A k \in Nat : k \in Good
  <2> HIDE DEF Good
  <2>1. QED
    BY <1>3, <1>4, NatSetInduction
<1>6. step[w[last]] = w[last] \/ Cardinality(w[last]) >= last
  BY <1>5
<1>7. CASE Cardinality(w[last]) >= last
  <2>1. w[last] \subseteq N /\ step[w[last]] \subseteq N /\ w[last] \subseteq step[w[last]]
    BY <1>1
  <2>2. Cardinality(N) \in Nat /\ Cardinality(w[last]) \in Nat
    BY <1>2, FS_CardinalityType
  <2>3. Cardinality(w[last]) <= Cardinality(N) /\ (w[last] # N => Cardinality(w[last]) # Cardinality(N))
    BY <2>1, <2>2, FS_Subset
  <2>4. w[last] = N
    BY <1>7, <2>2, <2>3
  <2>5. QED
    BY <2>1, <2>4
<1>8. QED
  BY <1>6, <1>7

(***************************************************************************)
(* Sums over finite sets.                                                  *)
(***************************************************************************)

Picked(s) == CHOOSE x \in s : TRUE
SumsTo(g, f, s) == IF s = {} THEN 0 ELSE f[Picked(s)] + g[s \ {Picked(s)}]

(* g sums f over the subsets of S, taking one element after the other.     *)
Sums(g, f, S) ==
  /\ g \in [SUBSET S -> Nat]
  /\ \A s \in SUBSET S : g[s] = SumsTo(g, f, s)

LEMMA WithoutOne ==
  ASSUME NEW s, IsFiniteSet(s), NEW x \in s
  PROVE  /\ IsFiniteSet(s \ {x}) /\ Cardinality(s) \in Nat \ {0}
         /\ Cardinality(s \ {x}) = Cardinality(s) - 1
<1>1. /\ IsFiniteSet(s \ {x}) /\ Cardinality(s) \in Nat
      /\ Cardinality(s \ {x}) = Cardinality(s) - 1
  BY FS_RemoveElement, FS_CardinalityType
<1>2. Cardinality(s) # 0
  BY FS_EmptySet
<1>3. QED
  BY <1>1, <1>2

LEMMA PickedIn == ASSUME NEW s, s # {} PROVE Picked(s) \in s
  BY DEF Picked

LEMMA SumsExist ==
  ASSUME NEW S, IsFiniteSet(S), NEW f \in [S -> Nat]
  PROVE  \E g : Sums(g, f, S)
<1> DEFINE Sub == SUBSET S
           Runs(n) == \E g \in [Sub -> Nat] : \A s \in Sub : Cardinality(s) <= n => g[s] = SumsTo(g, f, s)
           Good == {n \in Nat : Runs(n)}
<1>1. \A s \in Sub : IsFiniteSet(s) /\ Cardinality(s) \in Nat /\ Cardinality(s) <= Cardinality(S)
  BY FS_Subset, FS_CardinalityType
<1>2. 0 \in Good
  <2> DEFINE g == [s \in Sub |-> 0]
  <2>1. ASSUME NEW s \in Sub, Cardinality(s) <= 0 PROVE g[s] = SumsTo(g, f, s)
    <3>1. s = {}
      BY <1>1, <2>1, FS_EmptySet
    <3>2. QED
      BY <3>1 DEF SumsTo
  <2>2. g \in [Sub -> Nat]
    OBVIOUS
  <2>3. QED
    BY <2>1, <2>2
<1>3. ASSUME NEW n \in Nat, n \in Good PROVE n + 1 \in Good
  <2>1. PICK g \in [Sub -> Nat] : \A s \in Sub : Cardinality(s) <= n => g[s] = SumsTo(g, f, s)
    BY <1>3
  <2> DEFINE h == [s \in Sub |-> SumsTo(g, f, s)]
  <2> HIDE DEF Sub
  <2>2. ASSUME NEW s \in Sub PROVE SumsTo(g, f, s) \in Nat
    <3>1. CASE s # {}
      <4>1. Picked(s) \in s /\ s \ {Picked(s)} \in Sub /\ s \in SUBSET S
        BY <3>1, PickedIn DEF Sub
      <4>2. f[Picked(s)] \in Nat /\ g[s \ {Picked(s)}] \in Nat
        BY <4>1
      <4>3. QED
        BY <3>1, <4>2 DEF SumsTo
    <3>2. QED
      BY <3>1 DEF SumsTo
  <2>3. h \in [Sub -> Nat]
    BY <2>2
  <2>4. ASSUME NEW s \in Sub, Cardinality(s) <= n + 1 PROVE h[s] = SumsTo(h, f, s)
    <3>1. CASE s = {}
      BY <3>1 DEF SumsTo
    <3>2. CASE s # {}
      <4> DEFINE x == Picked(s)
      <4>1. x \in s /\ s \ {x} \in Sub /\ IsFiniteSet(s)
        BY <1>1, <3>2, PickedIn DEF Sub
      <4>2. Cardinality(s) \in Nat /\ Cardinality(s \ {x}) = Cardinality(s) - 1
        <5> HIDE DEF x
        <5>1. QED
          BY <4>1, WithoutOne
      <4>3. Cardinality(s \ {x}) <= n
        BY <2>4, <4>2
      <4>4. g[s \ {x}] = SumsTo(g, f, s \ {x})
        BY <2>1, <4>1, <4>3
      <4>5. h[s \ {x}] = g[s \ {x}]
        BY <4>1, <4>4
      <4>6. h[s] = f[x] + g[s \ {x}]
        BY <3>2 DEF SumsTo
      <4> HIDE DEF h
      <4>7. QED
        BY <3>2, <4>5, <4>6 DEF SumsTo
    <3>3. QED
      BY <3>1, <3>2
  <2> HIDE DEF h
  <2>5. Runs(n + 1)
    BY <2>3, <2>4
  <2> HIDE DEF Runs
  <2>6. QED
    BY <2>5
<1>4. \A n \in Nat : n \in Good
  <2> HIDE DEF Good
  <2>1. QED
    BY <1>2, <1>3, NatSetInduction
<1>5. Cardinality(S) \in Nat
  BY FS_CardinalityType
<1>6. Runs(Cardinality(S))
  BY <1>4, <1>5
<1>7. PICK g \in [Sub -> Nat] : \A s \in Sub : g[s] = SumsTo(g, f, s)
  BY <1>1, <1>6
<1>8. QED
  BY <1>7 DEF Sums

(* Two sums of functions that agree on R agree on R.                       *)
LEMMA SumsAgree ==
  ASSUME NEW S, NEW f, NEW g, Sums(g, f, S), NEW T, NEW e, NEW h, Sums(h, e, T),
         NEW R, IsFiniteSet(R), R \subseteq S, R \subseteq T, \A x \in R : f[x] = e[x]
  PROVE  g[R] = h[R]
<1> DEFINE Sub == SUBSET R
           Good == {n \in Nat : \A s \in Sub : Cardinality(s) = n => g[s] = h[s]}
<1>1. \A s \in Sub : IsFiniteSet(s) /\ Cardinality(s) \in Nat
  BY FS_Subset, FS_CardinalityType
<1>2. \A s \in Sub : g[s] = SumsTo(g, f, s) /\ h[s] = SumsTo(h, e, s)
  BY DEF Sums
<1>3. 0 \in Good
  <2>1. ASSUME NEW s \in Sub, Cardinality(s) = 0 PROVE g[s] = h[s]
    <3>1. s = {}
      BY <1>1, <2>1, FS_EmptySet
    <3>2. QED
      BY <1>2, <3>1 DEF SumsTo
  <2>2. QED
    BY <2>1
<1>4. ASSUME NEW n \in Nat, n \in Good PROVE n + 1 \in Good
  <2>1. ASSUME NEW s \in Sub, Cardinality(s) = n + 1 PROVE g[s] = h[s]
    <3> DEFINE x == Picked(s)
    <3>1. s # {}
      BY <2>1, FS_EmptySet
    <3>2. x \in s /\ s \ {x} \in Sub /\ x \in R
      BY <3>1, PickedIn
    <3>3. Cardinality(s \ {x}) = n
      <4>1. IsFiniteSet(s)
        BY <1>1
      <4> HIDE DEF x, Good
      <4>2. Cardinality(s \ {x}) = Cardinality(s) - 1
        BY <3>2, <4>1, WithoutOne
      <4>3. QED
        BY <2>1, <4>2
    <3>4. g[s \ {x}] = h[s \ {x}]
      <4> HIDE DEF Sub, x
      <4>1. QED
        BY <1>4, <3>2, <3>3
    <3>5. g[s] = f[x] + g[s \ {x}] /\ h[s] = e[x] + h[s \ {x}]
      BY <1>2, <3>1 DEF SumsTo
    <3> HIDE DEF x, Good, Sub
    <3>6. QED
      BY <3>2, <3>4, <3>5
  <2> HIDE DEF Sub
  <2>2. QED
    BY <2>1
<1>5. \A n \in Nat : n \in Good
  <2> HIDE DEF Good
  <2>1. QED
    BY <1>3, <1>4, NatSetInduction
<1>6. QED
  BY <1>1, <1>5

(* Any element may be taken first.                                         *)
LEMMA SumsSplit ==
  ASSUME NEW S, IsFiniteSet(S), NEW f \in [S -> Nat], NEW g, Sums(g, f, S), NEW z \in S
  PROVE  g[S] = f[z] + g[S \ {z}]
<1> DEFINE Sub == SUBSET S
           Good == {n \in Nat : \A s \in Sub : Cardinality(s) = n => \A x \in s : g[s] = f[x] + g[s \ {x}]}
<1>1. \A s \in Sub : IsFiniteSet(s) /\ Cardinality(s) \in Nat
  BY FS_Subset, FS_CardinalityType
<1>2. g \in [Sub -> Nat] /\ \A s \in Sub : s # {} => g[s] = f[Picked(s)] + g[s \ {Picked(s)}]
  BY DEF Sums, SumsTo
<1>3. 0 \in Good
  BY <1>1, FS_EmptySet
<1>4. ASSUME NEW n \in Nat, n \in Good PROVE n + 1 \in Good
  <2>1. ASSUME NEW s \in Sub, Cardinality(s) = n + 1, NEW x \in s PROVE g[s] = f[x] + g[s \ {x}]
    <3> DEFINE c == Picked(s)
    <3>1. c \in s /\ s # {}
      BY PickedIn
    <3>2. g[s] = f[c] + g[s \ {c}]
      BY <1>2, <3>1
    <3> HIDE DEF c
    <3>3. CASE c = x
      BY <3>2, <3>3
    <3>4. CASE c # x
      <4> DEFINE sc == s \ {c}
                 sx == s \ {x}
                 rest == s \ {c, x}
      <4>1. sc \in Sub /\ sx \in Sub /\ rest \in Sub /\ x \in sc /\ c \in sx
            /\ sc \ {x} = rest /\ sx \ {c} = rest
        BY <3>1, <3>4
      <4>2. Cardinality(sc) = n /\ Cardinality(sx) = n
        <5>1. IsFiniteSet(s)
          BY <1>1
        <5>2. Cardinality(s \ {c}) = Cardinality(s) - 1 /\ Cardinality(s \ {x}) = Cardinality(s) - 1
          BY <3>1, <5>1, WithoutOne
        <5>3. QED
          BY <2>1, <5>2
      <4>3. \A t \in Sub : Cardinality(t) = n => \A y \in t : g[t] = f[y] + g[t \ {y}]
        BY <1>4
      <4>4. f[c] \in Nat /\ f[x] \in Nat /\ g[rest] \in Nat
        BY <1>2, <3>1, <4>1
      <4> HIDE DEF sc, sx, rest, Sub, Good
      <4>5. g[sc] = f[x] + g[rest] /\ g[sx] = f[c] + g[rest]
        BY <4>1, <4>2, <4>3
      <4>6. g[s] = f[c] + g[sc]
        BY <3>2 DEF sc
      <4>7. g[s] = f[x] + g[sx]
        BY <4>4, <4>5, <4>6
      <4>8. QED
        BY <4>7 DEF sx
    <3>5. QED
      BY <3>3, <3>4
  <2> HIDE DEF Sub
  <2>2. QED
    BY <2>1
<1>5. \A n \in Nat : n \in Good
  <2> HIDE DEF Good
  <2>1. QED
    BY <1>3, <1>4, NatSetInduction
<1>6. S \in Sub
  OBVIOUS
<1>7. QED
  BY <1>1, <1>5, <1>6

LEMMA SumUnfolds ==
  ASSUME NEW S, IsFiniteSet(S), NEW f, \A x \in S : f[x] \in Nat
  PROVE  \E g : Sums(g, f, S) /\ SumFunctionOnSet(f, S) = g[S]
<1> DEFINE Rec(g) == g = [s \in SUBSET S |->
                            IF s = {} THEN 0
                            ELSE LET x == CHOOSE y \in s : TRUE
                                 IN  f[x] + g[s \ {x}]]
           e == [x \in S |-> f[x]]
<1>1. PICK g : Sums(g, e, S)
  <2>1. e \in [S -> Nat]
    OBVIOUS
  <2> HIDE DEF e
  <2>2. QED
    BY <2>1, SumsExist
<1>2. ASSUME NEW h, NEW s \in SUBSET S PROVE SumsTo(h, e, s) = SumsTo(h, f, s)
  <2>1. s # {} => e[Picked(s)] = f[Picked(s)]
    BY PickedIn
  <2>2. QED
    BY <2>1 DEF SumsTo
<1>3. Sums(g, f, S)
  BY <1>1, <1>2 DEF Sums
<1>4. \A h : Rec(h) <=> h = [s \in SUBSET S |-> SumsTo(h, f, s)]
  BY Zenon DEF SumsTo, Picked
<1>5. Rec(g)
  <2>1. g = [s \in SUBSET S |-> SumsTo(g, f, s)]
    BY <1>3 DEF Sums
  <2>2. QED
    BY <1>4, <2>1
<1> DEFINE w == CHOOSE h : Rec(h)
<1>6. Rec(w)
  <2> HIDE DEF Rec
  <2>1. QED
    BY <1>5
<1>7. SumFunctionOnSet(f, S) = w[S]
  BY Zenon DEF SumFunctionOnSet, FoldFunctionOnSet, MapThenFoldSet
<1> HIDE DEF w
<1>8. w = [s \in SUBSET S |-> SumsTo(w, f, s)]
  BY <1>4, <1>6
<1> HIDE DEF Rec
<1>9. \A s \in SUBSET S : w[s] = SumsTo(w, f, s)
  BY <1>8
<1> DEFINE Good == {n \in Nat : \A s \in SUBSET S : Cardinality(s) = n => w[s] \in Nat}
<1>10. \A s \in SUBSET S : IsFiniteSet(s) /\ Cardinality(s) \in Nat
  BY FS_Subset, FS_CardinalityType
<1>11. 0 \in Good
  <2>1. ASSUME NEW s \in SUBSET S, Cardinality(s) = 0 PROVE w[s] \in Nat
    <3>1. s = {}
      BY <1>10, <2>1, FS_EmptySet
    <3>2. w[s] = SumsTo(w, f, s)
      BY <1>9
    <3>3. SumsTo(w, f, s) = 0
      BY <3>1, Zenon DEF SumsTo
    <3>4. QED
      BY <3>2, <3>3
  <2>2. QED
    BY <2>1
<1>12. ASSUME NEW n \in Nat, n \in Good PROVE n + 1 \in Good
  <2>1. ASSUME NEW s \in SUBSET S, Cardinality(s) = n + 1 PROVE w[s] \in Nat
    <3> DEFINE x == Picked(s)
    <3>1. s # {}
      BY <2>1, FS_EmptySet
    <3>2. x \in s /\ s \ {x} \in SUBSET S
      BY <3>1, PickedIn
    <3>3. Cardinality(s \ {x}) = n
      <4>1. IsFiniteSet(s)
        BY <1>10
      <4> HIDE DEF x, Good
      <4>2. Cardinality(s \ {x}) = Cardinality(s) - 1
        BY <3>2, <4>1, WithoutOne
      <4>3. QED
        BY <2>1, <4>2
    <3>4. w[s \ {x}] \in Nat /\ f[x] \in Nat
      BY <1>12, <3>2, <3>3
    <3>5. w[s] = f[x] + w[s \ {x}]
      BY <1>9, <3>1 DEF SumsTo
    <3> HIDE DEF x, Good
    <3>6. QED
      BY <3>4, <3>5
  <2>2. QED
    BY <2>1
<1>13. \A n \in Nat : n \in Good
  <2> HIDE DEF Good
  <2>1. QED
    BY <1>11, <1>12, NatSetInduction
<1>14. \A s \in SUBSET S : w[s] \in Nat
  BY <1>10, <1>13
<1>15. w \in [SUBSET S -> Nat]
  BY <1>8, <1>14
<1>16. QED
  BY <1>7, <1>9, <1>15 DEF Sums

LEMMA SumOfNone == ASSUME NEW f PROVE SumFunctionOnSet(f, {}) = 0
<1>1. PICK g : Sums(g, f, {}) /\ SumFunctionOnSet(f, {}) = g[{}]
  BY FS_EmptySet, SumUnfolds
<1>2. g[{}] = SumsTo(g, f, {})
  BY <1>1 DEF Sums
<1>3. SumsTo(g, f, {}) = 0
  BY Zenon DEF SumsTo
<1>4. QED
  BY <1>1, <1>2, <1>3

(* Equal terms have equal sums.                                            *)
LEMMA SumOfSame ==
  ASSUME NEW S, IsFiniteSet(S), NEW f, NEW e, \A x \in S : f[x] \in Nat /\ e[x] = f[x]
  PROVE  SumFunctionOnSet(f, S) = SumFunctionOnSet(e, S) /\ SumFunctionOnSet(f, S) \in Nat
<1>1. PICK g : Sums(g, f, S) /\ SumFunctionOnSet(f, S) = g[S]
  BY SumUnfolds
<1>2. PICK h : Sums(h, e, S) /\ SumFunctionOnSet(e, S) = h[S]
  BY SumUnfolds
<1>3. g[S] = h[S]
  BY <1>1, <1>2, SumsAgree
<1>4. g[S] \in Nat
  BY <1>1 DEF Sums
<1>5. QED
  BY <1>1, <1>2, <1>3, <1>4

(* One more term.                                                          *)
LEMMA SumOfMore ==
  ASSUME NEW S, IsFiniteSet(S), NEW z, z \notin S, NEW f, NEW e,
         \A x \in S : f[x] \in Nat /\ e[x] = f[x], e[z] \in Nat
  PROVE  SumFunctionOnSet(e, S \cup {z}) = SumFunctionOnSet(f, S) + e[z]
<1> DEFINE T == S \cup {z}
           d == [x \in T |-> e[x]]
<1>1. IsFiniteSet(T) /\ T \ {z} = S /\ z \in T /\ S \subseteq T
  BY FS_AddElement
<1>2. d \in [T -> Nat] /\ \A x \in T : d[x] = e[x]
  OBVIOUS
<1> HIDE DEF T, d
<1>3. PICK g : Sums(g, f, S) /\ SumFunctionOnSet(f, S) = g[S]
  BY SumUnfolds
<1>4. PICK h : Sums(h, d, T) /\ SumFunctionOnSet(d, T) = h[T]
  BY <1>1, <1>2, SumUnfolds
<1>5. h[T] = d[z] + h[T \ {z}]
  BY <1>1, <1>2, <1>4, SumsSplit
<1>6. g[S] = h[S]
  <2>1. \A x \in S : f[x] = d[x]
    BY <1>1, <1>2
  <2>2. QED
    BY <1>1, <1>3, <1>4, <2>1, SumsAgree
<1>7. SumFunctionOnSet(e, T) = SumFunctionOnSet(d, T)
  BY <1>1, <1>2, SumOfSame
<1>8. g[S] \in Nat /\ d[z] \in Nat
  BY <1>1, <1>2, <1>3 DEF Sums
<1>9. QED
  BY <1>1, <1>2, <1>3, <1>4, <1>5, <1>6, <1>7, <1>8 DEF T
=============================================================================
