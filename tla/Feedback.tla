------------------------------ MODULE Feedback ------------------------------
(***************************************************************************)
(* The feedback store (sqlite_feedback.py) and the calls that write it     *)
(* (services/feedback.py): a table of signals and the counts per node and  *)
(* per pair of nodes that every signal adds to in the same transaction.    *)
(* Signals expire after 90 days, the counts do not.                        *)
(*                                                                         *)
(* record() rolls nothing back: when it raises, its connection keeps the   *)
(* transaction open with what it has written, and the write lock with it.  *)
(* The next record on that connection commits both; a dead process loses   *)
(* its own.  A purge that finds nothing to delete leaves its transaction   *)
(* open too.                                                               *)
(***************************************************************************)
EXTENDS Naturals, Sequences, FiniteSets, Functions

CONSTANTS Nodes,          \* node ids
          Procs,          \* server processes on one data directory
          NoProc,         \* nobody has a transaction open
          FeedbackLists   \* node_ids that record_feedback calls name

ASSUME FeedbackAssumption ==
  /\ IsFiniteSet(Nodes)
  /\ NoProc \notin Procs
  /\ FeedbackLists \subseteq Seq(Nodes)

VARIABLES
  ledger,    \* the three tables as they are committed
  draft,     \* the same with the open transaction, as its connection sees them
  writer,    \* the process whose connection has a transaction open, or NoProc
  retained   \* numbers of the signals still in feedback_signals

feedback == <<ledger, draft, writer, retained>>

Outcomes == {"positive", "negative"}
Counts == [pos : Nat, neg : Nat]
Zero == [pos |-> 0, neg |-> 0]

(* A row of pair_feedback_agg is keyed by its two ids in sorted order; a   *)
(* list that names an id twice pairs the id with itself.                   *)
Pair == {P \in SUBSET Nodes : Cardinality(P) \in {1, 2}}

(* raised: history, whether record() of the signal raised an error.        *)
Signal == [nodes : Seq(Nodes), outcome : Outcomes, source : {"explicit", "implicit"},
           raised : BOOLEAN]

(* signals: every row ever inserted into feedback_signals, expired ones    *)
(* included; nodeAgg and pairAgg: node_feedback_agg and pair_feedback_agg. *)
Ledger == [signals : Seq(Signal), nodeAgg : [Nodes -> Counts], pairAgg : [Pair -> Counts]]

(* The process that opened the empty store first holds its purge open.     *)
FeedbackInit ==
  /\ ledger = [signals |-> <<>>, nodeAgg |-> [n \in Nodes |-> Zero],
               pairAgg |-> [P \in Pair |-> Zero]]
  /\ draft = ledger /\ writer \in Procs /\ retained = {}

(* The positions of the pairs that combinations(sorted(node_ids), 2) makes. *)
Combinations(list) == {e \in SUBSET DOMAIN list : Cardinality(e) = 2}

(* How often the first k ids of the list name n, ...                       *)
Occurrences(list, k, n) == Cardinality({i \in DOMAIN list : i <= k /\ list[i] = n})

(* ... and how often the pairs of positions E yield the pair P.            *)
PairOccurrences(list, E, P) == Cardinality({e \in E : {list[i] : i \in e} = P})

Count(c, outcome, k) ==
  IF outcome = "positive" THEN [c EXCEPT !.pos = @ + k] ELSE [c EXCEPT !.neg = @ + k]

(* The tables when the signal's row, the counts of the first k ids of its  *)
(* list and those of the pairs of positions E are written.                 *)
Entered(tables, signal, k, E) ==
  [signals |-> Append(tables.signals, signal),
   nodeAgg |-> [n \in Nodes |-> Count(tables.nodeAgg[n], signal.outcome,
                                      Occurrences(signal.nodes, k, n))],
   pairAgg |-> [P \in Pair |-> Count(tables.pairAgg[P], signal.outcome,
                                     PairOccurrences(signal.nodes, E, P))]]

(* SQLite has one writer: the others' INSERT raises "database is locked".  *)
MayWrite(p) == writer \in {NoProc, p}

SignalOf(list, outcome, source, raised) ==
  [nodes |-> list, outcome |-> outcome, source |-> source, raised |-> raised]

(* SqliteFeedbackStore.record returns: the row, both tables of counts and  *)
(* whatever this connection's transaction already holds are committed.     *)
AddSignal(p, list, outcome, source) ==
  /\ MayWrite(p)
  /\ draft' = Entered(draft, SignalOf(list, outcome, source, FALSE),
                      Len(list), Combinations(list))
  /\ ledger' = draft'
  /\ writer' = NoProc
  /\ retained' = retained \cup (Len(ledger.signals) + 1 .. Len(draft.signals) + 1)

(* Mutation of AddSignalFails: the row is taken out again, its counts are  *)
(* not.                                                                    *)
AddSignalFailsUnlisted(p, list, outcome, source) ==
  \/ UNCHANGED feedback
  \/ \E k \in 0 .. Len(list), E \in SUBSET Combinations(list) :
       /\ MayWrite(p)
       /\ k < Len(list) => E = {}
       /\ draft' = [Entered(draft, SignalOf(list, outcome, source, TRUE), k, E)
                    EXCEPT !.signals = draft.signals]
       /\ writer' = p
       /\ UNCHANGED <<ledger, retained>>

(* record raises: on its first INSERT, with nothing written; or later, in  *)
(* the middle of the counts or on the commit.                              *)
AddSignalFails(p, list, outcome, source) ==
  \/ UNCHANGED feedback
  \/ \E k \in 0 .. Len(list), E \in SUBSET Combinations(list) :
       /\ MayWrite(p)
       /\ k < Len(list) => E = {}
       /\ draft' = Entered(draft, SignalOf(list, outcome, source, TRUE), k, E)
       /\ writer' = p
       /\ UNCHANGED <<ledger, retained>>

(* The connection of a process that dies is closed: SQLite rolls back.     *)
CloseFeedback(p) ==
  /\ IF writer = p THEN draft' = ledger /\ writer' = NoProc ELSE UNCHANGED <<draft, writer>>
  /\ UNCHANGED <<ledger, retained>>

(* record_explicit: an agent or a user judges a list of nodes.             *)
RecordExplicit(p, list, outcome) ==
  AddSignal(p, list, outcome, "explicit") \/ AddSignalFails(p, list, outcome, "explicit")

(* _purge_expired of a starting process: whatever is older than 90 days.   *)
(* It commits only if it deleted something, and ignores a lock.            *)
PurgeSignals(p) ==
  /\ \/ writer # NoProc /\ UNCHANGED <<writer, retained>>
     \/ /\ writer = NoProc
        /\ \E old \in SUBSET retained :
             /\ retained' = retained \ old
             /\ writer' = IF old = {} THEN p ELSE NoProc
  /\ UNCHANGED <<ledger, draft>>

-----------------------------------------------------------------------------
FeedbackTypeOK ==
  /\ ledger \in Ledger /\ draft \in Ledger
  /\ writer \in Procs \cup {NoProc} /\ (writer = NoProc => draft = ledger)
  /\ Len(ledger.signals) <= Len(draft.signals)
  /\ retained \subseteq DOMAIN ledger.signals

Judged(given, outcome) == {i \in DOMAIN given : given[i].outcome = outcome}

(* The signals whose record returned.                                      *)
Returned(given) == {i \in DOMAIN given : ~given[i].raised}

(* How often the signals in S name a node; how often they name a pair.     *)
NodeSum(given, S, n) ==
  SumFunctionOnSet([i \in DOMAIN given |-> Occurrences(given[i].nodes, Len(given[i].nodes), n)], S)
PairSum(given, S, P) ==
  SumFunctionOnSet([i \in DOMAIN given |->
                      PairOccurrences(given[i].nodes, Combinations(given[i].nodes), P)], S)

Between(count, least, most) == least <= count /\ count <= most

(* What compute_score is given for a node or a pair is the number of times *)
(* the signals name it, repeated ids and expired signals included: every   *)
(* signal whose record returned counts in full and once, one whose record  *)
(* raised at most once, and nothing else does.                             *)
CountsAreSums(tables) ==
  LET given == tables.signals
      pos == Judged(given, "positive")
      neg == Judged(given, "negative")
      whole == Returned(given)
  IN  /\ \A n \in Nodes :
           /\ Between(tables.nodeAgg[n].pos, NodeSum(given, pos \cap whole, n),
                      NodeSum(given, pos, n))
           /\ Between(tables.nodeAgg[n].neg, NodeSum(given, neg \cap whole, n),
                      NodeSum(given, neg, n))
      /\ \A P \in Pair :
           /\ Between(tables.pairAgg[P].pos, PairSum(given, pos \cap whole, P),
                      PairSum(given, pos, P))
           /\ Between(tables.pairAgg[P].neg, PairSum(given, neg \cap whole, P),
                      PairSum(given, neg, P))

(* The committed counts say what the committed signals say, whichever      *)
(* records raised half way, in whatever transaction they were committed,   *)
(* and whoever died with a transaction open.                               *)
AggregatesCountSignals == CountsAreSums(ledger)
=============================================================================
