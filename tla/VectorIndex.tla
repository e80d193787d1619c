---------------------------- MODULE VectorIndex ----------------------------
(***************************************************************************)
(* The in-memory vector store (infra/vector_stores/numpy_store.py) and its *)
(* hydration from a graph (services/hydration.py).  Lists of ids and of    *)
(* metadata, a matrix with a row per id and a map from ids to positions    *)
(* are changed separately.  A vector is the number of its write; what is   *)
(* written with it carries the same number.                                *)
(***************************************************************************)
EXTENDS CodeGraph, SequencesExt

CONSTANTS Embedded,    \* ids whose node has an embedding
          Versions,    \* numbers of writes
          BatchIds     \* bound: ids of a batch, in every order and repetition

ASSUME VectorAssumption ==
  Embedded \subseteq Ids /\ Versions \subseteq Nat \ {0} /\ BatchIds \in Nat

VARIABLES ids,     \* _ids
          metas,   \* _metadatas (and _documents)
          rows,    \* _embeddings
          at,      \* _id_to_idx
          latest   \* history: [Ids -> number of the last write, 0 if deleted]

vectors == <<ids, metas, rows, at, latest>>

VectorInit ==
  /\ ids = <<>> /\ metas = <<>> /\ rows = <<>> /\ at = <<>>
  /\ latest = [n \in Ids |-> 0]

-----------------------------------------------------------------------------
(* dict[key] = value.                                                      *)
Entered(dict, key, value) ==
  [k \in DOMAIN dict \cup {key} |-> IF k = key THEN value ELSE dict[k]]

(* Mutation of PutId: of an id that comes twice the first vector stays.    *)
PutIdOnce(acc, id, version, i) ==
  IF id \notin DOMAIN acc.at
  THEN [acc EXCEPT !.ids = Append(@, id), !.metas = Append(@, version),
                   !.at = Entered(@, id, Len(acc.ids) + 1), !.appends = Append(@, i)]
  ELSE [acc EXCEPT !.metas[acc.at[id]] = version,
                   !.updates = IF acc.at[id] <= Len(rows) THEN Entered(@, acc.at[id], i) ELSE @]

(* The loop of upsert: an unknown id is appended to the lists and its row  *)
(* is collected, a known one is written in place; an id that this batch    *)
(* appended already has no row yet, and the collected one is replaced.     *)
(* Updates are written in order: of a position the last one stays.         *)
PutId(acc, id, version, i) ==
  IF id \notin DOMAIN acc.at
  THEN [acc EXCEPT !.ids = Append(@, id), !.metas = Append(@, version),
                   !.at = Entered(@, id, Len(acc.ids) + 1), !.appends = Append(@, i)]
  ELSE IF acc.at[id] <= Len(rows)
  THEN [acc EXCEPT !.metas[acc.at[id]] = version, !.updates = Entered(@, acc.at[id], i)]
  ELSE [acc EXCEPT !.metas[acc.at[id]] = version, !.appends[acc.at[id] - Len(rows)] = i]

(* What the loop has done after all ids of the batch.                      *)
Put(batch, version) ==
  LET done[j \in 0 .. Len(batch)] ==
        IF j = 0
        THEN [ids |-> ids, metas |-> metas, at |-> at, updates |-> <<>>, appends |-> <<>>,
              latest |-> latest]
        ELSE [PutId(done[j - 1], batch[j], version[j], j) EXCEPT !.latest[batch[j]] = version[j]]
  IN  done[Len(batch)]

(* The rows are written after the loop: updates, then one stack.           *)
Upsert(batch, version) ==
  LET new == Put(batch, version)
      written == [p \in 1 .. Len(rows) |->
                    IF p \in DOMAIN new.updates THEN version[new.updates[p]] ELSE rows[p]]
  IN  /\ ids' = new.ids /\ metas' = new.metas /\ at' = new.at /\ latest' = new.latest
      /\ rows' = written \o [k \in 1 .. Len(new.appends) |-> version[new.appends[k]]]

At(s, kept) == [k \in 1 .. Len(kept) |-> s[kept[k]]]
Reindexed(s) == [id \in ToSet(s) |-> CHOOSE i \in 1 .. Len(s) : s[i] = id]

(* Positions of the ids that stay, in order.                               *)
Kept(gone) ==
  LET kept[j \in 0 .. Len(ids)] ==
        IF j = 0 THEN <<>>
        ELSE IF ids[j] \in gone THEN kept[j - 1] ELSE Append(kept[j - 1], j)
  IN  kept[Len(ids)]

(* delete: the rows of the ids are cut out of the lists and the matrix.    *)
(* (Its callers pass the ids that a removal from the graph returned, so    *)
(* none comes twice.)                                                      *)
Delete(gone) ==
  LET kept == Kept(gone)
  IN  /\ ids' = At(ids, kept) /\ metas' = At(metas, kept) /\ rows' = At(rows, kept)
      /\ at' = Reindexed(ids')
      /\ latest' = [n \in Ids |-> IF n \in gone THEN 0 ELSE latest[n]]

Reset ==
  /\ ids' = <<>> /\ metas' = <<>> /\ rows' = <<>> /\ at' = <<>>
  /\ latest' = [n \in Ids |-> 0]

(* hydrate_vector_store: the graph's embedded nodes that are missing.      *)
Hydrate(g, version) ==
  LET missing == SetToSeq((g.nodes \cap Embedded) \ DOMAIN at)
  IN  missing # <<>> /\ Upsert(missing, [i \in 1 .. Len(missing) |-> version])

WriteVectors(g) ==
  \/ \E n \in 1 .. BatchIds : \E batch \in [1 .. n -> Embedded], version \in [1 .. n -> Versions] :
       Upsert(batch, version)
  \/ \E gone \in SUBSET Embedded : gone # {} /\ Delete(gone)
  \/ \E version \in Versions : Hydrate(g, version)
  \/ ids # <<>> /\ Reset

(* search: any order (similarity is an input) of the ids whose metadata    *)
(* the filter accepts.                                                     *)
Hits(accepted) == {ids[i] : i \in {j \in 1 .. Len(ids) : ids[j] \in accepted}}

(* Every id has one position, and what the matrix and the lists hold there *)
(* was written last for it (NumpyVectorStore.upsert, delete).              *)
RowsCarryLatest ==
  /\ Len(rows) = Len(ids) /\ Len(metas) = Len(ids)
  /\ DOMAIN at = {n \in Ids : latest[n] # 0} /\ ToSet(ids) = DOMAIN at
  /\ \A i \in 1 .. Len(ids) :
       at[ids[i]] = i /\ metas[i] = latest[ids[i]] /\ rows[i] = latest[ids[i]]

(* Lists, matrix and map agree, and hold what was written last.            *)
Current(i, m, r, a, l) ==
  /\ i \in Seq(Ids) /\ m \in Seq(Nat) /\ r \in Seq(Nat) /\ l \in [Ids -> Nat]
  /\ Len(r) = Len(i) /\ Len(m) = Len(i)
  /\ a = [n \in DOMAIN a |-> a[n]]
  /\ \A n \in Ids : n \in DOMAIN a <=> l[n] # 0
  /\ \A n \in DOMAIN a : n \in Ids /\ a[n] \in 1 .. Len(i) /\ i[a[n]] = n
  /\ \A p \in 1 .. Len(i) :
       i[p] \in DOMAIN a /\ a[i[p]] = p /\ m[p] = l[i[p]] /\ r[p] = l[i[p]]

(* The inductive invariant of RowsCarryLatest.                             *)
VectorInv == Current(ids, metas, rows, at, latest)
=============================================================================
