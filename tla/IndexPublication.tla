-------------------------- MODULE IndexPublication --------------------------
(***************************************************************************)
(* Publication of index versions and the query runtimes that follow them.  *)
(*                                                                         *)
(* `mimir indexer run|sync|worker|activate|prune` are separate operating   *)
(* system processes (operators here) that share the table index_versions   *)
(* (sqlite_index_metadata.py) and the directories indexes/<version>/ with  *)
(* the query runtimes.  A write of the table is one transaction; a read is *)
(* a statement of its own; file operations belong to no transaction.  One  *)
(* action below is one of those steps, and any process may be interleaved  *)
(* between two of them.                                                    *)
(***************************************************************************)
EXTENDS Naturals, FiniteSets

CONSTANTS Operators,    \* indexer processes that run at the same time
          Pruners,      \* those of them that may run `prune`
          Queries,      \* query runtimes (HTTP servers, which poll)
          Models,       \* embedding models an indexer may be configured with
          QueryModel,   \* [Queries -> Models]: the model each runtime expects
          Keeps,        \* values given to --keep
          MaxVersions,  \* bound: versions ever begun
          MaxCommands   \* bound: activate and prune commands ever run

ASSUME PublicationAssumption ==
  /\ Pruners \subseteq Operators
  /\ QueryModel \in [Queries -> Models]
  /\ Keeps \subseteq Nat \ {0}
  /\ MaxVersions \in Nat /\ MaxCommands \in Nat

NoVersion == 0
Version == 1 .. MaxVersions

(* What indexes/<version>/ holds: nothing, a directory without graph.db, a *)
(* graph.db without rows, or the graph that was saved.                     *)
Contents == {"none", "dir", "empty", "full"}
HasFile(c) == c \in {"empty", "full"}

VARIABLES
  rows,        \* versions that have a row in index_versions
  activeRows,  \* those whose column "active" is 1
  createdAt,   \* [Version -> Nat]: column created_at; 0 before it is stamped
  clock,       \* stamps handed out so far
  modelOf,     \* [Version -> Models]: column embedding_model; "unset" before
  disk,        \* [Version -> Contents]
  mixed,       \* versions whose graph has embeddings of different dimensions
  begun,       \* version ids handed out so far
  commands,    \* activate and prune commands started so far
  pc,          \* [Operators -> step of the command]
  target,      \* [Operators -> version it publishes, activates or prunes]
  listed,      \* [Operators -> SUBSET Version]: versions prune still has to judge
  keeping,     \* [Operators -> Nat]: prune's keep
  condemned,   \* history: versions some prune has begun to remove
  qpc,         \* [Queries -> step of the runtime]
  found,       \* [Queries -> version get_active returned]
  view         \* [Queries -> the QueryView served]

metadata == <<rows, activeRows, createdAt, clock, modelOf>>
operator == <<begun, commands, pc, target, listed, keeping, condemned>>
query    == <<qpc, found, view>>
vars     == <<metadata, disk, mixed, operator, query>>

NoView == [version |-> NoVersion, content |-> "none"]

Init ==
  /\ rows = {} /\ activeRows = {}
  /\ createdAt = [v \in Version |-> 0] /\ clock = 0
  /\ modelOf = [v \in Version |-> "unset"]
  /\ disk = [v \in Version |-> "none"] /\ mixed = {}
  /\ begun = 0 /\ commands = 0
  /\ pc = [o \in Operators |-> "idle"]
  /\ target = [o \in Operators |-> NoVersion]
  /\ listed = [o \in Operators |-> {}]
  /\ keeping = [o \in Operators |-> 0]
  /\ condemned = {}
  /\ qpc = [q \in Queries |-> "down"]
  /\ found = [q \in Queries |-> NoVersion]
  /\ view = [q \in Queries |-> NoView]

(* get_active.  Its ORDER BY activated_at matters only if several rows are *)
(* active, which ActiveNeverLost excludes.                                 *)
ActiveVersion ==
  IF activeRows = {} THEN NoVersion ELSE CHOOSE v \in activeRows : TRUE

Goto(o, from, to) ==
  /\ pc[o] = from
  /\ pc' = [pc EXCEPT ![o] = to]

-----------------------------------------------------------------------------
(***************************************************************************)
(* publish_graph: a new directory, the graph in it, the IndexVersion       *)
(* record, and last the row that makes it the active version.              *)
(***************************************************************************)

(* Mutation of PublishBegin: the graph is not saved before the row.         *)
PublishBeginUnsaved(o) ==
  /\ begun < MaxVersions
  /\ Goto(o, "idle", "saved")
  /\ begun' = begun + 1
  /\ target' = [target EXCEPT ![o] = begun + 1]
  /\ disk' = [disk EXCEPT ![begun + 1] = "empty"]
  /\ UNCHANGED <<metadata, mixed, query, commands, listed, keeping, condemned>>

(* _version_id(), mkdir and the SqliteGraphStore constructor.              *)
PublishBegin(o) ==
  /\ begun < MaxVersions
  /\ Goto(o, "idle", "opened")
  /\ begun' = begun + 1
  /\ target' = [target EXCEPT ![o] = begun + 1]
  /\ disk' = [disk EXCEPT ![begun + 1] = "empty"]
  /\ UNCHANGED <<metadata, mixed, query, commands, listed, keeping, condemned>>

(* store.save(graph): one transaction.  The graph of a sync or incremental *)
(* run after a change of the embedding model still has the embeddings of   *)
(* the repositories that were not parsed anew, perhaps of another          *)
(* dimension; nothing here looks at that.                                  *)
PublishSave(o) ==
  /\ Goto(o, "opened", "saved")
  /\ disk' = [disk EXCEPT ![target[o]] = "full"]
  /\ \/ mixed' = mixed \cup {target[o]}
     \/ UNCHANGED mixed
  /\ UNCHANGED <<metadata, query, begun, commands, target, listed, keeping, condemned>>

(* IndexVersion(...): created_at is taken here, after the save, so it does *)
(* not order versions as their ids do.                                     *)
PublishStamp(o) ==
  /\ Goto(o, "saved", "stamped")
  /\ clock' = clock + 1
  /\ createdAt' = [createdAt EXCEPT ![target[o]] = clock + 1]
  /\ \E m \in Models : modelOf' = [modelOf EXCEPT ![target[o]] = m]
  /\ UNCHANGED <<rows, activeRows, disk, mixed, query, begun, commands, target, listed,
                 keeping, condemned>>

(* Mutation of PublishRow: the row is updated but was never inserted.       *)
PublishRowNotInserted(o) ==
  /\ Goto(o, "stamped", "idle")
  /\ activeRows' = {target[o]}
  /\ UNCHANGED <<rows, createdAt, clock, modelOf, disk, mixed, query, begun, commands,
                 target, listed, keeping, condemned>>

(* metadata_store.publish(activate=True): every row inactive and the new   *)
(* one inserted active, in one transaction.                                *)
PublishRow(o) ==
  /\ Goto(o, "stamped", "idle")
  /\ rows' = rows \cup {target[o]}
  /\ activeRows' = {target[o]}
  /\ UNCHANGED <<createdAt, clock, modelOf, disk, mixed, query, begun, commands, target,
                 listed, keeping, condemned>>

-----------------------------------------------------------------------------
(***************************************************************************)
(* activate_version.                                                       *)
(***************************************************************************)

(* Mutation of ActivateCheck: the graph file is not looked for.             *)
ActivateCheckRowOnly(o, v) ==
  /\ commands < MaxCommands
  /\ v \in rows
  /\ Goto(o, "idle", "checked")
  /\ commands' = commands + 1
  /\ target' = [target EXCEPT ![o] = v]
  /\ UNCHANGED <<metadata, disk, mixed, query, begun, listed, keeping, condemned>>

(* metadata_store.get and is_file: an unknown version or a missing graph   *)
(* ends the command.                                                       *)
ActivateCheck(o, v) ==
  /\ commands < MaxCommands
  /\ v \in rows
  /\ HasFile(disk[v])
  /\ Goto(o, "idle", "checked")
  /\ commands' = commands + 1
  /\ target' = [target EXCEPT ![o] = v]
  /\ UNCHANGED <<metadata, disk, mixed, query, begun, listed, keeping, condemned>>

(* The get with which metadata_store.activate starts.                      *)
ActivateGet(o) ==
  /\ Goto(o, "checked", IF target[o] \in rows THEN "existing" ELSE "idle")
  /\ UNCHANGED <<metadata, disk, mixed, query, begun, commands, target, listed, keeping,
                 condemned>>

(* Mutation of ActivateCommit: the other rows keep their flag.              *)
ActivateCommitOnlySets(o) ==
  /\ Goto(o, "existing", "idle")
  /\ activeRows' = activeRows \cup ({target[o]} \cap rows)
  /\ UNCHANGED <<rows, createdAt, clock, modelOf, disk, mixed, query, begun, commands,
                 target, listed, keeping, condemned>>

(* Its transaction: active = 0 on every row, then active = 1 WHERE version *)
(* matches, which is no row at all if the row is gone by now.              *)
ActivateCommit(o) ==
  /\ Goto(o, "existing", "idle")
  /\ activeRows' = {target[o]} \cap rows
  /\ UNCHANGED <<rows, createdAt, clock, modelOf, disk, mixed, query, begun, commands,
                 target, listed, keeping, condemned>>

-----------------------------------------------------------------------------
(***************************************************************************)
(* prune_versions.                                                         *)
(***************************************************************************)

Newer(v, w) == createdAt[v] > createdAt[w]

(* versions[:keep] of the list ORDER BY created_at DESC.                   *)
Newest(S, keep) == {v \in S : Cardinality({w \in S : Newer(w, v)}) < keep}

(* list_versions.                                                          *)
PruneList(o, keep) ==
  /\ commands < MaxCommands
  /\ Goto(o, "idle", "listed")
  /\ commands' = commands + 1
  /\ listed' = [listed EXCEPT ![o] = rows]
  /\ keeping' = [keeping EXCEPT ![o] = keep]
  /\ UNCHANGED <<metadata, disk, mixed, query, begun, target, condemned>>

(* Mutation of PruneRetain: only the newest are retained.                   *)
PruneRetainNewestOnly(o) ==
  /\ Goto(o, "listed", "pruning")
  /\ listed' = [listed EXCEPT ![o] = @ \ Newest(@, keeping[o])]
  /\ UNCHANGED <<metadata, disk, mixed, query, begun, commands, target, keeping, condemned>>

(* get_active: what is left to judge are the versions not retained.        *)
PruneRetain(o) ==
  /\ Goto(o, "listed", "pruning")
  /\ listed' = [listed EXCEPT ![o] =
                  @ \ (Newest(@, keeping[o]) \cup {ActiveVersion})]
  /\ UNCHANGED <<metadata, disk, mixed, query, begun, commands, target, keeping, condemned>>

(* is_dir and the first half of rmtree, the files: of the newest version    *)
(* left to remove.  A directory that is gone already is passed over.        *)
PruneUnlink(o) ==
  \E v \in Newest(listed[o], 1) :
    /\ Goto(o, "pruning", IF disk[v] = "none" THEN "removed" ELSE "unlinked")
    /\ target' = [target EXCEPT ![o] = v]
    /\ disk' = [disk EXCEPT ![v] = IF @ = "none" THEN "none" ELSE "dir"]
    /\ condemned' = condemned \cup {v}
    /\ UNCHANGED <<metadata, mixed, query, begun, commands, listed, keeping>>

(* rmtree, second half: rmdir, which fails and ends the command if a       *)
(* reader has created the file anew in between.                            *)
PruneRmdir(o) ==
  LET v == target[o]
  IN  /\ Goto(o, "unlinked", IF HasFile(disk[v]) THEN "idle" ELSE "removed")
      /\ disk' = [disk EXCEPT ![v] = IF HasFile(@) THEN @ ELSE "none"]
      /\ UNCHANGED <<metadata, mixed, query, begun, commands, target, listed, keeping,
                     condemned>>

(* metadata_store.delete, and on to the next version.                      *)
PruneDelete(o) ==
  /\ Goto(o, "removed", "pruning")
  /\ rows' = rows \ {target[o]}
  /\ activeRows' = activeRows \ {target[o]}
  /\ listed' = [listed EXCEPT ![o] = @ \ {target[o]}]
  /\ UNCHANGED <<createdAt, clock, modelOf, disk, mixed, query, begun, commands, target,
                 keeping, condemned>>

PruneDone(o) ==
  /\ listed[o] = {}
  /\ Goto(o, "pruning", "idle")
  /\ UNCHANGED <<metadata, disk, mixed, query, begun, commands, target, listed, keeping,
                 condemned>>

(* Any command may end early: the process is killed, or sqlite or the file *)
(* system raises.  What it has written stays, its local state is lost.     *)
Abort(o) ==
  /\ pc[o] # "idle"
  /\ pc' = [pc EXCEPT ![o] = "idle"]
  /\ UNCHANGED <<metadata, disk, mixed, query, begun, commands, target, listed, keeping,
                 condemned>>

Operate(o) ==
  \/ PublishBegin(o) \/ PublishSave(o) \/ PublishStamp(o) \/ PublishRow(o)
  \/ \E v \in Version : ActivateCheck(o, v)
  \/ ActivateGet(o) \/ ActivateCommit(o)
  \/ Abort(o)

Prune(o) ==
  \/ \E keep \in Keeps : PruneList(o, keep)
  \/ PruneRetain(o) \/ PruneUnlink(o) \/ PruneRmdir(o) \/ PruneDelete(o)
  \/ PruneDone(o)

-----------------------------------------------------------------------------
(***************************************************************************)
(* QueryRuntime: start-up and polling.                                     *)
(***************************************************************************)

Phase(q, from, to) ==
  /\ qpc[q] = from
  /\ qpc' = [qpc EXCEPT ![q] = to]

(* __init__ and _load_active: without an active version the runtime serves *)
(* "no active index".                                                      *)
QueryStart(q) ==
  /\ Phase(q, "down", IF ActiveVersion = NoVersion THEN "up" ELSE "starting")
  /\ found' = [found EXCEPT ![q] = ActiveVersion]
  /\ UNCHANGED <<metadata, disk, mixed, operator, view>>

(* Mutation of QueryPoll: only a version newer than the one served is       *)
(* followed, so a rollback is not.                                          *)
QueryPollNewer(q) ==
  /\ ActiveVersion # NoVersion
  /\ view[q].version # NoVersion => Newer(ActiveVersion, view[q].version)
  /\ Phase(q, "up", "reloading")
  /\ found' = [found EXCEPT ![q] = ActiveVersion]
  /\ UNCHANGED <<metadata, disk, mixed, operator, view>>

(* reload_if_changed up to its early return.                               *)
QueryPoll(q) ==
  /\ ActiveVersion \notin {NoVersion, view[q].version}
  /\ Phase(q, "up", "reloading")
  /\ found' = [found EXCEPT ![q] = ActiveVersion]
  /\ UNCHANGED <<metadata, disk, mixed, operator, view>>

Loadable(q) ==
  /\ HasFile(disk[found[q]])
  /\ modelOf[found[q]] = QueryModel[q]

(* The checks of _load_version.  A failure ends the start-up; a failing    *)
(* poll is logged, keeps the view, and is repeated after the interval.     *)
LoadCheck(q) ==
  /\ \/ Phase(q, "starting", IF Loadable(q) THEN "opening" ELSE "down")
     \/ Phase(q, "reloading", IF Loadable(q) THEN "reopening" ELSE "up")
  /\ UNCHANGED <<metadata, disk, mixed, operator, found, view>>

(* SqliteGraphStore(...).load(): the constructor creates whatever is       *)
(* missing, so a graph removed since the check loads as an empty one.      *)
Opened(v) == IF HasFile(disk[v]) THEN disk[v] ELSE "empty"

(* _validate_graph_embeddings.                                             *)
ValidEmbeddings(v) == Opened(v) = "full" => v \notin mixed

(* load() and the check of the embeddings, which ends the start-up or the  *)
(* poll as those before do: only then the view is replaced.                *)
LoadGraph(q) ==
  LET v == found[q]
  IN  /\ \/ Phase(q, "opening", IF ValidEmbeddings(v) THEN "up" ELSE "down")
         \/ Phase(q, "reopening", "up")
      /\ disk' = [disk EXCEPT ![v] = Opened(v)]
      /\ view' = [view EXCEPT ![q] = IF ValidEmbeddings(v)
                                     THEN [version |-> v, content |-> Opened(v)]
                                     ELSE @]
      /\ UNCHANGED <<metadata, mixed, operator, found>>

Follow(q) == QueryPoll(q) \/ LoadCheck(q) \/ LoadGraph(q)

Next ==
  \/ \E o \in Operators : Operate(o)
  \/ \E o \in Pruners : Prune(o)
  \/ \E q \in Queries : QueryStart(q) \/ Follow(q)

(* The poll loop of a query runtime never ends (start_polling); nothing    *)
(* obliges an operator to run a command or to finish one.                  *)
Fairness == \A q \in Queries : WF_vars(Follow(q))

Spec == Init /\ [][Next]_vars /\ Fairness

-----------------------------------------------------------------------------
(***************************************************************************)
(* Properties.                                                             *)
(***************************************************************************)

Steps == {"idle", "opened", "saved", "stamped", "checked", "existing",
          "listed", "pruning", "unlinked", "removed"}

(* Every variable has its type, and only a listed version can be active.   *)
TypeOK ==
  /\ rows \subseteq Version /\ activeRows \subseteq rows
  /\ createdAt \in [Version -> Nat] /\ clock \in Nat
  /\ modelOf \in [Version -> Models \cup {"unset"}]
  /\ disk \in [Version -> Contents] /\ mixed \subseteq Version
  /\ begun \in 0 .. MaxVersions /\ commands \in 0 .. MaxCommands
  /\ pc \in [Operators -> Steps]
  /\ target \in [Operators -> Version \cup {NoVersion}]
  /\ listed \in [Operators -> SUBSET Version]
  /\ keeping \in [Operators -> Keeps \cup {0}]
  /\ condemned \subseteq Version
  /\ qpc \in [Queries -> {"down", "starting", "opening", "reloading", "reopening", "up"}]
  /\ found \in [Queries -> Version \cup {NoVersion}]
  /\ view \in [Queries -> [version : Version \cup {NoVersion}, content : Contents]]

(* Prune runs in the only indexer process there is, or not at all.         *)
PruneAlone == \A p \in Pruners : Operators = {p}

(* As soon as a version is listed exactly one is active, whatever command  *)
(* was cut short (sqlite_index_metadata.py: publish, activate; runtime.py: *)
(* prune_versions).                                                        *)
ActiveNeverLost == rows # {} => \E v \in rows : activeRows = {v}

(* A version is listed only with its whole graph on disk, wherever a       *)
(* publication was interrupted; only a prune that has begun to remove it   *)
(* takes the graph away (publish_graph writes the row last).               *)
ListedGraphIntact == \A v \in rows \ condemned : disk[v] = "full"

(* The active version has a graph file, so a query runtime can start on    *)
(* it: activate_version refuses a version that an interrupted prune left   *)
(* without one, and prune_versions retains the active version.             *)
ActiveHasGraph == \A v \in activeRows : HasFile(disk[v])

(* The version that is active when a step begins is still listed when the  *)
(* step ends ("active is always retained", commands/indexer.py:118).       *)
ActiveRetained == [][activeRows \subseteq rows']_vars

(* What a query runtime serves as version v is the graph published as v    *)
(* ("immutable graph versions", docs/architecture.md:51), unless a prune   *)
(* has taken v out: the store a runtime opens after its check is then a    *)
(* new and empty one.                                                      *)
ServesPublishedGraph ==
  \A q \in Queries : view[q].version # NoVersion =>
    view[q].content = "full" \/ view[q].version \in condemned

(* Once a version stays active, every runtime that is up and can take it   *)
(* (it expects the embedding model, and the graph's embeddings have one    *)
(* dimension) ends up serving it and no other: polls that fail or that     *)
(* read an earlier active version do not prevent it (runtime.py:            *)
(* reload_if_changed, _load_version).                                      *)
QueriesConverge ==
  \A q \in Queries, v \in Version :
    <>[](ActiveVersion = v /\ modelOf[v] = QueryModel[q] /\ v \notin mixed)
      => <>[](qpc[q] = "down" \/ view[q].version = v)

(* The table is the abstract catalog.                                      *)
Catalog == INSTANCE ActiveCatalog WITH
             catalog <- rows, current <- ActiveVersion

ImplementsCatalog == Catalog!Spec

-----------------------------------------------------------------------------
(***************************************************************************)
(* The inductive invariants behind those properties.                       *)
(***************************************************************************)

Publishing == {"opened", "saved", "stamped"}
Loading    == {"starting", "opening", "reloading", "reopening"}
Pruning    == {"listed", "pruning", "unlinked", "removed"}

(* A command's local state refers to ids that were handed out, and only a  *)
(* pruner prunes.                                                          *)
LocalStateOK ==
  /\ \A o \in Operators : pc[o] \in Pruning => o \in Pruners
  /\ \A o \in Operators :
       pc[o] \in Publishing \cup {"checked", "existing", "unlinked", "removed"}
         => target[o] # NoVersion
  /\ \A o \in Operators : target[o] \in 0 .. begun
  /\ \A o \in Operators : listed[o] \subseteq 1 .. begun
  /\ \A q \in Queries :
       qpc[q] \in Loading => found[q] \in Version

IdsBegun == rows \cup condemned \subseteq 1 .. begun

(* A version that is being published is unknown to every other command.    *)
PublishingPrivate ==
  \A o \in Operators : pc[o] \in Publishing =>
    /\ target[o] \notin rows \cup condemned
    /\ \A p \in Operators : target[o] \notin listed[p]
    /\ \A p \in Operators \ {o} : target[p] # target[o]

SavedIsFull ==
  \A o \in Operators : pc[o] \in {"saved", "stamped"} => disk[target[o]] = "full"

RemovedIsCondemned ==
  \A o \in Operators : pc[o] \in {"unlinked", "removed"} => target[o] \in condemned

(* What holds whichever processes run at the same time.                    *)
PublicationInv ==
  TypeOK /\ LocalStateOK /\ IdsBegun /\ PublishingPrivate /\ SavedIsFull
    /\ RemovedIsCondemned /\ ListedGraphIntact

(* What a runtime has found, and what it serves, was listed: it is so      *)
(* still, or a prune took it out.                                          *)
ViewInv ==
  \A q \in Queries :
    /\ qpc[q] \in Loading => found[q] \in rows \cup condemned
    /\ view[q].version # NoVersion =>
         view[q].content = "full" \/ view[q].version \in condemned

(* A version about to be activated, and one about to be removed.           *)
ActivatableTarget ==
  \A o \in Operators : pc[o] \in {"checked", "existing"} =>
    target[o] \in rows /\ HasFile(disk[target[o]])

RemovableTarget ==
  \A o \in Operators :
    /\ pc[o] \in {"pruning", "unlinked", "removed"} => listed[o] \cap activeRows = {}
    /\ pc[o] \in {"unlinked", "removed"} => target[o] \notin activeRows

(* What holds in addition if a prune overlaps no other command.            *)
SerialInv == ActiveNeverLost /\ ActiveHasGraph /\ ActivatableTarget /\ RemovableTarget
=============================================================================
