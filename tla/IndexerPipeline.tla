-------------------------- MODULE IndexerPipeline --------------------------
(***************************************************************************)
(* What an index run does to the working store (project/graph.db) and what *)
(* it publishes: the clean, the incremental and the sync run of runtime.py *)
(* over indexing/service.py, step by step between the transactions of      *)
(* sqlite_graph.py.                                                        *)
(*                                                                         *)
(* A commit is the tree it holds, and the nodes of a repository are the    *)
(* files they were parsed from, so "the index of commit t" is t itself.    *)
(* A checkout has a HEAD and a working directory: a run records the one    *)
(* and parses the other.  One run at a time; checkouts move, files are     *)
(* edited, versions rolled back, and runs fail at any point.               *)
(* IndexPublication has the steps inside Publish.                          *)
(***************************************************************************)
EXTENDS Naturals, FiniteSets

CONSTANTS Repos,        \* configured repositories
          GitRepos,     \* those whose path is a git checkout
          LiveRepos,    \* those that may change while a run goes on
          Files, Blobs, \* paths, and the contents a path can have
          Absent,       \* the path is not in the tree
          Nothing,      \* no nodes, no repo_state row, no version
          Commands,     \* which of "full", "incremental", "sync" and
                        \* "rollback" this deployment uses
          MaxChanges,   \* bound: times a checkout moves or a file is edited
          MaxFailures   \* bound: runs that are killed or raise, and parses
                        \* that skip files

Tree    == [Files -> Blobs \cup {Absent}]
Indexed == [Repos -> Tree \cup {Nothing}]
Version == Indexed  \* the nodes; its repo_commits are for display only

ASSUME PipelineAssumption ==
  /\ GitRepos \subseteq Repos /\ LiveRepos \subseteq Repos
  /\ Absent \notin Blobs
  /\ Nothing \notin Tree /\ Nothing \notin Version
  /\ MaxChanges \in Nat /\ MaxFailures \in Nat

VARIABLES
  head,       \* [Repos -> Tree]: the commit each checkout is at
  tree,       \* [Repos -> Tree]: what its working directory holds
  nodes,      \* [Repos -> Tree or Nothing]: working store, table nodes
  state,      \* [Repos -> Tree or Nothing]: working store, table repo_state
  published,  \* the versions published
  active,     \* the active one, or Nothing
  pc, kind,   \* step and kind of the current run
  mem,        \* [Repos -> Tree or Nothing]: the CodeGraph in memory
  todo,       \* repositories the current loop still has to visit
  cur,        \* the repository whose rebuild is not recorded yet
  full,       \* repositories to be re-indexed as a whole
  stale,      \* [Repos -> SUBSET Files]: files whose nodes are to be deleted
  changes,    \* moves of checkouts and edits so far
  failures,   \* failed runs and incomplete parses so far
  \* What the current run has seen, for the properties:
  moved,      \* repositories whose HEAD moved since the run parsed or
              \* diffed them
  touched,    \* [Repos -> SUBSET Files]: files changed since they were parsed
  skipped,    \* [Repos -> SUBSET Files]: files that the parse left out
  drift       \* [Repos -> SUBSET Files]: files whose nodes were not those of
              \* the recorded commit when the run began

store  == <<nodes, state>>
index  == <<published, active>>
run    == <<pc, kind, mem, todo, cur, full, stale>>
world  == <<head, tree, changes>>
seen   == <<moved, touched, skipped, drift>>
vars   == <<world, store, index, run, failures, seen>>

Empty == [r \in Repos |-> Nothing]

None == [r \in Repos |-> {}]

Init ==
  /\ head \in [Repos -> Tree] /\ tree = head
  /\ nodes = Empty /\ state = Empty
  /\ published = {} /\ active = Nothing
  /\ pc = "idle" /\ kind = "full" /\ mem = Empty
  /\ todo = {} /\ cur = Nothing /\ full = {} /\ stale = None
  /\ changes = 0 /\ failures = 0
  /\ moved = {} /\ touched = None /\ skipped = None /\ drift = None

(* The nodes of file f in n.                                               *)
At(n, f) == IF n = Nothing THEN Absent ELSE n[f]

(* HEAD as the run reads it; a directory without git has none.             *)
HeadCommit(r) == IF r \in GitRepos THEN head[r] ELSE Nothing

(* Nodes of n that are left when those of the files F are removed.         *)
Without(n, F) ==
  IF n = Nothing THEN Nothing ELSE [f \in Files |-> IF f \in F THEN Absent ELSE n[f]]

Goto(from, to) == pc = from /\ pc' = to

Starts(k) ==
  /\ k \in Commands
  /\ kind' = k
  /\ moved' = {} /\ touched' = None /\ skipped' = None
  /\ drift' = [r \in Repos |-> {f \in Files : At(nodes[r], f) # At(state[r], f)}]
  /\ stale' = None /\ cur' = Nothing

(* The run is over, and what it held in memory is gone.                    *)
Ends ==
  /\ pc' = "idle" /\ mem' = Empty
  /\ todo' = {} /\ cur' = Nothing /\ full' = {} /\ stale' = None
  /\ moved' = {} /\ touched' = None /\ skipped' = None /\ drift' = None
  /\ UNCHANGED kind

(* GraphBuilder.index_repo walks the working directory and leaves out the  *)
(* files that are too large, that the parser raises on, or that have no    *)
(* symbols.                                                                *)
IndexRepo(r) ==
  \E S \in SUBSET {f \in Files : tree[r][f] # Absent} :
    /\ S # {} => failures < MaxFailures
    /\ failures' = IF S = {} THEN failures ELSE failures + 1
    /\ mem' = [mem EXCEPT ![r] = Without(tree[r], S)]
    /\ skipped' = [skipped EXCEPT ![r] = S]
    /\ touched' = [touched EXCEPT ![r] = {}]
    /\ moved' = moved \ {r}
    /\ UNCHANGED drift

-----------------------------------------------------------------------------
(***************************************************************************)
(* run_index(clean=True), and index_all, which it shares with the fallback *)
(* of the incremental run.                                                 *)
(***************************************************************************)

(* clear(): a script, whose DELETEs commit one by one.                     *)
BeginClean ==
  /\ Goto("idle", "clearing")
  /\ Starts("full")
  /\ full' = Repos
  /\ nodes' = Empty
  /\ UNCHANGED <<world, state, index, mem, todo, failures>>

ClearStates ==
  /\ Goto("clearing", "parsing")
  /\ state' = Empty
  /\ mem' = Empty /\ todo' = Repos
  /\ UNCHANGED <<world, nodes, index, kind, cur, full, stale, failures, seen>>

ParseRepo(r) ==
  /\ pc = "parsing" /\ r \in todo
  /\ IndexRepo(r)
  /\ todo' = todo \ {r}
  /\ UNCHANGED <<world, store, index, pc, kind, cur, full, stale>>

(* graph_store.save(graph).                                                *)
SaveAll ==
  /\ Goto("parsing", "recording") /\ todo = {}
  /\ nodes' = mem
  /\ todo' = Repos
  /\ UNCHANGED <<world, state, index, kind, mem, cur, full, stale, failures, seen>>

(* Mutation of RecordCommit: the loop ends after the first repository.      *)
RecordCommitFirst(r) ==
  /\ pc = "recording" /\ r \in todo
  /\ state' = IF r \in GitRepos THEN [state EXCEPT ![r] = head[r]] ELSE state
  /\ todo' = {}
  /\ UNCHANGED <<world, nodes, index, pc, kind, mem, cur, full, stale, failures, seen>>

(* save_repo_state with HEAD as it is by now; without git, none.           *)
RecordCommit(r) ==
  /\ pc = "recording" /\ r \in todo
  /\ state' = IF r \in GitRepos THEN [state EXCEPT ![r] = head[r]] ELSE state
  /\ todo' = todo \ {r}
  /\ UNCHANGED <<world, nodes, index, pc, kind, mem, cur, full, stale, failures, seen>>

-----------------------------------------------------------------------------
(***************************************************************************)
(* index_incremental.                                                      *)
(***************************************************************************)

(* The working graph is loaded; without nodes index_all takes over.        *)
BeginIncremental ==
  LET none == nodes = Empty
  IN  /\ Goto("idle", IF none THEN "parsing" ELSE "scanning")
      /\ Starts("incremental")
      /\ full' = IF none THEN Repos ELSE {}
      /\ mem' = nodes /\ todo' = Repos
      /\ UNCHANGED <<world, store, index, failures>>

Scan(r) ==
  /\ pc = "scanning" /\ r \in todo
  /\ todo' = todo \ {r}
  /\ UNCHANGED <<world, nodes, index, kind, failures>>

(* The repository is as the run has just read it.                          *)
SeesHead(r) ==
  /\ moved' = moved \ {r}
  /\ UNCHANGED <<pc, cur, touched, skipped, drift>>

Differs(r) == r \in GitRepos /\ state[r] \notin {Nothing, head[r]}

(* No recorded commit, or one that git cannot diff any more.               *)
ScanFull(r) ==
  /\ Scan(r) /\ SeesHead(r)
  /\ state[r] = Nothing \/ Differs(r)
  /\ full' = full \cup {r}
  /\ UNCHANGED <<state, mem, stale>>

(* Nothing new, or HEAD cannot be read.                                    *)
ScanSkip(r) ==
  /\ Scan(r) /\ SeesHead(r)
  /\ state[r] # Nothing
  /\ r \in GitRepos => state[r] = head[r]
  /\ UNCHANGED <<state, mem, full, stale>>

(* The diff from the recorded commit to HEAD.                              *)
Deleted(r) == {f \in Files : state[r][f] # Absent /\ head[r][f] = Absent}
Changed(r) == {f \in Files : head[r][f] \notin {Absent, state[r][f]}}

(* Mutation of ScanDeleted: the nodes of deleted files stay in the graph.   *)
ScanDeletedKept(r) ==
  /\ Scan(r) /\ SeesHead(r)
  /\ Differs(r) /\ Changed(r) = {}
  /\ state' = [state EXCEPT ![r] = head[r]]
  /\ UNCHANGED <<mem, full, stale>>

(* The diff only deletes files: their nodes leave the graph in memory, and *)
(* HEAD is recorded while the store still holds them.                      *)
ScanDeleted(r) ==
  /\ Scan(r) /\ SeesHead(r)
  /\ Differs(r) /\ Changed(r) = {}
  /\ mem' = [mem EXCEPT ![r] = Without(@, Deleted(r))]
  /\ stale' = [stale EXCEPT ![r] = {f \in Deleted(r) : At(mem[r], f) # Absent}]
  /\ state' = [state EXCEPT ![r] = head[r]]
  /\ UNCHANGED full

(* The diff adds or modifies a file: the loop that parses it uses the name *)
(* os, which service.py does not import.  The run ends with a NameError.   *)
ScanChanged(r) ==
  /\ pc = "scanning" /\ r \in todo
  /\ Differs(r) /\ Changed(r) # {}
  /\ Ends
  /\ UNCHANGED <<world, store, index, failures>>

ScanDone ==
  /\ Goto("scanning", "rebuilding") /\ todo = {}
  /\ todo' = full
  /\ UNCHANGED <<world, store, index, kind, mem, cur, full, stale, failures, seen>>

(* Phase 3: _index_repo, then HEAD is read and recorded.                   *)
RebuildRepo(r) ==
  /\ Goto("rebuilding", "rebuilt") /\ r \in todo
  /\ IndexRepo(r)
  /\ todo' = todo \ {r} /\ cur' = r
  /\ UNCHANGED <<world, store, index, kind, full, stale>>

RecordRebuilt ==
  /\ Goto("rebuilt", "rebuilding")
  /\ state' = IF cur \in GitRepos THEN [state EXCEPT ![cur] = head[cur]] ELSE state
  /\ cur' = Nothing
  /\ UNCHANGED <<world, nodes, index, kind, mem, todo, full, stale, failures, seen>>

RebuildDone ==
  /\ Goto("rebuilding", "persisting") /\ todo = {}
  /\ UNCHANGED <<world, store, index, kind, mem, todo, cur, full, stale, failures, seen>>

-----------------------------------------------------------------------------
(***************************************************************************)
(* sync_repo and refresh_repo.                                             *)
(***************************************************************************)

(* _ensure_checkout: the branch as fetched, or the commit asked for.  The  *)
(* hard reset restores every tracked file; an untracked one stays.         *)
SyncCheckout(r, t) ==
  /\ changes < MaxChanges
  /\ r \in GitRepos
  /\ Goto("idle", "loading")
  /\ Starts("sync")
  /\ head' = [head EXCEPT ![r] = t]
  /\ tree' = [tree EXCEPT ![r] =
                [f \in Files |-> IF head[r][f] = Absent /\ t[f] = Absent
                                 THEN tree[r][f] ELSE t[f]]]
  /\ changes' = changes + 1
  /\ todo' = {r} /\ full' = {r}
  /\ UNCHANGED <<store, index, mem, failures>>

(* The active version, if there is one, replaces the working graph.        *)
SyncLoad ==
  LET base == IF active = Nothing THEN nodes ELSE active
  IN  /\ Goto("loading", "refreshing")
      /\ mem' = base /\ nodes' = base
      /\ UNCHANGED <<world, state, index, kind, todo, cur, full, stale, failures, seen>>

(* Mutation of SyncRefresh: the old nodes of the repository are not removed. *)
SyncRefreshMerged(r) ==
  /\ Goto("refreshing", "persisting") /\ r \in todo
  /\ mem' = [mem EXCEPT ![r] =
               IF @ = Nothing THEN tree[r]
               ELSE [f \in Files |-> IF tree[r][f] = Absent THEN @[f] ELSE tree[r][f]]]
  /\ UNCHANGED <<world, store, index, kind, todo, cur, full, stale, failures, seen>>

(* remove_nodes_by_repo and _index_repo.                                   *)
SyncRefresh(r) ==
  /\ Goto("refreshing", "persisting") /\ r \in todo
  /\ IndexRepo(r)
  /\ UNCHANGED <<world, store, index, kind, todo, cur, full, stale>>

(* Edges between other repositories have changed: save(graph).             *)
SyncSaveAll ==
  /\ Goto("persisting", "recording") /\ kind = "sync"
  /\ nodes' = mem
  /\ UNCHANGED <<world, state, index, kind, mem, todo, cur, full, stale, failures, seen>>

-----------------------------------------------------------------------------
(***************************************************************************)
(* The delta is persisted: delete_nodes_by_ids, then save_partial.         *)
(***************************************************************************)

(* Mutation of PersistDelete: only whole repositories are deleted.          *)
PersistDeleteRepos ==
  /\ Goto("persisting", "saving")
  /\ nodes' = [r \in Repos |-> IF r \in full THEN Nothing ELSE nodes[r]]
  /\ UNCHANGED <<world, state, index, kind, mem, todo, cur, full, stale, failures, seen>>

PersistDelete ==
  /\ Goto("persisting", "saving")
  /\ nodes' = [r \in Repos |-> IF r \in full THEN Nothing ELSE Without(nodes[r], stale[r])]
  /\ UNCHANGED <<world, state, index, kind, mem, todo, cur, full, stale, failures, seen>>

PersistSave ==
  /\ Goto("saving", "recording")
  /\ nodes' = [r \in Repos |-> IF r \in full THEN mem[r] ELSE nodes[r]]
  /\ UNCHANGED <<world, state, index, kind, mem, todo, cur, full, stale, failures, seen>>

-----------------------------------------------------------------------------
ReadyToPublish == pc = "recording" /\ todo = {}

(* Mutation of Publish: the row of the version is not inserted.             *)
PublishUnlisted ==
  /\ ReadyToPublish
  /\ Ends
  /\ active' = mem
  /\ UNCHANGED <<world, store, published, failures>>

(* publish_graph: the graph in memory.                                     *)
Publish ==
  /\ ReadyToPublish
  /\ Ends
  /\ published' = published \cup {mem}
  /\ active' = mem
  /\ UNCHANGED <<world, store, failures>>

(* The run is killed, or a step of it raises: no transaction is undone.    *)
Fail ==
  /\ pc # "idle"
  /\ failures < MaxFailures
  /\ Ends
  /\ failures' = failures + 1
  /\ UNCHANGED <<world, store, index>>

(* activate_version in another process.                                    *)
Rollback ==
  /\ "rollback" \in Commands
  /\ active' \in published
  /\ UNCHANGED <<world, store, published, run, failures, seen>>

(* The working directory of r becomes t, in the middle of a run or not.    *)
Change(r, t) ==
  /\ changes < MaxChanges
  /\ pc = "idle" \/ r \in LiveRepos
  /\ changes' = changes + 1
  /\ tree' = [tree EXCEPT ![r] = t]
  /\ touched' = IF pc = "idle" THEN touched
                ELSE [touched EXCEPT ![r] = @ \cup {f \in Files : t[f] # tree[r][f]}]
  /\ UNCHANGED <<store, index, run, failures, skipped, drift>>

(* Somebody commits, pulls or switches branches in a checkout: a file that *)
(* differs between the two commits ends up as in the new one, any other    *)
(* stays, uncommitted changes included.                                    *)
Move(r, t) ==
  /\ r \in GitRepos /\ t # head[r]
  /\ Change(r, [f \in Files |-> IF t[f] = head[r][f] THEN tree[r][f] ELSE t[f]])
  /\ head' = [head EXCEPT ![r] = t]
  /\ moved' = IF pc = "idle" THEN moved ELSE moved \cup {r}

(* A file is written or removed and not committed.                         *)
Edit(r, f, b) ==
  /\ tree[r][f] # b
  /\ Change(r, [tree[r] EXCEPT ![f] = b])
  /\ UNCHANGED <<head, moved>>

StepOn(r) ==
  \/ ParseRepo(r) \/ RecordCommit(r)
  \/ ScanFull(r) \/ ScanSkip(r) \/ ScanDeleted(r) \/ ScanChanged(r)
  \/ RebuildRepo(r) \/ SyncRefresh(r)

Step ==
  \/ ClearStates \/ SaveAll
  \/ ScanDone \/ RecordRebuilt \/ RebuildDone
  \/ SyncLoad \/ SyncSaveAll
  \/ PersistDelete \/ PersistSave
  \/ Publish
  \/ \E r \in Repos : StepOn(r)

Next ==
  \/ BeginClean \/ BeginIncremental
  \/ \E r \in Repos, t \in Tree : SyncCheckout(r, t) \/ Move(r, t)
  \/ \E r \in Repos, f \in Files, b \in Blobs \cup {Absent} : Edit(r, f, b)
  \/ Step
  \/ Fail \/ Rollback

(* A run that was started goes on, and `mimir indexer run` is started      *)
(* again and again ("run the indexer after changes", how-it-works.md:75).  *)
Fairness == WF_vars(Step) /\ WF_vars(BeginIncremental)

Spec == Init /\ [][Next]_vars /\ Fairness

-----------------------------------------------------------------------------
(***************************************************************************)
(* Properties.                                                             *)
(***************************************************************************)

(* Every variable has its type, and the active version is a published one. *)
TypeOK ==
  /\ head \in [Repos -> Tree] /\ tree \in [Repos -> Tree]
  /\ nodes \in Indexed /\ state \in Indexed
  /\ published \subseteq Version /\ active \in published \cup {Nothing}
  /\ pc \in {"idle", "clearing", "parsing", "scanning", "rebuilding", "rebuilt",
             "loading", "refreshing", "persisting", "saving", "recording"}
  /\ kind \in {"full", "incremental", "sync"}
  /\ mem \in Indexed
  /\ todo \subseteq Repos /\ full \subseteq Repos /\ cur \in Repos \cup {Nothing}
  /\ stale \in [Repos -> SUBSET Files]
  /\ changes \in 0 .. MaxChanges /\ failures \in 0 .. MaxFailures
  /\ moved \subseteq Repos
  /\ touched \in [Repos -> SUBSET Files] /\ skipped \in [Repos -> SUBSET Files]
  /\ drift \in [Repos -> SUBSET Files]

(* The working store holds the nodes of the graph that is published, by    *)
(* whichever of the three ways the run persisted it (save, or              *)
(* delete_nodes_by_ids and save_partial of the delta).                     *)
StoreMatchesGraph == ReadyToPublish => nodes = mem

(* The recorded commit is HEAD, unless that has moved since.               *)
Recorded(r) == r \notin moved => state[r] = HeadCommit(r)

(* The graph has the files of the working directory, except those that the *)
(* parse left out or that have changed since.                              *)
Read(r) ==
  /\ mem[r] # Nothing
  /\ \A f \in Files \ touched[r] :
       mem[r][f] = IF f \in skipped[r] THEN Absent ELSE tree[r][f]

(* The graph has the files of HEAD, except those whose nodes were already  *)
(* wrong when the run began.                                               *)
Followed(r) ==
  r \notin moved => \A f \in Files \ drift[r] : At(mem[r], f) = head[r][f]

(* Whatever failed, drifted or rolled back runs have left in the store, a  *)
(* repository that is indexed as a whole is published as its working       *)
(* directory was, with HEAD as its commit: every one in a clean run and in *)
(* the fallback to index_all, those without a usable commit in an          *)
(* incremental run, the one asked for in a sync run (refresh_repo).        *)
FullRunExact == ReadyToPublish => \A r \in full : Recorded(r) /\ Read(r)

(* An incremental run that ends brings every other repository to HEAD by   *)
(* the diff from the recorded commit (index_incremental), file by file:    *)
(* uncommitted changes are not looked at, and files whose nodes were not   *)
(* those of the recorded commit stay wrong.                                *)
IncrementalRunExact ==
  ReadyToPublish /\ kind = "incremental" =>
    \A r \in Repos \ full : Recorded(r) /\ Followed(r)

(* "For an always-fresh graph ... run the indexer after changes"           *)
(* (docs/how-it-works.md:75): once the checkouts rest, with nothing        *)
(* uncommitted, a version of them gets published.                          *)
FreshAfterRuns ==
  \A r \in Repos, t \in Tree :
    <>[](head[r] = t /\ tree[r] = t) => <>(active # Nothing /\ active[r] = t)
-----------------------------------------------------------------------------
(***************************************************************************)
(* The inductive invariant behind the two ...RunExact properties and       *)
(* StoreMatchesGraph.                                                      *)
(***************************************************************************)

KindOK ==
  /\ pc = "clearing" => kind = "full"
  /\ pc = "parsing" => kind \in {"full", "incremental"}
  /\ pc \in {"scanning", "rebuilding", "rebuilt"} => kind = "incremental"
  /\ pc \in {"loading", "refreshing"} => kind = "sync"
  /\ pc \in {"persisting", "saving"} => kind \in {"incremental", "sync"}

(* The loop variables: what is left of a loop, and what it has to do.      *)
LoopOK ==
  /\ pc \in {"clearing", "parsing"} => full = Repos
  /\ pc = "recording" /\ kind = "full" => full = Repos
  /\ pc = "scanning" =>
       \A r \in todo : r \notin full /\ stale[r] = {} /\ mem[r] = nodes[r]
  /\ pc \in {"rebuilding", "rebuilt"} => todo \subseteq full
  /\ pc = "rebuilt" => cur \in full \ todo
  /\ pc \in {"loading", "refreshing", "persisting", "saving"} =>
       todo = IF kind = "sync" THEN full ELSE {}
  /\ pc \in {"loading", "refreshing", "persisting"} /\ kind = "sync" => stale = None
  /\ pc \in {"loading", "refreshing"} => \E r \in Repos : full = {r}

(* HEAD is recorded for git checkouts only.                                *)
PlainUnrecorded == \A r \in Repos \ GitRepos : state[r] = Nothing

(* The graph in memory and the working store differ by the delta that is   *)
(* still to be persisted.                                                  *)
DeltaPending ==
  /\ pc \in {"scanning", "rebuilding", "rebuilt", "refreshing", "persisting"} =>
       \A r \in Repos \ full : mem[r] = Without(nodes[r], stale[r])
  /\ pc = "saving" => \A r \in Repos \ full : mem[r] = nodes[r]
  /\ pc = "recording" => mem = nodes

(* How far the run has come with the repositories indexed as a whole ...   *)
ReadProgress ==
  \A r \in full :
    /\ pc = "parsing" /\ r \notin todo => Read(r)
    /\ pc = "rebuilding" /\ r \notin todo => Read(r) /\ Recorded(r)
    /\ pc = "rebuilt" /\ r \notin todo => Read(r) /\ (r = cur \/ Recorded(r))
    /\ pc \in {"persisting", "saving"} => Read(r) /\ (kind = "sync" \/ Recorded(r))
    /\ pc = "recording" => Read(r) /\ (r \in todo \/ Recorded(r))

(* ... and with those that follow a diff.                                  *)
DiffProgress ==
  \A r \in Repos \ full :
    /\ pc = "scanning" /\ r \in todo =>
         \A f \in Files \ drift[r] : At(mem[r], f) = At(state[r], f)
    /\ \/ pc = "scanning" /\ r \notin todo
       \/ pc \in {"rebuilding", "rebuilt"}
       \/ pc \in {"persisting", "saving", "recording"} /\ kind = "incremental"
       => Recorded(r) /\ Followed(r)

PipelineInv ==
  /\ TypeOK /\ KindOK /\ LoopOK /\ PlainUnrecorded /\ DeltaPending
  /\ ReadProgress /\ DiffProgress
=============================================================================
