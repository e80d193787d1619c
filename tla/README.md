# Mimir: a TLA+ model of indexing, publication, retrieval, sessions and guardrails

Mimir parses source repositories into one code graph, publishes versions of that graph, and answers
queries of coding agents from the active version; it remembers what a session was given, and checks
changes against rules. This directory models the parts of it in which several processes or threads meet,
in which a step can fail between two writes, or in which a loop over a graph decides an answer. Each
module is translated from the code under `src/mimir`; `PROJECT.json` ("map") names the lines behind every definition.

## The system

| Component | State | Operations | Interacts with |
|---|---|---|---|
| Index publication (`runtime.py`, `sqlite_index_metadata.py`) | table `index_versions`, directories `indexes/<version>/` | `publish_graph`, `activate_version`, `prune_versions`: one process each | query runtimes read table and files |
| Query runtime (`QueryRuntime`, HTTP `lifespan`) | the served view | start-up, `reload_if_changed` polled every 10 s | publication |
| Job queue and worker (`sqlite_index_jobs.py`, `worker_once`, `worker_loop`) | table `index_jobs` | `enqueue` (coalescing, pinned commits), `claim_next`, `complete`, `fail` | starts index runs |
| Index runs (`indexing/service.py`, `builder.py`, `sqlite_graph.py`, `repo_sync.py`) | working store `project/graph.db` with `repo_state`, the graph in memory | clean, incremental and sync runs | checkouts (working directory and HEAD), publication |
| File watcher (`watcher.py`) | recorded changes, a timer handle, a batch window | `_record_change` on watchdog's thread; `_set_timer`, `_flush`, `_on_files_changed` on the loop | graph in memory, graph store, vector store |
| Sessions (`session_context.py`, `services/session.py`, `domain/session.py`, `sqlite_session.py`) | table `sessions`: query history, context window, a row per session | load, de-duplicate against the window, fit, record, prune, save, answer, purge | retrieval hands it a bundle; it records implicit feedback |
| Feedback (`services/feedback.py`, `sqlite_feedback.py`) | table of signals, counts per node and per pair | `record`, purge | written by sessions and by clients, read by quality scoring |
| Vector store, hydration (`numpy_store.py`, `hydration.py`) | parallel lists of ids and metadata, a matrix, a map from ids to positions | `upsert`, `delete`, `reset`, hydrate from a graph | written by index runs and the watcher, read by retrieval |
| Retrieval (`services/retrieval/`, `domain/subgraph.py`) | a subgraph per request | seeds, trimming, expansion, type and config context, budget fitting | graph and vector store of the query view |
| Guardrails, approvals (`services/guardrail/`, `commands/guardrail.py`) | none of their own: rules in a file, approvals in git trailers | diff to ChangeSet, evaluate, apply approvals; `check`, `approve`, `validate_change` | graph, git, impact analysis |
| Impact analysis (`services/impact.py`) | none | breadth-first search over dependants | graph |
| Agent policy, catalog, quality, temporal, write context, linker, parsers, embedders, adapters, web, Backstage plugin, Python client | caches at most | pure functions, formatting, I/O | all of the above |

What is hard: unsynchronised processes over SQLite tables whose reads and writes are separate
statements, next to files that belong to no transaction; a process killed between two of them;
in-memory deltas persisted after the state that says they are; files parsed from a working directory and recorded
under a commit; two threads writing one timer handle; a session row that overlapping requests replace whole and that
is saved before the answer goes out; caps, thresholds and budgets that cut a search short.
`PROJECT.json` ("hazards") lists each of these at its line, with the properties that cover it.

## Modules

```
ActiveCatalog            what the index metadata promises (abstract)
  ^ implemented by
IndexPublication         publish / activate / prune and query runtimes   MCIndexPublication, IndexPublicationProofs
IndexJobs                the job queue and its workers                   MCIndexJobs, IndexJobsProofs
IndexerPipeline          index runs over the working store               MCIndexerPipeline, IndexerPipelineProofs
Watcher                  live re-indexing                                MCWatcher, WatcherProofs

Feedback                 signals and their counts
  ^ extended by
Sessions                 one session's requests                          MCSessions, SessionsProofs

CodeGraph                the graph as a value: add, remove, neighbours
  ^ extended by          ^ extended by
  Impact                 VectorIndex     rows, ids, matrix, hydration
  ^                      ^
  DiffAnalyzer           Retrieval       one get_context request         MCRetrieval, RetrievalProofs
  ^
  Guardrails             rules, approvals, a branch and its checks       MCGuardrails, GuardrailsProofs

RecursionLemmas          induction, recursive functions, finite sums     used by the last three Proofs modules
```

The four modules of the indexer compose by abstraction: `IndexJobs.Finish` is a whole run of
`IndexerPipeline`, whose `Publish` and `Rollback` are the commands `IndexPublication` takes apart. Those
of the server compose by EXTENDS: the session's actions record feedback, the request of `Retrieval` reads
the vector store that `VectorIndex`'s operations write, and the rules of `Guardrails` are evaluated on what
`DiffAnalyzer` and `Impact` compute. `Retrieval.Dedup` is the session's cut as any subset of the bundle;
`Sessions` starts from any bundle retrieval can return. Every module keeps all control of the code (guards, early returns, the order of writes, failures) and abstracts data.

**IndexPublication.** An operator is an indexer process, `pc` the statement it is about to execute,
`rows`/`activeRows`/`createdAt`/`modelOf` the table, `disk` what each version directory holds:
nothing, a directory, an empty database or the saved graph. Publishing is four steps (directory, save,
`created_at`, row), activation three, prune a loop of three steps per version. `Abort` kills a command
anywhere. `mixed` are the saved graphs whose embeddings have more than one dimension: a sync or incremental run after
a change of the embedding model publishes one, and `publish_graph` does not look. A query runtime polls, checks the
file and its embedding model, opens the store (which creates a missing database) and checks the dimensions of what it
has loaded (`_validate_graph_embeddings`) before the view is replaced: a mixed version is refused by every poll and
every start-up. `condemned` is a history variable. A version id is handed out once (microsecond timestamps are taken
to be distinct).

**IndexJobs.** A client is one `enqueue` call and names the row it may insert. `SELECT` and `UPDATE`
of `claim_next` and of `enqueue` are separate steps, of any number of worker and client processes; `_update` writes the
row back from the stale copy, its commit included (`wsha`). `answered`, `claims`, `revived`, `superseded` and
`overtaken` are history: a call is answered by a run at the commit it named or at one that a later call put in its
place. `Finish` covers success and failure alike.

**IndexerPipeline.** A commit is the tree it holds, and the nodes of a repository are the files they were parsed from.
A checkout has a HEAD (`head`) and a working directory (`tree`): `index_repo` walks the directory, uncommitted and
untracked files included, and the run records HEAD as it is when that is read; only the diff of an incremental run is
between commits. `Move` commits, pulls or switches branches and keeps what is uncommitted, `Edit` changes a file
without committing it, both also in the middle of a run; the hard reset of a sync keeps untracked files. A parse leaves
out any files (too large, the parser raises, no symbols: `IndexRepo`), which counts as a failure. `nodes`/`state` are
the tables of the working store, `mem` the graph in memory, `full`/`stale` the delta a run has to persist.
Each transaction is a step, and each DELETE of `clear()`, so a run can fail (`Fail`) between any two; `Rollback`
activates an older version. The scan visits repositories in any order (the code uses
that of the configuration). `ScanChanged` is a `NameError`: `index_incremental` uses `os.path`, and
`service.py` does not import `os`. The phases the error makes unreachable for changed files are not
modelled. `moved`, `touched`, `skipped` and `drift` are history of the current run: HEAD moved since the parse, files
changed since it, files it left out, files whose nodes were not those of the recorded commit when the run began.
Parsing a repository is one step, and git is read successfully unless a directory has none. Edges are left out.

**Watcher.** One repository. The statements on `_pending_handle` are single steps of two threads:
watchdog's holds the lock, the loop's `_set_timer` does not. `live` says which handles will still run,
`flushes` the `_flush` calls scheduled, `batches` those waiting for `_update_lock`. A batch removes the nodes of its
files and parses those that exist, of which any may be left out (the parser raises, the size limit: `skipped`), and
goes on; it is embedded, its deletions and then its additions are persisted; `IndexFails` drops it anywhere
(`dropped`). `stop()`, watchdog
overflow and repositories missing at start-up are left out. `FileWatcherService` is wired in
`container.py`, but no command of this version starts it.

**Feedback.** `ledger` holds the three tables as committed, `draft` as the connection with the open transaction sees
them. A record that returns (`AddSignal`) commits its row, its counts and whatever that transaction already holds;
one that raises (`AddSignalFails`) rolls nothing back: any part of its counts stays in the transaction, which keeps
SQLite's write lock (`writer`) until the next record of that connection or its death (`CloseFeedback`). Lists may name
an id twice. `PurgeSignals` drops any signals (90 days may have passed), never counts; when it finds none it leaves
its transaction open, which the next record of the process commits.

**Sessions.** A process is `idle`, about to `create` the row, to `apply` the session to a bundle, to
`save` or to `send`; `copy` is the session it has loaded. Each database transaction is a step, and what lies between
two of them (`session_dedup`, `fit_subgraph_to_budget`, `record_query`, `prune`) is one, since
`apply_session_context` awaits nothing; the processes of one workspace interleave at transactions. The answer is
formatted and sent after the row is committed: `SendFails` (a formatting error, a client that is gone) and a `Crash`
in between lose it, and `lost` says which nodes it had. `SaveFails` is an INSERT that finds the database locked; it
is allowed at any time, and a commit that fails after its INSERT (a full disk) is left out, as is the older snapshot a
connection keeps reading after such a failure. `at[n]`
and `about[n]` are turn and topic of the context entry of n. A decay weight
`exp(-ln 2 * turns / HalfLife) + 0.2 * similarity` is compared with its threshold in integers, both sides raised to the power `HalfLife` (`Power`).
`Persisted` models `to_dict`: a `QueryRecord` loses its embedding. Hence `RecordImplicit` never finds a
previous embedding after a reload, and since every request reloads its session, no implicit signal is
recorded through `get_context` in this version; the action is there as the code has it. `handed`, `lost`,
`lastTurn`, `answers` and `overlapped` are history.

**VectorIndex.** Lists, matrix and map are variables of their own, changed as the code changes them:
the loop of `upsert` (`Put`, a recursive function) collects the rows it does not know and the positions it
overwrites, `delete` keeps the other positions (`Kept`) and rebuilds the map, `hydrate` adds what is missing. A vector is the number of its write, so a row that
belongs to another id or to an older write shows (`RowsCarryLatest`).

**Retrieval.** The steps are the iterations of the loops, so the budget loop can be asked whether it ends.
Scores are real numbers: they decide orders and ties, and the model allows every order; the similarity
gate is any of a few sets of relevant nodes. `FindSeeds` is the search itself: without a vector hit in the
graph the answer is empty, whatever the keyword searches would have found. The recording of retrieval
metadata is off in the query runtime and left out, as are scores and wording.

**Impact, DiffAnalyzer, Guardrails.** Pure functions of a graph, a diff and a rule file, and a state machine
around them: a developer edits, creates, renames, stages and commits files or approves, the indexer publishes another
graph, and checks run on the diff they are given (the hook's staged one, a pipeline's branch: `CheckGiven`), on the one
`git_auto_diff` finds (staged, else unstaged, else committed: `CheckAuto`), or on what a client sends. `run_git`
prints nothing when git fails or its output cannot be decoded, and the search goes on to the next diff: every set of
failing commands is tried, and `unread` marks a check for which the staged diff was not to be had. New files are in no diff before
they are staged. A rule's pattern is the set of what it matches. A configuration value that `load_rules` does not look at may have
the wrong type (`Wrong`): each rule type raises where its handler comes to use it (`BanRaises`, `PatternRaises`,
`ImpactRaises`, `Raises`), an `edge_kind` of the wrong type filters nothing, and the rule that raises is passed over,
as in `evaluate`. The lines of a diff and of a commit message are parsed already. What the code does and a reader may not
expect, and the model therefore does too: `guardrail approve` commits whatever is staged, although
`docs/guardrails.md` line 111 speaks of an empty commit (no run is spent on this; the commit is the one that was
checked); a file that git shows as binary is a modified one, also when it is deleted (`StatusOf`), so that
nothing of its deletion is measured; a renamed file is looked up
under its new path only; a recursive function counts as its own caller; an edge from an added import
points to the text of the import, so rules on cross-repository edges never meet one. A cycle search that raises
(`service.py` line 274, logged) is left out.

## What the runs show

Passing runs:

- `publication_single`: one operator, one query runtime, three versions, three commands, two embedding
  models. `ActiveNeverLost`, `ListedGraphIntact` and `ActiveHasGraph` hold through every crash;
  `ServesPublishedGraph`: what a runtime serves as a version is what was published as it, unless a prune
  took the version out while it was being loaded (the store opened then is a new, empty one);
  `ImplementsCatalog`: the table refines `ActiveCatalog`; `QueriesConverge`: runtimes end up on the
  version that stays active if they can load it, also after a rollback and after polls that failed. A version of
  another model or with embeddings of two dimensions is never loaded; for those the property promises nothing, and
  the code does nothing. Prune keeps one version (`Keeps`): three versions and
  three commands are what it takes for it to keep an old active one, keep a newest one and remove a third.
- `jobs_queue`: three calls on one or two keys, two workers of which one may die; two of the calls may name a commit,
  each its own (`Pins`), one names none.
  `NoLostRequest`: a call is waiting in the queue, or a run began after it, at the commit it named or a later one.
  Two interleavings are excepted by name, for both of which `_update` is to blame: a row that a pinned call put back to
  queued under a running worker (`revived`), and a pinned call whose commit is overwritten by the copy a worker had read
  before it (`overtaken`). `ClaimedOnce`: two workers that select the same row both run it, but none runs it twice.
  `QueueDrains`. Three calls suffice for one that runs, one that joins and one that revives.
- `pipeline_exact`: two repositories with two files each, two changes (moves of HEAD or uncommitted edits) at any time,
  one failed run or incomplete parse, all commands, symmetric in repositories and files. `FullRunExact`: a repository that
  is indexed as a whole (clean and sync runs, rebuilds) is published as its working directory was, with HEAD recorded.
  `IncrementalRunExact`: the others are brought to HEAD file by file. `StoreMatchesGraph` says the delta
  that was persisted is complete. Excepted is what the code cannot know: a HEAD that moved after it was read (`moved`),
  files changed since they were parsed (`touched`), files the parse left out (`skipped`, which must then be absent), and, in an
  incremental run, files whose nodes were wrong before (`drift`): the last are not repaired by such runs, which is why the
  exception stands there and not in `FullRunExact`. Two repositories are needed for one to be persisted with another's delta.
- `watcher_flush`: two files, three events, one failing batch, parses that leave any files out. `NoStrandedChanges`,
  `ChangesFlushed`, `GraphFollowsDisk` (but for files the last parse left out), `StoreMatchesGraph`, `NoStaleVectors` (but
  for the files of a batch that raised, until they are indexed again). Three events give a timer that is armed,
  one being cancelled and one that exceeds the batch window.

- `sessions_dedup`: two server processes, one session, four requests (searches and judgements), one crash or lost answer,
  three nodes of which one is too large for a budget, two topics, symmetric in processes and topics. The window keeps one
  entry and the history two records, so that
  four requests prune both. `OmittedWasSent`: what is left out as known was sent, is on its way, or was in an answer lost
  after its row was saved (`lost`), whatever overlaps;
  `RowsConsistent`: the window of a row says of every node the last turn that delivered it;
  `TurnCountsAnswers` and `NoEarlyResend` for sessions whose requests do not overlap;
  `AggregatesCountSignals`: the counts lie between the sums over the signals whose record returned and the sums over all
  that were inserted, repeated ids, purged signals and signals of a transaction left open by an error included. A judged
  list names an id twice, and several signals may share a transaction.
- `guardrails_gate`: two files and a namesake in a second repository, six changes (edits, deletions of a text and of a
  binary file, a rename, a new file), three rule files with mistyped values of four of the five rule types, a malformed rule and a doubled rule id,
  two graphs, two commits, one
  reported cycle per rule, every set of failing git commands. `ApprovalLapses`, `CyclesDecided`, `DeletionsMeasured`
  (of text files, by `ERROR` rules without a mistyped value of their own), `ImpactExact`,
  `CommitsWhatWasChecked` (unless git could not print the staged diff). Two commits are what it takes for an approval to be
  followed by another commit.
- `retrieval`: five nodes of three kinds in two repositories, two graphs (a chain; a cycle that lost a node
  the store still holds), two writes per id, batches of two ids, two seeds, budgets that cut and that do
  not, one and three hops. `RowsCarryLatest`, `EdgesWithin`, `SeedsSurvive`, `ExpansionExact` (against
  reachability), `ContextExplained`, and `RequestAnswered`: every loop ends, also when seeds alone exceed
  the budget. Without a session such an answer may exceed it: the first seed is kept whatever it costs.

Runs with a counterexample; `PROJECT.json` ("findings") quotes the text each one contradicts:

- `publication_overlap`: prune removes the version that became active while it worked.
- `jobs_durable`: a job whose worker died is never worked off.
- `pipeline_fresh`: no number of incremental runs indexes a changed file.
- `watcher_vectors`: a modified file loses its vectors, which are deleted after they are written.
- `guardrails_imports`: a change that adds a forbidden import passes a `dependency_ban`.

`MaxVersions`, `MaxCommands`, `MaxCrashes`, `MaxCommits`, `MaxEvents`, `MaxChanges`, `MaxFailures`, `MaxRequests`,
`MaxSeeds`, `BatchIds` and `Versions` bound how much happens and nothing else; `Keeps`, `MaxContext`,
`MaxHistory`, `HalfLife`, `MaxCycles` and `Hops` are parameters and limits of the code with small values. Deadlock is not
checked: when these bounds are used up and every process is idle the system may rest.

Mutants: for every property of a passing run, `PROJECT.json` names a definition and a plausible bug of
it, defined just before it, under which TLC finds the property violated.

## Fairness

- `IndexPublication`: weak fairness of each runtime's polling steps, since `start_polling` loops for
  ever and catches every exception. Nobody has to run or finish a command.
- `IndexJobs`: weak fairness of each worker's steps, since `worker_loop` polls for ever and `worker_once`
  catches what a run raises; it assumes that runs end. Nobody has to enqueue.
- `IndexerPipeline`: a run goes on once started, and incremental runs are repeated ("run the indexer
  after changes"). Moves, edits, failures and rollbacks are not forced.
- `Watcher`: both threads and the batches run; edits and the end of the window are not forced.

- `Retrieval`: weak fairness of the steps of a request, since one thread runs its loops to the end; nothing is
  awaited after the query is embedded. Nobody has to ask, or to use a session.
- `Sessions` and `Guardrails` have safety properties only: clients and developers may stop at any time.

## What is proved

TLAPS proves the following for all values of the constants.

- **IndexPublicationProofs.** `PublicationInv` is inductive for any processes: a version under
  publication is in nobody's list or target (`PublishingPrivate`), so its directory stays as the
  publisher left it (`SavedIsFull`) until the row makes it public. From it `TypeOK` and
  `ListedGraphIntact`. `SerialInv` is inductive on top of it under the assumption `PruneAlone` (a prune
  overlaps no other command, as in `publication_single`; `publication_overlap` shows it is needed): what
  prune is about to remove is not active (`RemovableTarget`), what is about to be activated is listed and has
  a file (`ActivatableTarget`). From it `ActiveNeverLost`, `ActiveHasGraph` and the refinement of
  `ActiveCatalog`. `ViewInv` adds what a runtime knows between its check and its load, and gives
  `ServesPublishedGraph`.
- **IndexJobsProofs.** `JobsInv` is inductive for any number of calls, workers and crashes: a worker that has read a row
  has not claimed it yet, and the row it runs is not in the queue (`WorkerRow`); a queued row was never
  claimed (`QueuedUnclaimed`); it has the commit of every call waiting in it, and so has the copy of whoever is about to
  claim it (`CommitKept`), in each case but for the two excepted interleavings. From it `TypeOK`, `NoLostRequest`,
  `ClaimedOnce`. `UnpinnedNeverRevived` shows that without pinned commits both exceptions are empty.
- **IndexerPipelineProofs.** `PipelineInv` is inductive for any repositories and files: graph in memory
  and store differ by the delta still to be persisted (`DeltaPending`); `ReadProgress` and `DiffProgress` state for each
  step which repositories have been brought to their working directory and which to HEAD, and with which exceptions.
  From it `TypeOK`, `StoreMatchesGraph` and the two `...RunExact` properties.
- **WatcherProofs.** `WatcherInv` is inductive for any files, events and failures. The core is
  `FlushPromised`: a flush is also promised while `_set_timer` has been scheduled and its handle not yet
  assigned, which is where the two threads meet. `DeltaCovers` and `VectorsCovered` say what a batch has
  still to do, also for a file that its parse left out, and whom a dropped batch leaves behind.

- **SessionsProofs.** `SessionsInv` is inductive for any processes, sessions, nodes, topics and limits, without
  restriction on overlaps. `SessionOK` says of every row and copy that turns increase by one up to the current
  one (`TurnsInOrder`) and that missing entries are older than all that are left (`WindowFollowsHistory`);
  lemmas show that `record_query`, `prune` and the round trip through JSON keep it. `EntriesWereSent` ties
  entries to what was sent, is about to be, or was saved and lost on the way; `TurnsCounted` says that a session without overlaps is in at most
  one request's hands. From it `TypeOK`, `OmittedWasSent`, `RowsConsistent` and `TurnCountsAnswers`.
  `ResendInv` is inductive on top of it and gives `NoEarlyResend`: `WindowsCurrent` says that the row, and the
  copy of whoever works on it, has for every node the last turn that delivered it, or has lost the entry and
  is full of entries no older. Before it is saved the copy is ahead of the row by what is about to be delivered.
  `AggregatesCountSignals` is inductive together with the same statement of the open transaction (`draft`): a sum over
  the signals is shown to grow by the new signal's part, and whatever part of it a record that raised has counted lies
  between nothing and that part.
- **RetrievalProofs.** `RetrievalInv` is inductive for any graphs, costs, budgets, gates and rankings; what a
  request needs of the vector store is only that hits are looked up in the graph. From it `TypeOK`,
  `EdgesWithin` and `SeedsSurvive`; the trimming lemma shows that the first seed survives any budget.
  `ExpansionInv` adds what the walk has found after each hop (`HopsExact`): the nodes `Within` so many hops, with
  nothing left to reach from nodes that were walked on. It gives `ExpansionExact`; that the walk
  may stop at an empty frontier needs that `Within` has a fixpoint after as many hops as there are nodes. `Explained` states
  connectedness without paths (no set that holds the seeds is closed under the bundle's edges but the bundle)
  and gives `ContextExplained`. `VectorInv` is inductive for any batches: it makes the map and the lists inverse to
  each other. `RowsCarryLatest` follows, from a loop invariant of `upsert`: after every id of the batch, what
  the collected updates and appends will make of the matrix is consistent with the lists as they are by then.
- **GuardrailsProofs.** `GuardrailsInv` is inductive for any graphs, rule files, changes and messages.
  `LastCurrent` (a check by the hook or by the automatic diff looked at what is staged as it still is, unless git could
  not print that) gives `CommitsWhatWasChecked`; `ApprovalLapses` needs that violations carry severities the rules know;
  `LastEvaluated` (what the last check found is what its rules say of its graph and diff) and `DiffsFinite` carry the
  properties of the algorithms into every state. These are lemmas: the breadth-first count of
  `Impact` is the number of nodes within `max_hops` (`ImpactExact`), an `ERROR` rule whose own values are well typed measures the deleted nodes by it
  (`DeletionsMeasured`), and a cycle rule reports something exactly when the target of a new edge reaches its source
  (`CyclesDecided`): from any way back a path without repetition is cut, and it is one of the cycles that are enumerated.
- **RecursionLemmas.** The library's induction theorems take an operator as a parameter, which the installed
  provers cannot instantiate. Here induction over the naturals is stated with a set instead (`NatSetInduction`, from
  well-foundedness), and a recursive function is shown to exist, to have its type, to agree with another run and
  to reach a fixpoint on a finite set (`RecursionExists`, `RecursionTyped`, `RunsAgree`, `Saturation`); sums over finite
  sets are unfolded one summand at a time (`SumUnfolds`). Recursion that a theorem meets is
  therefore written as recursive functions in the model, never with `RECURSIVE`.

The proofs assume of the constants only what each module's ASSUME states, and TLC evaluates: parameters are
numbers where the code reads numbers, a graph's edges join its nodes, node sets, diffs and their parsed symbols are
finite, a deleted file has an old path, git shows no lines of a binary file, a `max_hops` of a well-formed rule is an integer or of the wrong type.
`PruneAlone` is a hypothesis of the theorems that name it and not an assumption.

The stronger invariants (`VectorInv`, `ExpansionInv`, `ResendInv`, `GuardrailsInv` and the others) have been checked
by TLC on the instances of the runs before they were proved; the runs list the properties they are for.

Only model-checked is liveness (`QueriesConverge`, `QueueDrains`, `GraphFollowsDisk`, `ChangesFlushed`,
`RequestAnswered`): the prover has no rules for fairness and ENABLED. Every other property of a passing run is
stated by a theorem.

The violated properties have counterexamples instead.

## Not modelled

What a next step could add:

1. A composition of `IndexJobs` with `IndexerPipeline`: requests, runs and published commits end to end.
2. A composition of the query runtime with `Retrieval`: a generation swapped between requests, with hydration.
3. In `IndexPublication`: configuration hashes, other schema versions, `stop_polling`, `status()`.
4. In `Watcher`: `stop()`, overflow of watchdog's queue, repositories missing at start-up.

Left out for good, since no state of theirs lasts from one call to the next: parsing of source files and of
diff text, embedding and summaries (external libraries), linking by names and routes, agent policy (patterns
on paths and tools), catalog, quality, temporal and write context (scoring on floats over one graph),
formatting, request handling in the HTTP, MCP, CLI and web adapters, configuration and wiring, the Backstage
plugin and the Python client. `PROJECT.json` ("components") says of each component what is modelled.
