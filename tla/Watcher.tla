------------------------------ MODULE Watcher ------------------------------
(***************************************************************************)
(* Live re-indexing of one repository (services/watcher.py): the watchdog  *)
(* thread records file events and schedules flushes on the asyncio loop;   *)
(* the loop thread runs timers and flushes and re-indexes what they bring. *)
(*                                                                         *)
(* _lock protects the recorded changes.  _pending_handle is also written   *)
(* by _set_timer, which does not take the lock, so the statements that     *)
(* touch it are steps of their own here.                                   *)
(***************************************************************************)
EXTENDS Naturals, Sequences, FiniteSets

CONSTANTS Files, Blobs,
          Absent,       \* no such file, no nodes of it
          MaxEvents,    \* bound: file events
          MaxFailures   \* bound: re-indexings that raise

ASSUME WatcherAssumption ==
  MaxEvents \in Nat /\ MaxFailures \in Nat /\ Absent \notin Blobs

Content == Blobs \cup {Absent}
EventNo == 1 .. MaxEvents

VARIABLES
  disk,      \* [Files -> Content]
  events,    \* watchdog's queue: the files and whether they were deleted
  sent,      \* events so far
  changed, deleted,  \* _changed and _deleted
  window,    \* batch window: "closed" (_batch_start is None), "open", "over"
  wpc,       \* watchdog thread; it holds _lock unless "idle"
  seen,      \* events recorded so far; names the handle of the last one
  pending,   \* _pending_handle
  live,      \* [EventNo -> "none" | "soon" | "timer"]: handles that will run
  lpc,       \* loop thread: where in _set_timer
  arming,    \* the event whose _set_timer runs
  flushes,   \* scheduled _flush calls
  batches,   \* flushed changes waiting for _update_lock
  ipc,       \* step of _on_files_changed
  delta,     \* files to delete from and to save in the stores
  graph, saved,  \* [Files -> Content]: nodes in memory, and in the graph store
  vectors,   \* [Files -> Content]: nodes with a vector in the vector store
  failures,  \* re-indexings that raised
  \* History, for the properties:
  skipped,   \* files that exist and that the last batch they were in left out
  dropped    \* files of a batch that raised and not saved again since

recorded == <<changed, deleted, window>>
handles  == <<pending, live, flushes>>
watchdog == <<events, wpc, seen>>
loop     == <<lpc, arming>>
history  == <<skipped, dropped>>
indexing == <<batches, ipc, delta, graph, saved, vectors, failures, history>>
world    == <<disk, sent>>
vars     == <<world, recorded, handles, watchdog, loop, indexing>>

NoHandle == [kind |-> "none", of |-> 0]
NoDelta == [remove |-> {}, save |-> {}]

Init ==
  /\ disk \in [Files -> Content] /\ graph = disk /\ saved = disk /\ vectors = disk
  /\ events = <<>> /\ sent = 0
  /\ changed = {} /\ deleted = {} /\ window = "closed"
  /\ wpc = "idle" /\ seen = 0
  /\ pending = NoHandle /\ live = [n \in EventNo |-> "none"] /\ flushes = 0
  /\ lpc = "idle" /\ arming = 0
  /\ batches = <<>> /\ ipc = "idle" /\ delta = NoDelta /\ failures = 0
  /\ skipped = {} /\ dropped = {}

(* A file is written or deleted, and watchdog will report it.              *)
Edit(f, c) ==
  /\ sent < MaxEvents
  /\ disk[f] # c
  /\ disk' = [disk EXCEPT ![f] = c]
  /\ events' = Append(events, [file |-> f, gone |-> c = Absent])
  /\ sent' = sent + 1
  /\ UNCHANGED <<recorded, handles, wpc, seen, loop, indexing>>

WindowPasses ==
  /\ window = "open" /\ window' = "over"
  /\ UNCHANGED <<world, changed, deleted, handles, watchdog, loop, indexing>>

-----------------------------------------------------------------------------
(***************************************************************************)
(* The watchdog thread: _record_change and the two ways it schedules.      *)
(***************************************************************************)

(* Mutation of Record: a file keeps its place in the other set.             *)
RecordBoth ==
  LET e == Head(events)
  IN  /\ wpc = "idle" /\ events # <<>>
      /\ events' = Tail(events) /\ seen' = seen + 1
      /\ changed' = IF e.gone THEN changed ELSE changed \cup {e.file}
      /\ deleted' = IF e.gone THEN deleted \cup {e.file} ELSE deleted
      /\ window' = IF window = "closed" THEN "open" ELSE window
      /\ wpc' = IF window = "over" THEN "nowCancel" ELSE "cancel"
      /\ UNCHANGED <<world, handles, loop, indexing>>

Record ==
  LET e == Head(events)
  IN  /\ wpc = "idle" /\ events # <<>>
      /\ events' = Tail(events) /\ seen' = seen + 1
      /\ changed' = IF e.gone THEN changed \ {e.file} ELSE changed \cup {e.file}
      /\ deleted' = IF e.gone THEN deleted \cup {e.file} ELSE deleted \ {e.file}
      /\ window' = IF window = "closed" THEN "open" ELSE window
      /\ wpc' = IF window = "over" THEN "nowCancel" ELSE "cancel"
      /\ UNCHANGED <<world, handles, loop, indexing>>

WatchdogGoto(from, to) ==
  /\ wpc = from /\ wpc' = to
  /\ UNCHANGED <<world, recorded, events, seen, loop, indexing>>

(* handle.cancel(): nothing if the handle has run or is cancelled already. *)
Cancelled(h) == [n \in EventNo |-> IF n = h.of /\ live[n] = h.kind THEN "none" ELSE live[n]]

DebounceCancel ==
  /\ WatchdogGoto("cancel", "call")
  /\ live' = Cancelled(pending)
  /\ UNCHANGED <<pending, flushes>>

(* call_soon_threadsafe(_set_timer): the loop may run it before the handle *)
(* is assigned.                                                            *)
DebounceCall ==
  /\ WatchdogGoto("call", "assign")
  /\ live' = [live EXCEPT ![seen] = "soon"]
  /\ UNCHANGED <<pending, flushes>>

(* Mutation of DebounceAssign: the previous timer is cancelled only now.    *)
DebounceAssignCancels ==
  /\ WatchdogGoto("assign", "idle")
  /\ live' = Cancelled(pending)
  /\ pending' = [kind |-> "soon", of |-> seen]
  /\ UNCHANGED flushes

DebounceAssign ==
  /\ WatchdogGoto("assign", "idle")
  /\ pending' = [kind |-> "soon", of |-> seen]
  /\ UNCHANGED <<live, flushes>>

NowCancel ==
  /\ WatchdogGoto("nowCancel", "nowCall")
  /\ live' = Cancelled(pending)
  /\ pending' = NoHandle
  /\ UNCHANGED flushes

(* Mutation of NowCall: the flush is left to the timer just cancelled.      *)
NowCallNothing ==
  /\ WatchdogGoto("nowCall", "idle")
  /\ UNCHANGED handles

NowCall ==
  /\ WatchdogGoto("nowCall", "idle")
  /\ flushes' = flushes + 1
  /\ UNCHANGED <<pending, live>>

-----------------------------------------------------------------------------
(***************************************************************************)
(* The loop thread: timers and flushes.                                    *)
(***************************************************************************)

(* _set_timer up to its test of the handle.                                *)
SetTimerBegin(n) ==
  /\ lpc = "idle" /\ live[n] = "soon"
  /\ live' = [live EXCEPT ![n] = "none"]
  /\ arming' = n
  /\ lpc' = IF pending = NoHandle THEN "arm" ELSE "cancel"
  /\ UNCHANGED <<world, recorded, pending, flushes, watchdog, indexing>>

(* The handle is read again to cancel it.  If _schedule_flush_now has set  *)
(* it to None since, this raises and no timer is armed.                    *)
SetTimerCancel ==
  /\ lpc = "cancel"
  /\ lpc' = IF pending = NoHandle THEN "idle" ELSE "arm"
  /\ live' = Cancelled(pending)
  /\ UNCHANGED <<world, recorded, pending, flushes, watchdog, arming, indexing>>

(* call_later.                                                             *)
SetTimerArm ==
  /\ lpc = "arm" /\ lpc' = "idle"
  /\ live' = [live EXCEPT ![arming] = "timer"]
  /\ pending' = [kind |-> "timer", of |-> arming]
  /\ UNCHANGED <<world, recorded, flushes, watchdog, arming, indexing>>

(* The debounce delay is over.                                             *)
TimerFires(n) ==
  /\ lpc = "idle" /\ live[n] = "timer"
  /\ live' = [live EXCEPT ![n] = "none"]
  /\ flushes' = flushes + 1
  /\ UNCHANGED <<world, recorded, pending, watchdog, loop, indexing>>

FlushEmpty ==
  /\ flushes > 0 /\ lpc = "idle" /\ wpc = "idle"
  /\ changed \cup deleted = {}
  /\ flushes' = flushes - 1
  /\ UNCHANGED <<world, recorded, pending, live, watchdog, loop, indexing>>

(* Mutation of Flush: nothing but deletions is taken for nothing.           *)
FlushChanged ==
  /\ flushes > 0 /\ lpc = "idle" /\ wpc = "idle"
  /\ changed \cup deleted # {}
  /\ flushes' = flushes - 1
  /\ IF changed = {}
     THEN UNCHANGED <<batches, recorded, pending>>
     ELSE /\ batches' = Append(batches, [changed |-> changed, deleted |-> deleted])
          /\ changed' = {} /\ deleted' = {} /\ window' = "closed"
          /\ pending' = NoHandle
  /\ UNCHANGED <<world, live, watchdog, loop, ipc, delta, graph, saved, vectors, failures, history>>

(* _flush: the changes are swapped out under the lock and handed on.       *)
Flush ==
  /\ flushes > 0 /\ lpc = "idle" /\ wpc = "idle"
  /\ changed \cup deleted # {}
  /\ flushes' = flushes - 1
  /\ batches' = Append(batches, [changed |-> changed, deleted |-> deleted])
  /\ changed' = {} /\ deleted' = {} /\ window' = "closed"
  /\ pending' = NoHandle
  /\ UNCHANGED <<world, live, watchdog, loop, ipc, delta, graph, saved, vectors, failures, history>>

-----------------------------------------------------------------------------
(***************************************************************************)
(* _on_files_changed, one batch at a time in the order they were flushed.  *)
(***************************************************************************)

IndexGoto(from, to) ==
  /\ ipc = from /\ ipc' = to
  /\ UNCHANGED <<world, recorded, handles, watchdog, loop>>

(* The graph builder's index_files: nodes of all these files leave the     *)
(* graph in memory, then those that are changed and exist are parsed again. *)
(* A file that is too large, that the parser raises on, or that has no     *)
(* symbols is left out, and the batch goes on.                             *)
IndexFiles ==
  /\ batches # <<>>
  /\ IndexGoto("idle", "embed")
  /\ LET b == Head(batches)
         touched == b.changed \cup b.deleted
         there == {f \in b.changed : disk[f] # Absent}
     IN  \E S \in SUBSET there :
           /\ graph' = [f \in Files |-> IF f \in there \ S THEN disk[f]
                                        ELSE IF f \in touched THEN Absent ELSE graph[f]]
           /\ delta' = [remove |-> {f \in touched : graph[f] # Absent}, save |-> there \ S]
           /\ skipped' = (skipped \ touched) \cup S
  /\ batches' = Tail(batches)
  /\ UNCHANGED <<saved, vectors, failures, dropped>>

(* embed_and_upsert: still inside index_files, so before any deletion.     *)
Embed ==
  /\ IndexGoto("embed", "delete")
  /\ vectors' = [f \in Files |-> IF f \in delta.save THEN graph[f] ELSE vectors[f]]
  /\ UNCHANGED <<batches, delta, graph, saved, failures, history>>

(* Mutation of PersistDelete: deleted from the vector store only.           *)
PersistDeleteVectors ==
  /\ IndexGoto("delete", "save")
  /\ vectors' = [f \in Files |-> IF f \in delta.remove THEN Absent ELSE vectors[f]]
  /\ UNCHANGED <<batches, delta, graph, saved, failures, history>>

(* Mutation of PersistDelete: deleted from the graph store only.            *)
PersistDeleteNodes ==
  /\ IndexGoto("delete", "save")
  /\ saved' = [f \in Files |-> IF f \in delta.remove THEN Absent ELSE saved[f]]
  /\ UNCHANGED <<batches, delta, graph, vectors, failures, history>>

(* delete_nodes_by_ids, and the vector store's delete of the same ids: a   *)
(* file parsed again has the ids it had, so its new vectors go too.        *)
PersistDelete ==
  /\ IndexGoto("delete", "save")
  /\ saved' = [f \in Files |-> IF f \in delta.remove THEN Absent ELSE saved[f]]
  /\ vectors' = [f \in Files |-> IF f \in delta.remove THEN Absent ELSE vectors[f]]
  /\ UNCHANGED <<batches, delta, graph, failures, history>>

(* save_partial.                                                           *)
PersistSave ==
  /\ IndexGoto("save", "idle")
  /\ saved' = [f \in Files |-> IF f \in delta.save THEN graph[f] ELSE saved[f]]
  /\ delta' = NoDelta
  /\ dropped' = dropped \ delta.save
  /\ UNCHANGED <<batches, graph, vectors, failures, skipped>>

(* Embedding or a store raises: it is logged and the batch is dropped,     *)
(* with the graph in memory changed already.                               *)
IndexFails ==
  /\ failures < MaxFailures
  /\ \E step \in {"embed", "delete", "save"} : IndexGoto(step, "idle")
  /\ failures' = failures + 1
  /\ delta' = NoDelta
  /\ dropped' = dropped \cup delta.remove \cup delta.save
  /\ UNCHANGED <<batches, graph, saved, vectors, skipped>>

WatchdogStep ==
  \/ Record \/ DebounceCancel \/ DebounceCall \/ DebounceAssign \/ NowCancel \/ NowCall

LoopStep ==
  \/ \E n \in EventNo : SetTimerBegin(n) \/ TimerFires(n)
  \/ SetTimerCancel \/ SetTimerArm \/ FlushEmpty \/ Flush

IndexStep == IndexFiles \/ Embed \/ PersistDelete \/ PersistSave

Next ==
  \/ \E f \in Files, c \in Content : Edit(f, c)
  \/ WindowPasses
  \/ WatchdogStep \/ LoopStep \/ IndexStep \/ IndexFails

(* Both threads run, and batches are processed; time passes, but edits and *)
(* the end of the batch window are not forced.                             *)
Fairness == WF_vars(WatchdogStep) /\ WF_vars(LoopStep) /\ WF_vars(IndexStep)

Spec == Init /\ [][Next]_vars /\ Fairness

-----------------------------------------------------------------------------
(***************************************************************************)
(* Properties.                                                             *)
(***************************************************************************)

Handle == [kind : {"none", "soon", "timer"}, of : EventNo \cup {0}]

(* Every variable has its type, and no file is both changed and deleted.   *)
TypeOK ==
  /\ disk \in [Files -> Content] /\ graph \in [Files -> Content]
  /\ saved \in [Files -> Content] /\ vectors \in [Files -> Content]
  /\ events \in Seq([file : Files, gone : BOOLEAN]) /\ sent \in 0 .. MaxEvents
  /\ changed \subseteq Files /\ deleted \subseteq Files /\ changed \cap deleted = {}
  /\ window \in {"closed", "open", "over"}
  /\ wpc \in {"idle", "cancel", "call", "assign", "nowCancel", "nowCall"}
  /\ seen \in Nat /\ seen + Len(events) = sent /\ (wpc # "idle" => seen # 0)
  /\ pending \in Handle /\ live \in [EventNo -> {"none", "soon", "timer"}]
  /\ lpc \in {"idle", "cancel", "arm"} /\ arming \in EventNo \cup {0}
  /\ (lpc # "idle" => arming # 0)
  /\ flushes \in Nat
  /\ batches \in Seq([changed : SUBSET Files, deleted : SUBSET Files])
  /\ ipc \in {"idle", "embed", "delete", "save"}
  /\ delta \in [remove : SUBSET Files, save : SUBSET Files]
  /\ failures \in 0 .. MaxFailures /\ skipped \subseteq Files /\ dropped \subseteq Files

(* Something on the loop that will end in a flush.                          *)
FlushComing ==
  \/ \E n \in EventNo : live[n] # "none"
  \/ flushes > 0
  \/ lpc = "arm"
  \/ lpc = "cancel" /\ pending # NoHandle

(* Recorded changes never wait without a flush to come, however the two    *)
(* threads' writes of _pending_handle and their cancels interleave         *)
(* (_schedule_flush_debounced, _schedule_flush_now, _set_timer).           *)
NoStrandedChanges ==
  wpc = "idle" /\ changed \cup deleted # {} => FlushComing

(* Nothing is left of a change once it is flushed: when no batch is being  *)
(* processed, the graph store holds the nodes of the graph in memory       *)
(* (_on_files_changed).  A batch that raised is dropped, but only its own  *)
(* files suffer, and only until they are indexed again.                    *)
StoreMatchesGraph ==
  ipc = "idle" => \A f \in Files \ dropped : saved[f] = graph[f]

(* A search finds no vector of a node that is gone or that was parsed      *)
(* again since, between batches, with the same exception.                  *)
NoStaleVectors ==
  ipc = "idle" => \A f \in Files \ dropped : vectors[f] \in {Absent, graph[f]}

(* "Each index refresh: ... 5. Embedding + vector store update": between   *)
(* batches, none failed, every node has its vector.  The code does not     *)
(* keep this: PersistDelete takes the vectors Embed has just written.      *)
VectorsMatchGraph == ipc = "idle" /\ failures = 0 => vectors = graph

(* Once files rest, the graph ends up with what is on disk, whatever was   *)
(* flushed between a deletion and a re-creation, whatever a batch read of  *)
(* a file changed again, and whatever batches raised; and its store does.  *)
(* Excepted are the files that the last parse left out, and in the store   *)
(* those of a batch that raised.                                           *)
GraphFollowsDisk ==
  <>[] \A f \in Files :
         /\ f \in skipped \/ graph[f] = disk[f]
         /\ f \in dropped \/ saved[f] = graph[f]

(* A recorded change does not stay behind, however often its timer was     *)
(* cancelled for a later one.                                              *)
ChangesFlushed ==
  \A f \in Files : f \in changed \cup deleted ~> f \notin changed \cup deleted

-----------------------------------------------------------------------------
(* The inductive invariant: the promise also holds while the watchdog      *)
(* thread has scheduled _set_timer and not yet assigned its handle.        *)
FlushPromised ==
  wpc \in {"idle", "assign"} /\ changed \cup deleted # {} => FlushComing

(* The delta is what the stores lack of the graph.                         *)
DeltaCovers ==
  \A f \in Files :
    \/ f \in dropped
    \/ /\ ipc = "idle" => saved[f] = graph[f]
       /\ ipc \in {"embed", "delete"} =>
            /\ f \notin delta.remove \cup delta.save => saved[f] = graph[f]
            /\ f \in delta.remove \ delta.save => graph[f] = Absent
       /\ ipc = "save" /\ f \notin delta.save => saved[f] = graph[f]

(* Vectors of files yet to be embedded or deleted may be stale; those that *)
(* are saved anew never are.                                               *)
VectorsCovered ==
  \A f \in Files :
    \/ vectors[f] \in {graph[f], Absent}
    \/ f \in dropped /\ (ipc \in {"delete", "save"} => f \notin delta.save)
    \/ ipc = "embed" /\ f \in delta.remove \cup delta.save
    \/ ipc = "delete" /\ f \in delta.remove \ delta.save

WatcherInv == TypeOK /\ FlushPromised /\ DeltaCovers /\ VectorsCovered
=============================================================================
