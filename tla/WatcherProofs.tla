--------------------------- MODULE WatcherProofs ---------------------------
(* Theorems of Watcher: every set of files, any number of events and of    *)
(* failures, and every interleaving of the two threads.                    *)
EXTENDS Watcher, SequenceTheorems, TLAPS

LEMMA OneMore ==
  \A a, b, c \in Nat : a + b = c => (a + 1) + (b - 1) = c /\ a + 1 \in Nat /\ a + 1 # 0
  OBVIOUS

LEMMA InitWatcherInv == Init => WatcherInv
  BY WatcherAssumption
  DEF Init, WatcherInv, TypeOK, FlushPromised, DeltaCovers, VectorsCovered, EventNo, Handle, NoHandle,
      NoDelta

LEMMA NextWatcherInv == WatcherInv /\ [Next]_vars => WatcherInv'
<1> SUFFICES ASSUME WatcherInv, [Next]_vars PROVE WatcherInv'
  OBVIOUS
<1> USE WatcherAssumption
    DEF WatcherInv, TypeOK, FlushPromised, FlushComing, DeltaCovers, VectorsCovered, EventNo, Handle,
        NoHandle, NoDelta, Content, world, recorded, handles, watchdog, loop, indexing, history
<1>1. ASSUME NEW f \in Files, NEW c \in Content, Edit(f, c) PROVE WatcherInv'
  <2>1. TypeOK'
    BY <1>1 DEF Edit
  <2>2. FlushPromised'
    BY <1>1 DEF Edit
  <2>3. DeltaCovers'
    BY <1>1 DEF Edit
  <2>4. VectorsCovered'
    BY <1>1 DEF Edit
  <2>5. QED
    BY <2>1, <2>2, <2>3, <2>4
<1>2. ASSUME WindowPasses PROVE WatcherInv'
  <2>1. TypeOK'
    BY <1>2 DEF WindowPasses
  <2>2. FlushPromised'
    BY <1>2 DEF WindowPasses
  <2>3. DeltaCovers'
    BY <1>2 DEF WindowPasses
  <2>4. VectorsCovered'
    BY <1>2 DEF WindowPasses
  <2>5. QED
    BY <2>1, <2>2, <2>3, <2>4
<1>3. ASSUME Record PROVE WatcherInv'
  <2>1. TypeOK'
    <3>1. /\ Head(events) \in [file : Files, gone : BOOLEAN]
          /\ Tail(events) \in Seq([file : Files, gone : BOOLEAN])
          /\ Len(events) \in Nat /\ Len(Tail(events)) = Len(events) - 1
      BY <1>3, HeadTailProperties, LenProperties DEF Record
    <3>2. seen' + Len(events') = sent' /\ seen' \in Nat /\ seen' # 0
      <4>1. events' = Tail(events) /\ seen' = seen + 1 /\ sent' = sent
        BY <1>3 DEF Record
      <4>2. Len(events') = Len(events) - 1
        BY <3>1, <4>1
      <4>3. seen \in Nat /\ sent \in Nat /\ seen + Len(events) = sent
        OBVIOUS
      <4>4. (seen + 1) + (Len(events) - 1) = sent /\ seen + 1 \in Nat /\ seen + 1 # 0
        BY <3>1, <4>3, OneMore, Zenon
      <4>5. QED
        BY <4>1, <4>2, <4>4, Zenon
    <3>3. changed' \subseteq Files /\ deleted' \subseteq Files /\ changed' \cap deleted' = {}
      BY <1>3, <3>1 DEF Record
    <3>4. QED
      BY <1>3, <3>1, <3>2, <3>3 DEF Record
  <2>2. FlushPromised'
    BY <1>3 DEF Record
  <2>3. DeltaCovers'
    BY <1>3 DEF Record
  <2>4. VectorsCovered'
    BY <1>3 DEF Record
  <2>5. QED
    BY <2>1, <2>2, <2>3, <2>4
<1>4. ASSUME DebounceCancel PROVE WatcherInv'
  <2>1. TypeOK'
    BY <1>4 DEF DebounceCancel, WatchdogGoto, Cancelled
  <2>2. FlushPromised'
    BY <1>4 DEF DebounceCancel, WatchdogGoto, Cancelled
  <2>3. DeltaCovers'
    BY <1>4 DEF DebounceCancel, WatchdogGoto, Cancelled
  <2>4. VectorsCovered'
    BY <1>4 DEF DebounceCancel, WatchdogGoto, Cancelled
  <2>5. QED
    BY <2>1, <2>2, <2>3, <2>4
<1>5. ASSUME DebounceCall PROVE WatcherInv'
  <2>1. TypeOK'
    BY <1>5 DEF DebounceCall, WatchdogGoto
  <2>2. FlushPromised'
    BY <1>5 DEF DebounceCall, WatchdogGoto
  <2>3. DeltaCovers'
    BY <1>5 DEF DebounceCall, WatchdogGoto
  <2>4. VectorsCovered'
    BY <1>5 DEF DebounceCall, WatchdogGoto
  <2>5. QED
    BY <2>1, <2>2, <2>3, <2>4
<1>6. ASSUME DebounceAssign PROVE WatcherInv'
  <2>1. TypeOK'
    BY <1>6 DEF DebounceAssign, WatchdogGoto
  <2>2. FlushPromised'
    BY <1>6 DEF DebounceAssign, WatchdogGoto
  <2>3. DeltaCovers'
    BY <1>6 DEF DebounceAssign, WatchdogGoto
  <2>4. VectorsCovered'
    BY <1>6 DEF DebounceAssign, WatchdogGoto
  <2>5. QED
    BY <2>1, <2>2, <2>3, <2>4
<1>7. ASSUME NowCancel PROVE WatcherInv'
  <2>1. TypeOK'
    BY <1>7 DEF NowCancel, WatchdogGoto, Cancelled
  <2>2. FlushPromised'
    BY <1>7 DEF NowCancel, WatchdogGoto, Cancelled
  <2>3. DeltaCovers'
    BY <1>7 DEF NowCancel, WatchdogGoto, Cancelled
  <2>4. VectorsCovered'
    BY <1>7 DEF NowCancel, WatchdogGoto, Cancelled
  <2>5. QED
    BY <2>1, <2>2, <2>3, <2>4
<1>8. ASSUME NowCall PROVE WatcherInv'
  <2>1. TypeOK'
    BY <1>8 DEF NowCall, WatchdogGoto
  <2>2. FlushPromised'
    BY <1>8 DEF NowCall, WatchdogGoto
  <2>3. DeltaCovers'
    BY <1>8 DEF NowCall, WatchdogGoto
  <2>4. VectorsCovered'
    BY <1>8 DEF NowCall, WatchdogGoto
  <2>5. QED
    BY <2>1, <2>2, <2>3, <2>4
<1>9. ASSUME NEW n \in EventNo, SetTimerBegin(n) PROVE WatcherInv'
  <2>1. TypeOK'
    BY <1>9 DEF SetTimerBegin
  <2>2. FlushPromised'
    BY <1>9 DEF SetTimerBegin
  <2>3. DeltaCovers'
    BY <1>9 DEF SetTimerBegin
  <2>4. VectorsCovered'
    BY <1>9 DEF SetTimerBegin
  <2>5. QED
    BY <2>1, <2>2, <2>3, <2>4
<1>10. ASSUME SetTimerCancel PROVE WatcherInv'
  <2>1. TypeOK'
    BY <1>10 DEF SetTimerCancel, Cancelled
  <2>2. FlushPromised'
    BY <1>10 DEF SetTimerCancel, Cancelled
  <2>3. DeltaCovers'
    BY <1>10 DEF SetTimerCancel, Cancelled
  <2>4. VectorsCovered'
    BY <1>10 DEF SetTimerCancel, Cancelled
  <2>5. QED
    BY <2>1, <2>2, <2>3, <2>4
<1>11. ASSUME SetTimerArm PROVE WatcherInv'
  <2>1. TypeOK'
    BY <1>11 DEF SetTimerArm
  <2>2. FlushPromised'
    BY <1>11 DEF SetTimerArm
  <2>3. DeltaCovers'
    BY <1>11 DEF SetTimerArm
  <2>4. VectorsCovered'
    BY <1>11 DEF SetTimerArm
  <2>5. QED
    BY <2>1, <2>2, <2>3, <2>4
<1>12. ASSUME NEW n \in EventNo, TimerFires(n) PROVE WatcherInv'
  <2>1. TypeOK'
    BY <1>12 DEF TimerFires
  <2>2. FlushPromised'
    BY <1>12 DEF TimerFires
  <2>3. DeltaCovers'
    BY <1>12 DEF TimerFires
  <2>4. VectorsCovered'
    BY <1>12 DEF TimerFires
  <2>5. QED
    BY <2>1, <2>2, <2>3, <2>4
<1>13. ASSUME FlushEmpty PROVE WatcherInv'
  <2>1. TypeOK'
    BY <1>13 DEF FlushEmpty
  <2>2. FlushPromised'
    BY <1>13 DEF FlushEmpty
  <2>3. DeltaCovers'
    BY <1>13 DEF FlushEmpty
  <2>4. VectorsCovered'
    BY <1>13 DEF FlushEmpty
  <2>5. QED
    BY <2>1, <2>2, <2>3, <2>4
<1>14. ASSUME Flush PROVE WatcherInv'
  <2>1. TypeOK'
    BY <1>14 DEF Flush
  <2>2. FlushPromised'
    BY <1>14 DEF Flush
  <2>3. DeltaCovers'
    BY <1>14 DEF Flush
  <2>4. VectorsCovered'
    BY <1>14 DEF Flush
  <2>5. QED
    BY <2>1, <2>2, <2>3, <2>4
<1>15. ASSUME IndexFiles PROVE WatcherInv'
  <2>1. TypeOK'
    <3>1. /\ Head(batches) \in [changed : SUBSET Files, deleted : SUBSET Files]
          /\ Tail(batches) \in Seq([changed : SUBSET Files, deleted : SUBSET Files])
      BY <1>15, HeadTailProperties DEF IndexFiles
    <3>2. graph' \in [Files -> Content] /\ delta' \in [remove : SUBSET Files, save : SUBSET Files]
      BY <1>15, <3>1 DEF IndexFiles
    <3>3. QED
      BY <1>15, <3>1, <3>2 DEF IndexFiles, IndexGoto
  <2>2. FlushPromised'
    BY <1>15 DEF IndexFiles, IndexGoto
  <2>3. DeltaCovers'
    BY <1>15 DEF IndexFiles, IndexGoto
  <2>4. VectorsCovered'
    BY <1>15 DEF IndexFiles, IndexGoto
  <2>5. QED
    BY <2>1, <2>2, <2>3, <2>4
<1>16. ASSUME Embed PROVE WatcherInv'
  <2>1. TypeOK'
    BY <1>16 DEF Embed, IndexGoto
  <2>2. FlushPromised'
    BY <1>16 DEF Embed, IndexGoto
  <2>3. DeltaCovers'
    BY <1>16 DEF Embed, IndexGoto
  <2>4. VectorsCovered'
    BY <1>16 DEF Embed, IndexGoto
  <2>5. QED
    BY <2>1, <2>2, <2>3, <2>4
<1>17. ASSUME PersistDelete PROVE WatcherInv'
  <2>1. TypeOK'
    BY <1>17 DEF PersistDelete, IndexGoto
  <2>2. FlushPromised'
    BY <1>17 DEF PersistDelete, IndexGoto
  <2>3. DeltaCovers'
    BY <1>17 DEF PersistDelete, IndexGoto
  <2>4. VectorsCovered'
    BY <1>17 DEF PersistDelete, IndexGoto
  <2>5. QED
    BY <2>1, <2>2, <2>3, <2>4
<1>18. ASSUME PersistSave PROVE WatcherInv'
  <2>1. TypeOK'
    BY <1>18 DEF PersistSave, IndexGoto
  <2>2. FlushPromised'
    BY <1>18 DEF PersistSave, IndexGoto
  <2>3. DeltaCovers'
    BY <1>18 DEF PersistSave, IndexGoto
  <2>4. VectorsCovered'
    BY <1>18 DEF PersistSave, IndexGoto
  <2>5. QED
    BY <2>1, <2>2, <2>3, <2>4
<1>19. ASSUME IndexFails PROVE WatcherInv'
  <2>1. TypeOK'
    BY <1>19 DEF IndexFails, IndexGoto
  <2>2. FlushPromised'
    BY <1>19 DEF IndexFails, IndexGoto
  <2>3. DeltaCovers'
    BY <1>19 DEF IndexFails, IndexGoto
  <2>4. VectorsCovered'
    BY <1>19 DEF IndexFails, IndexGoto
  <2>5. QED
    BY <2>1, <2>2, <2>3, <2>4
<1>20. CASE UNCHANGED vars
  BY <1>20 DEF vars
<1>21. QED
  BY <1>1, <1>2, <1>3, <1>4, <1>5, <1>6, <1>7, <1>8, <1>9, <1>10, <1>11, <1>12, <1>13, <1>14, <1>15, <1>16, <1>17, <1>18, <1>19, <1>20
     DEF Next, WatchdogStep, LoopStep, IndexStep

(* The types hold; in particular no file is both changed and deleted.      *)
THEOREM WatcherTypeCorrect == Spec => []TypeOK
<1>1. WatcherInv => TypeOK
  BY DEF WatcherInv
<1>2. QED
  BY InitWatcherInv, NextWatcherInv, <1>1, PTL DEF Spec

(* No interleaving of the watchdog thread with the loop leaves recorded    *)
(* changes without a flush to come.                                        *)
THEOREM ChangesNeverStranded == Spec => []NoStrandedChanges
<1>1. WatcherInv => NoStrandedChanges
  BY DEF WatcherInv, FlushPromised, NoStrandedChanges
<1>2. QED
  BY InitWatcherInv, NextWatcherInv, <1>1, PTL DEF Spec

(* The graph store follows the graph in memory as long as no batch fails.  *)
THEOREM StoreFollowsGraph == Spec => []StoreMatchesGraph
<1>1. WatcherInv => StoreMatchesGraph
  BY DEF WatcherInv, TypeOK, DeltaCovers, StoreMatchesGraph
<1>2. QED
  BY InitWatcherInv, NextWatcherInv, <1>1, PTL DEF Spec

(* No vector outlives its node as long as no batch fails.                  *)
THEOREM VectorsNeverStale == Spec => []NoStaleVectors
<1>1. WatcherInv => NoStaleVectors
  BY DEF WatcherInv, VectorsCovered, NoStaleVectors
<1>2. QED
  BY InitWatcherInv, NextWatcherInv, <1>1, PTL DEF Spec
=============================================================================
