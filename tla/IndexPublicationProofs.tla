----------------------- MODULE IndexPublicationProofs -----------------------
(* Theorems of IndexPublication, for every set of operators, pruners and   *)
(* query runtimes, every choice of models and keeps, and every bound.      *)
EXTENDS IndexPublication, TLAPS

(* Ordering and keeping only ever select among the versions they are given. *)
LEMMA NewestSubset == ASSUME NEW S, NEW keep PROVE Newest(S, keep) \subseteq S
  BY DEF Newest

LEMMA ActiveIsVersion ==
  TypeOK => ActiveVersion \in Version \cup {NoVersion}
  BY DEF TypeOK, ActiveVersion

LEMMA BegunIsVersion == TypeOK => 1 .. begun \subseteq Version
  BY PublicationAssumption DEF TypeOK, Version

LEMMA InitPublicationInv == Init => PublicationInv
  BY PublicationAssumption
  DEF Init, PublicationInv, TypeOK, LocalStateOK, IdsBegun, PublishingPrivate,
      SavedIsFull, RemovedIsCondemned, ListedGraphIntact, Version, NoVersion,
      Contents, Steps, NoView, Publishing, Pruning, Loading

LEMMA NextTypeOK == PublicationInv /\ [Next]_vars => TypeOK'
<1> SUFFICES ASSUME PublicationInv, [Next]_vars PROVE TypeOK'
  OBVIOUS
<1> USE PublicationAssumption DEF PublicationInv, TypeOK, LocalStateOK, Version,
      NoVersion, Contents, HasFile, Steps, Publishing, Pruning, Loading, metadata, operator,
      query, Goto, Phase
<1>1. ASSUME NEW o \in Operators, PublishBegin(o) PROVE TypeOK'
  BY <1>1 DEF PublishBegin
<1>2. ASSUME NEW o \in Operators, PublishSave(o) PROVE TypeOK'
  BY <1>2 DEF PublishSave
<1>3. ASSUME NEW o \in Operators, PublishStamp(o) PROVE TypeOK'
  BY <1>3 DEF PublishStamp
<1>4. ASSUME NEW o \in Operators, PublishRow(o) PROVE TypeOK'
  <2>1. target[o] \in Version
    BY <1>4, BegunIsVersion DEF PublishRow
  <2>2. QED
    BY <1>4, <2>1 DEF PublishRow
<1>5. ASSUME NEW o \in Operators, NEW v \in Version, ActivateCheck(o, v) PROVE TypeOK'
  BY <1>5 DEF ActivateCheck
<1>6. ASSUME NEW o \in Operators, ActivateGet(o) PROVE TypeOK'
  BY <1>6 DEF ActivateGet
<1>7. ASSUME NEW o \in Operators, ActivateCommit(o) PROVE TypeOK'
  BY <1>7 DEF ActivateCommit
<1>8. ASSUME NEW o \in Operators, Abort(o) PROVE TypeOK'
  BY <1>8 DEF Abort
<1>9. ASSUME NEW o \in Pruners, NEW keep \in Keeps, PruneList(o, keep) PROVE TypeOK'
  BY <1>9 DEF PruneList
<1>10. ASSUME NEW o \in Pruners, PruneRetain(o) PROVE TypeOK'
  BY <1>10 DEF PruneRetain
<1>11. ASSUME NEW o \in Pruners, PruneUnlink(o) PROVE TypeOK'
  <2>1. PICK v \in Newest(listed[o], 1) :
          /\ pc' = [pc EXCEPT ![o] = IF disk[v] = "none" THEN "removed" ELSE "unlinked"]
          /\ target' = [target EXCEPT ![o] = v]
          /\ disk' = [disk EXCEPT ![v] = IF @ = "none" THEN "none" ELSE "dir"]
          /\ condemned' = condemned \cup {v}
          /\ UNCHANGED <<metadata, mixed, query, begun, commands, listed, keeping>>
    BY <1>11 DEF PruneUnlink
  <2>2. v \in Version
    BY NewestSubset
  <2>3. disk' \in [Version -> Contents] /\ pc' \in [Operators -> Steps]
    BY <2>1, <2>2
  <2>4. condemned' \subseteq Version /\ target' \in [Operators -> Version \cup {NoVersion}]
    BY <2>1, <2>2
  <2>5. UNCHANGED <<metadata, mixed, query, begun, commands, listed, keeping>>
    BY <2>1
  <2>6. QED
    BY <2>3, <2>4, <2>5
<1>12. ASSUME NEW o \in Pruners, PruneRmdir(o) PROVE TypeOK'
  BY <1>12 DEF PruneRmdir
<1>13. ASSUME NEW o \in Pruners, PruneDelete(o) PROVE TypeOK'
  BY <1>13 DEF PruneDelete
<1>14. ASSUME NEW o \in Pruners, PruneDone(o) PROVE TypeOK'
  BY <1>14 DEF PruneDone
<1>15. ASSUME NEW q \in Queries, QueryStart(q) PROVE TypeOK'
  BY <1>15, ActiveIsVersion DEF QueryStart
<1>16. ASSUME NEW q \in Queries, QueryPoll(q) PROVE TypeOK'
  BY <1>16, ActiveIsVersion DEF QueryPoll
<1>17. ASSUME NEW q \in Queries, LoadCheck(q) PROVE TypeOK'
  BY <1>17 DEF LoadCheck
<1>18. ASSUME NEW q \in Queries, LoadGraph(q) PROVE TypeOK'
  BY <1>18 DEF LoadGraph, Opened
<1>19. CASE UNCHANGED vars
  BY <1>19 DEF vars
<1>20. QED
  BY <1>1, <1>2, <1>3, <1>4, <1>5, <1>6, <1>7, <1>8, <1>9, <1>10, <1>11, <1>12,
     <1>13, <1>14, <1>15, <1>16, <1>17, <1>18, <1>19
  DEF Next, Operate, Prune, Follow

(* A command's local state and a published graph stay what the rest of the *)
(* protocol takes them for, whatever other process runs in between.        *)
LEMMA NextPublicationInv == PublicationInv /\ [Next]_vars => PublicationInv'
<1> SUFFICES ASSUME PublicationInv, [Next]_vars PROVE PublicationInv'
  OBVIOUS
<1> DEFINE Rest == LocalStateOK /\ IdsBegun /\ PublishingPrivate /\ SavedIsFull
                     /\ RemovedIsCondemned /\ ListedGraphIntact
<1>0. TypeOK'
  BY NextTypeOK
<1> USE PublicationAssumption, <1>0 DEF PublicationInv, TypeOK, LocalStateOK, IdsBegun,
      PublishingPrivate, SavedIsFull, RemovedIsCondemned, ListedGraphIntact, Version,
      NoVersion, Contents, HasFile, Steps, Publishing, Pruning, Loading, metadata, operator,
      query, Goto, Phase
<1>1. ASSUME NEW o \in Operators, PublishBegin(o) PROVE Rest'
  <2>1. LocalStateOK'
    BY <1>1 DEF PublishBegin
  <2>2. IdsBegun'
    BY <1>1 DEF PublishBegin
  <2>3. PublishingPrivate'
    <3> SUFFICES ASSUME NEW r \in Operators, pc'[r] \in Publishing
                 PROVE  /\ target'[r] \notin rows \cup condemned
                        /\ \A p \in Operators : target'[r] \notin listed[p]
                        /\ \A p \in Operators \ {r} : target'[p] # target'[r]
      BY <1>1 DEF PublishBegin
    <3>1. begun + 1 \notin 1 .. begun
      OBVIOUS
    <3>2. CASE r = o
      <4>1. target'[r] = begun + 1
        BY <1>1, <3>2 DEF PublishBegin
      <4>2. \A p \in Operators \ {r} : target[p] # begun + 1 /\ target'[p] = target[p]
        BY <1>1, <3>2 DEF PublishBegin
      <4>3. QED
        BY <4>1, <4>2, <3>1
    <3>3. CASE r # o
      BY <1>1, <3>1, <3>3 DEF PublishBegin
    <3>4. QED
      BY <3>2, <3>3
  <2>4. SavedIsFull'
    BY <1>1 DEF PublishBegin
  <2>5. RemovedIsCondemned'
    BY <1>1 DEF PublishBegin
  <2>6. ListedGraphIntact'
    BY <1>1 DEF PublishBegin
  <2>7. QED
    BY <2>1, <2>2, <2>3, <2>4, <2>5, <2>6
<1>2. ASSUME NEW o \in Operators, PublishSave(o) PROVE Rest'
  BY <1>2 DEF PublishSave
<1>3. ASSUME NEW o \in Operators, PublishStamp(o) PROVE Rest'
  BY <1>3 DEF PublishStamp
<1>4. ASSUME NEW o \in Operators, PublishRow(o) PROVE Rest'
  <2>1. LocalStateOK'
    BY <1>4 DEF PublishRow
  <2>2. IdsBegun'
    <3>1. target[o] \in 1 .. begun
      BY <1>4 DEF PublishRow
    <3>2. rows' = rows \cup {target[o]} /\ UNCHANGED <<condemned, begun>>
      BY <1>4 DEF PublishRow
    <3>3. QED
      BY <3>1, <3>2
  <2>3. PublishingPrivate'
    BY <1>4 DEF PublishRow
  <2>4. SavedIsFull'
    BY <1>4 DEF PublishRow
  <2>5. RemovedIsCondemned'
    BY <1>4 DEF PublishRow
  <2>6. ListedGraphIntact'
    BY <1>4 DEF PublishRow
  <2>7. QED
    BY <2>1, <2>2, <2>3, <2>4, <2>5, <2>6
<1>5. ASSUME NEW o \in Operators, NEW v \in Version, ActivateCheck(o, v) PROVE Rest'
  BY <1>5 DEF ActivateCheck
<1>6. ASSUME NEW o \in Operators, ActivateGet(o) PROVE Rest'
  BY <1>6 DEF ActivateGet
<1>7. ASSUME NEW o \in Operators, ActivateCommit(o) PROVE Rest'
  BY <1>7 DEF ActivateCommit
<1>8. ASSUME NEW o \in Operators, Abort(o) PROVE Rest'
  BY <1>8 DEF Abort
<1>9. ASSUME NEW o \in Pruners, NEW keep \in Keeps, PruneList(o, keep) PROVE Rest'
  <2>1. LocalStateOK'
    <3>1. \A p \in Operators : listed'[p] \in {listed[p], rows}
      BY <1>9 DEF PruneList
    <3>2. rows \subseteq 1 .. begun
      OBVIOUS
    <3>3. ASSUME NEW p \in Operators PROVE listed'[p] \subseteq 1 .. begun
      <4>1. listed[p] \subseteq 1 .. begun
        OBVIOUS
      <4>2. CASE listed'[p] = rows
        BY <3>2, <4>2, Zenon
      <4>3. CASE listed'[p] = listed[p]
        BY <4>1, <4>3, Zenon
      <4>4. QED
        BY <3>1, <4>2, <4>3, Zenon
    <3>4. QED
      BY <1>9, <3>3 DEF PruneList
  <2>2. IdsBegun'
    BY <1>9 DEF PruneList
  <2>3. PublishingPrivate'
    BY <1>9 DEF PruneList
  <2>4. SavedIsFull'
    BY <1>9 DEF PruneList
  <2>5. RemovedIsCondemned'
    BY <1>9 DEF PruneList
  <2>6. ListedGraphIntact'
    BY <1>9 DEF PruneList
  <2>7. QED
    BY <2>1, <2>2, <2>3, <2>4, <2>5, <2>6
<1>10. ASSUME NEW o \in Pruners, PruneRetain(o) PROVE Rest'
  BY <1>10 DEF PruneRetain
<1>11. ASSUME NEW o \in Pruners, PruneUnlink(o) PROVE Rest'
  <2>0. PICK v \in Newest(listed[o], 1) :
          /\ pc[o] = "pruning"
          /\ pc' = [pc EXCEPT ![o] = IF disk[v] = "none" THEN "removed" ELSE "unlinked"]
          /\ target' = [target EXCEPT ![o] = v]
          /\ disk' = [disk EXCEPT ![v] = IF @ = "none" THEN "none" ELSE "dir"]
          /\ condemned' = condemned \cup {v}
          /\ UNCHANGED <<metadata, mixed, query, begun, commands, listed, keeping>>
    BY <1>11 DEF PruneUnlink
  <2> v \in listed[o] /\ o \in Operators
    BY NewestSubset
  <2>1. LocalStateOK'
    BY <2>0
  <2>2. IdsBegun'
    BY <2>0
  <2>3. PublishingPrivate'
    BY <2>0
  <2>4. SavedIsFull'
    BY <2>0
  <2>5. RemovedIsCondemned'
    BY <2>0
  <2>6. ListedGraphIntact'
    BY <2>0
  <2>7. QED
    BY <2>1, <2>2, <2>3, <2>4, <2>5, <2>6
<1>12. ASSUME NEW o \in Pruners, PruneRmdir(o) PROVE Rest'
  BY <1>12 DEF PruneRmdir
<1>13. ASSUME NEW o \in Pruners, PruneDelete(o) PROVE Rest'
  <2>1. LocalStateOK'
    BY <1>13 DEF PruneDelete
  <2>2. IdsBegun'
    BY <1>13 DEF PruneDelete
  <2>3. PublishingPrivate'
    BY <1>13 DEF PruneDelete
  <2>4. SavedIsFull'
    BY <1>13 DEF PruneDelete
  <2>5. RemovedIsCondemned'
    BY <1>13 DEF PruneDelete
  <2>6. ListedGraphIntact'
    BY <1>13 DEF PruneDelete
  <2>7. QED
    BY <2>1, <2>2, <2>3, <2>4, <2>5, <2>6
<1>14. ASSUME NEW o \in Pruners, PruneDone(o) PROVE Rest'
  BY <1>14 DEF PruneDone
<1>15. ASSUME NEW q \in Queries, QueryStart(q) PROVE Rest'
  BY <1>15 DEF QueryStart
<1>16. ASSUME NEW q \in Queries, QueryPoll(q) PROVE Rest'
  BY <1>16 DEF QueryPoll
<1>17. ASSUME NEW q \in Queries, LoadCheck(q) PROVE Rest'
  BY <1>17 DEF LoadCheck
<1>18. ASSUME NEW q \in Queries, LoadGraph(q) PROVE Rest'
  BY <1>18 DEF LoadGraph, Opened
<1>19. CASE UNCHANGED vars
  BY <1>19 DEF vars
<1>20. QED
  BY <1>1, <1>2, <1>3, <1>4, <1>5, <1>6, <1>7, <1>8, <1>9, <1>10, <1>11, <1>12,
     <1>13, <1>14, <1>15, <1>16, <1>17, <1>18, <1>19
  DEF Next, Operate, Prune, Follow, vars

(* publish_graph writes the row last, so a listed version has its graph:   *)
(* however commands overlap and wherever they end.                         *)
THEOREM PublicationInvariant == Spec => []PublicationInv
<1>1. QED
  BY InitPublicationInv, NextPublicationInv, PTL DEF Spec

(* TypeOK is an invariant of any number of concurrent indexer processes.   *)
THEOREM TypeCorrect == Spec => []TypeOK
<1>1. PublicationInv => TypeOK
  BY DEF PublicationInv
<1>2. QED
  BY <1>1, PublicationInvariant, PTL

(* ListedGraphIntact is, too: no interleaving of publications, activations *)
(* and prunes, and no crash, lists a version whose graph is incomplete.    *)
THEOREM PublishedBeforeListed == Spec => []ListedGraphIntact
<1>1. PublicationInv => ListedGraphIntact
  BY DEF PublicationInv
<1>2. QED
  BY <1>1, PublicationInvariant, PTL

LEMMA NextViewInv == PublicationInv /\ ViewInv /\ [Next]_vars => ViewInv'
<1> SUFFICES ASSUME PublicationInv, ViewInv, [Next]_vars PROVE ViewInv'
  OBVIOUS
<1>1. ASSUME NEW o \in Operators, Operate(o) \/ (o \in Pruners /\ Prune(o)) PROVE ViewInv'
  <2>1. UNCHANGED query
    BY <1>1 DEF Operate, Prune, PublishBegin, PublishSave, PublishStamp, PublishRow, ActivateCheck,
                ActivateGet, ActivateCommit, Abort, PruneList, PruneRetain, PruneUnlink, PruneRmdir,
                PruneDelete, PruneDone, query
  <2>2. rows \cup condemned \subseteq rows' \cup condemned' /\ condemned \subseteq condemned'
    <3>1. CASE PruneDelete(o)
      BY <3>1 DEF PruneDelete, Goto, PublicationInv, RemovedIsCondemned
    <3>2. CASE PublishRow(o) \/ PruneUnlink(o)
      BY <3>2 DEF PublishRow, PruneUnlink, metadata
    <3>3. CASE ~PruneDelete(o) /\ ~PublishRow(o) /\ ~PruneUnlink(o)
      BY <1>1, <3>3 DEF Operate, Prune, PublishBegin, PublishSave, PublishStamp, ActivateCheck,
                        ActivateGet, ActivateCommit, Abort, PruneList, PruneRetain, PruneRmdir,
                        PruneDone, metadata
    <3>4. QED
      BY <3>1, <3>2, <3>3
  <2>3. QED
    BY <2>1, <2>2 DEF ViewInv, query
<1>2. ASSUME NEW q \in Queries, QueryStart(q) \/ QueryPoll(q) PROVE ViewInv'
  <2>1. ActiveVersion # NoVersion => ActiveVersion \in rows
    BY DEF PublicationInv, TypeOK, ActiveVersion
  <2>2. QED
    BY <1>2, <2>1 DEF QueryStart, QueryPoll, Phase, ViewInv, Loading, PublicationInv, TypeOK, metadata, operator
<1>3. ASSUME NEW q \in Queries, LoadCheck(q) PROVE ViewInv'
  BY <1>3 DEF LoadCheck, Phase, ViewInv, Loading, PublicationInv, TypeOK, metadata, operator
<1>4. ASSUME NEW q \in Queries, LoadGraph(q) PROVE ViewInv'
  <2>1. found[q] \in condemned \/ disk[found[q]] = "full"
    BY <1>4 DEF LoadGraph, Phase, ViewInv, Loading, PublicationInv, ListedGraphIntact
  <2>2. found[q] \in condemned \/ Opened(found[q]) = "full"
    BY <2>1 DEF Opened, HasFile
  <2>3. view'[q] = view[q] \/ view'[q] = [version |-> found[q], content |-> Opened(found[q])]
    BY <1>4 DEF LoadGraph, PublicationInv, TypeOK
  <2>4. \A p \in Queries : p # q => view'[p] = view[p] /\ qpc'[p] = qpc[p]
    BY <1>4 DEF LoadGraph, Phase, PublicationInv, TypeOK
  <2>5. qpc'[q] \in {"up", "down"} /\ UNCHANGED <<rows, condemned, found>>
    BY <1>4 DEF LoadGraph, Phase, PublicationInv, TypeOK, metadata, operator
  <2>6. QED
    BY <2>2, <2>3, <2>4, <2>5 DEF ViewInv, Loading
<1>5. CASE UNCHANGED vars
  BY <1>5 DEF vars, metadata, operator, query, ViewInv
<1>6. QED
  BY <1>1, <1>2, <1>3, <1>4, <1>5, PublicationAssumption DEF Next, Follow

(* Whatever runs at the same time, a query runtime serves no version with  *)
(* less than the graph published as it, unless a prune took that out.      *)
THEOREM ServedAsPublished == Spec => []ServesPublishedGraph
<1>1. Init => ViewInv
  BY DEF Init, ViewInv, NoView, NoVersion, Loading
<1>2. ViewInv => ServesPublishedGraph
  BY DEF ViewInv, ServesPublishedGraph
<1>3. QED
  BY <1>1, <1>2, NextViewInv, PublicationInvariant, PTL DEF Spec

-----------------------------------------------------------------------------
(* From here on a prune overlaps no other command.                         *)

LEMMA SingleActive ==
  ASSUME TypeOK, ActiveNeverLost
  PROVE  activeRows = IF rows = {} THEN {} ELSE {ActiveVersion}
  BY DEF TypeOK, ActiveNeverLost, ActiveVersion

LEMMA InitSerialInv == Init => SerialInv
  BY DEF Init, SerialInv, ActiveNeverLost, ActiveHasGraph, ActivatableTarget,
         RemovableTarget

LEMMA NextSerialInv ==
  ASSUME PruneAlone PROVE PublicationInv /\ SerialInv /\ [Next]_vars => SerialInv'
<1> SUFFICES ASSUME PublicationInv, SerialInv, [Next]_vars PROVE SerialInv'
  OBVIOUS
<1>0. /\ TypeOK' /\ PublicationInv'
      /\ \A p \in Pruners : Operators = {p}
      /\ activeRows = IF rows = {} THEN {} ELSE {ActiveVersion}
  BY NextTypeOK, NextPublicationInv, SingleActive DEF PruneAlone, PublicationInv, SerialInv
<1> USE PublicationAssumption, <1>0 DEF SerialInv, ActiveNeverLost, ActiveHasGraph,
      ActivatableTarget, RemovableTarget, PublicationInv, TypeOK, LocalStateOK,
      PublishingPrivate, SavedIsFull, HasFile, Steps, Publishing, Pruning, metadata,
      operator, query, Goto, Phase
<1>1. ASSUME NEW o \in Operators, PublishBegin(o) PROVE SerialInv'
  BY <1>1 DEF PublishBegin
<1>2. ASSUME NEW o \in Operators, PublishSave(o) PROVE SerialInv'
  BY <1>2 DEF PublishSave
<1>3. ASSUME NEW o \in Operators, PublishStamp(o) PROVE SerialInv'
  BY <1>3 DEF PublishStamp
<1>4. ASSUME NEW o \in Operators, PublishRow(o) PROVE SerialInv'
  <2>1. ActiveNeverLost'
    BY <1>4 DEF PublishRow
  <2>2. ActiveHasGraph'
    BY <1>4 DEF PublishRow
  <2>3. ActivatableTarget'
    BY <1>4 DEF PublishRow
  <2>4. RemovableTarget'
    BY <1>4 DEF PublishRow
  <2>5. QED
    BY <2>1, <2>2, <2>3, <2>4
<1>5. ASSUME NEW o \in Operators, NEW v \in Version, ActivateCheck(o, v) PROVE SerialInv'
  BY <1>5 DEF ActivateCheck
<1>6. ASSUME NEW o \in Operators, ActivateGet(o) PROVE SerialInv'
  BY <1>6 DEF ActivateGet
<1>7. ASSUME NEW o \in Operators, ActivateCommit(o) PROVE SerialInv'
  BY <1>7 DEF ActivateCommit
<1>8. ASSUME NEW o \in Operators, Abort(o) PROVE SerialInv'
  BY <1>8 DEF Abort
<1>9. ASSUME NEW o \in Pruners, NEW keep \in Keeps, PruneList(o, keep) PROVE SerialInv'
  BY <1>9 DEF PruneList
<1>10. ASSUME NEW o \in Pruners, PruneRetain(o) PROVE SerialInv'
  <2>1. ActiveNeverLost'
    BY <1>10 DEF PruneRetain
  <2>2. ActiveHasGraph'
    BY <1>10 DEF PruneRetain
  <2>3. ActivatableTarget'
    BY <1>10 DEF PruneRetain
  <2>4. RemovableTarget'
    BY <1>10 DEF PruneRetain
  <2>5. QED
    BY <2>1, <2>2, <2>3, <2>4
<1>11. ASSUME NEW o \in Pruners, PruneUnlink(o) PROVE SerialInv'
  <2>1. PICK v \in Newest(listed[o], 1) :
          /\ pc[o] = "pruning"
          /\ pc' = [pc EXCEPT ![o] = IF disk[v] = "none" THEN "removed" ELSE "unlinked"]
          /\ target' = [target EXCEPT ![o] = v]
          /\ disk' = [disk EXCEPT ![v] = IF @ = "none" THEN "none" ELSE "dir"]
          /\ UNCHANGED <<metadata, mixed, query, begun, commands, listed, keeping>>
    BY <1>11 DEF PruneUnlink
  <2>2. v \in listed[o] /\ v \notin activeRows /\ Operators = {o}
    BY <2>1, NewestSubset
  <2>3. QED
    BY <2>1, <2>2
<1>12. ASSUME NEW o \in Pruners, PruneRmdir(o) PROVE SerialInv'
  <2>1. ActiveNeverLost'
    BY <1>12 DEF PruneRmdir
  <2>2. ActiveHasGraph'
    BY <1>12 DEF PruneRmdir
  <2>3. ActivatableTarget'
    BY <1>12 DEF PruneRmdir
  <2>4. RemovableTarget'
    BY <1>12 DEF PruneRmdir
  <2>5. QED
    BY <2>1, <2>2, <2>3, <2>4
<1>13. ASSUME NEW o \in Pruners, PruneDelete(o) PROVE SerialInv'
  <2>1. /\ Operators = {o}
        /\ pc[o] = "removed" /\ pc'[o] = "pruning"
        /\ rows' = rows \ {target[o]}
        /\ listed'[o] = listed[o] \ {target[o]}
        /\ UNCHANGED <<createdAt, disk>>
    BY <1>13 DEF PruneDelete
  <2>2. target[o] \notin activeRows
    BY <2>1
  <2>3. activeRows' = activeRows
    BY <1>13, <2>2 DEF PruneDelete
  <2>4. ActiveNeverLost'
    BY <2>1, <2>2, <2>3
  <2>5. ActiveHasGraph'
    BY <2>1, <2>3
  <2>6. ActivatableTarget'
    BY <2>1
  <2>7. RemovableTarget'
    BY <2>1, <2>3
  <2>8. QED
    BY <2>4, <2>5, <2>6, <2>7
<1>14. ASSUME NEW o \in Pruners, PruneDone(o) PROVE SerialInv'
  BY <1>14 DEF PruneDone
<1>15. ASSUME NEW q \in Queries, QueryStart(q) PROVE SerialInv'
  BY <1>15 DEF QueryStart
<1>16. ASSUME NEW q \in Queries, QueryPoll(q) PROVE SerialInv'
  BY <1>16 DEF QueryPoll
<1>17. ASSUME NEW q \in Queries, LoadCheck(q) PROVE SerialInv'
  BY <1>17 DEF LoadCheck
<1>18. ASSUME NEW q \in Queries, LoadGraph(q) PROVE SerialInv'
  BY <1>18 DEF LoadGraph, Opened
<1>19. CASE UNCHANGED vars
  BY <1>19 DEF vars
<1>20. QED
  BY <1>1, <1>2, <1>3, <1>4, <1>5, <1>6, <1>7, <1>8, <1>9, <1>10, <1>11, <1>12,
     <1>13, <1>14, <1>15, <1>16, <1>17, <1>18, <1>19
  DEF Next, Operate, Prune, Follow, vars

(* If a prune overlaps no other command, the second invariant holds in     *)
(* every reachable state.                                                  *)
THEOREM SerialInvariant == ASSUME PruneAlone PROVE Spec => []SerialInv
<1>1. PublicationInv /\ SerialInv /\ [Next]_vars => SerialInv'
  BY NextSerialInv
<1>2. QED
  BY InitSerialInv, PublicationInvariant, <1>1, PTL DEF Spec

(* Then exactly one version is active as soon as one is listed ...         *)
THEOREM ActiveVersionKept == ASSUME PruneAlone PROVE Spec => []ActiveNeverLost
<1>1. Spec => []SerialInv
  BY SerialInvariant
<1>2. SerialInv => ActiveNeverLost
  BY DEF SerialInv
<1>3. QED
  BY <1>1, <1>2, PTL

(* ... and it has its graph file, so that runtimes can load it.            *)
THEOREM ActiveVersionLoadable == ASSUME PruneAlone PROVE Spec => []ActiveHasGraph
<1>1. Spec => []SerialInv
  BY SerialInvariant
<1>2. SerialInv => ActiveHasGraph
  BY DEF SerialInv
<1>3. QED
  BY <1>1, <1>2, PTL

LEMMA InitImplements == Init => Catalog!Init
  BY DEF Init, Catalog!Init, ActiveVersion

(* Each step changes the catalog as one operation of it, or not at all.    *)
LEMMA NextImplements ==
  ASSUME PruneAlone
  PROVE  PublicationInv /\ SerialInv /\ [Next]_vars
           => [Catalog!Next]_(Catalog!catalogVars)
<1> SUFFICES ASSUME PublicationInv, SerialInv, [Next]_vars
             PROVE  Catalog!Next \/ UNCHANGED Catalog!catalogVars
  OBVIOUS
<1>0. TypeOK /\ TypeOK' /\ SerialInv'
  BY NextTypeOK, NextSerialInv DEF PublicationInv
<1>1. /\ activeRows = IF rows = {} THEN {} ELSE {ActiveVersion}
      /\ (activeRows = IF rows = {} THEN {} ELSE {ActiveVersion})'
  BY <1>0, SingleActive, PTL DEF SerialInv
<1>2. CASE UNCHANGED <<rows, activeRows>>
  BY <1>2 DEF Catalog!catalogVars, ActiveVersion
<1>3. ASSUME NEW o \in Operators, PublishRow(o) PROVE Catalog!Next
  <2>1. target[o] \in Version \ rows
    BY <1>3, BegunIsVersion DEF PublicationInv, PublishingPrivate, LocalStateOK, Publishing,
                                PublishRow, Goto, NoVersion
  <2>2. rows' = rows \cup {target[o]} /\ ActiveVersion' = target[o]
    BY <1>1, <1>3 DEF PublishRow
  <2>3. QED
    BY <2>1, <2>2 DEF Catalog!Next, Catalog!Publish
<1>4. ASSUME NEW o \in Operators, ActivateCommit(o) PROVE Catalog!Next
  <2>1. target[o] \in rows
    BY <1>4 DEF ActivateCommit, Goto, SerialInv, ActivatableTarget
  <2>2. rows' = rows /\ ActiveVersion' = target[o]
    BY <1>1, <1>4, <2>1 DEF ActivateCommit
  <2>3. QED
    BY <1>0, <2>1, <2>2 DEF Catalog!Next, Catalog!Activate, TypeOK
<1>5. ASSUME NEW o \in Pruners, PruneDelete(o)
      PROVE  Catalog!Next \/ UNCHANGED Catalog!catalogVars
  <2>1. target[o] \notin activeRows
    BY <1>5, PublicationAssumption DEF PruneDelete, Goto, SerialInv, RemovableTarget
  <2>2. rows' = rows \ {target[o]} /\ activeRows' = activeRows
    BY <1>5, <2>1 DEF PruneDelete
  <2>3. ActiveVersion' = ActiveVersion
    BY <2>2 DEF ActiveVersion
  <2>4. CASE target[o] \in rows
    <3>1. target[o] \in rows \ {ActiveVersion} /\ target[o] \in Version
      BY <1>0, <1>1, <2>1, <2>4 DEF TypeOK
    <3>2. QED
      BY <2>2, <2>3, <3>1 DEF Catalog!Next, Catalog!Remove
  <2>5. CASE target[o] \notin rows
    BY <2>2, <2>3, <2>5 DEF Catalog!catalogVars
  <2>6. QED
    BY <2>4, <2>5
<1>6. QED
  BY <1>2, <1>3, <1>4, <1>5
  DEF Next, Operate, Prune, Follow, vars, metadata, PublishBegin, PublishSave, PublishStamp,
      ActivateCheck, ActivateGet, Abort, PruneList, PruneRetain, PruneUnlink, PruneRmdir,
      PruneDone, QueryStart, QueryPoll, LoadCheck, LoadGraph

(* If prunes overlap no other command, the metadata store implements the   *)
(* abstract catalog: every command is atomic and the current version is    *)
(* never removed.                                                          *)
THEOREM PublicationImplementsCatalog ==
  ASSUME PruneAlone PROVE Spec => ImplementsCatalog
<1>1. PublicationInv /\ SerialInv /\ [Next]_vars => SerialInv'
  BY NextSerialInv
<1>2. PublicationInv /\ SerialInv /\ [Next]_vars => [Catalog!Next]_(Catalog!catalogVars)
  BY NextImplements
<1>3. QED
  BY InitImplements, InitSerialInv, PublicationInvariant, <1>1, <1>2, PTL
  DEF Spec, ImplementsCatalog, Catalog!Spec
=============================================================================
