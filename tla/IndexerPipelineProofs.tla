----------------------- MODULE IndexerPipelineProofs -----------------------
(* Theorems of IndexerPipeline: every set of repositories and every tree,  *)
(* any number of runs, moves, edits, rollbacks and failures.               *)
EXTENDS IndexerPipeline, TLAPS

LEMMA WithoutType ==
  \A n \in Tree \cup {Nothing}, F \in SUBSET Files : Without(n, F) \in Tree \cup {Nothing}
  BY DEF Without, Tree

LEMMA WithoutNothing == \A n \in Tree \cup {Nothing} : Without(n, {}) = n
  BY PipelineAssumption DEF Without, Tree

(* Removing the deleted files of a diff that only deletes yields HEAD at   *)
(* every file where the nodes were those of the recorded commit.           *)
LEMMA DeletionDiff ==
  ASSUME NEW n \in Tree \cup {Nothing}, NEW s \in Tree, NEW h \in Tree,
         {f \in Files : h[f] \notin {Absent, s[f]}} = {},
         NEW g \in Files, At(n, g) = s[g]
  PROVE  At(Without(n, {f \in Files : s[f] # Absent /\ h[f] = Absent}), g) = h[g]
<1> DEFINE D == {f \in Files : s[f] # Absent /\ h[f] = Absent}
<1>1. h[g] \in {Absent, s[g]}
  OBVIOUS
<1>2. CASE n = Nothing
  BY <1>1, <1>2 DEF At, Without
<1>3. CASE n \in Tree
  <2>1. n # Nothing
    BY <1>3, PipelineAssumption
  <2>2. Without(n, D) = [f \in Files |-> IF f \in D THEN Absent ELSE n[f]]
    BY <2>1 DEF Without
  <2>3. Without(n, D) # Nothing
    <3>1. [f \in Files |-> IF f \in D THEN Absent ELSE n[f]] \in Tree
      BY <1>3 DEF Tree
    <3>2. QED
      BY <2>2, <3>1, PipelineAssumption
  <2>4. At(Without(n, D), g) = IF g \in D THEN Absent ELSE n[g]
    BY <2>2, <2>3 DEF At
  <2>5. n[g] = s[g]
    BY <2>1 DEF At
  <2>6. QED
    BY <1>1, <2>4, <2>5
<1>4. QED
  BY <1>2, <1>3

(* Files without nodes need not be removed.                                *)
LEMMA WithoutPresent ==
  ASSUME NEW n \in Tree, NEW D \in SUBSET Files
  PROVE  Without(n, D) = Without(n, {f \in D : n[f] # Absent})
<1> DEFINE E == {f \in D : n[f] # Absent}
<1>1. \A f \in Files : (IF f \in D THEN Absent ELSE n[f]) = (IF f \in E THEN Absent ELSE n[f])
  OBVIOUS
<1>2. [f \in Files |-> IF f \in D THEN Absent ELSE n[f]]
        = [f \in Files |-> IF f \in E THEN Absent ELSE n[f]]
  BY <1>1
<1>3. QED
  BY <1>2, PipelineAssumption DEF Without

(* What index_repo does: its repository is read, the others stay.          *)
LEMMA IndexRepoReads ==
  ASSUME TypeOK, NEW r \in Repos, IndexRepo(r), tree' = tree
  PROVE  /\ mem' \in Indexed /\ failures' \in 0 .. MaxFailures /\ moved' \subseteq Repos
         /\ touched' \in [Repos -> SUBSET Files] /\ skipped' \in [Repos -> SUBSET Files]
         /\ drift' = drift /\ Read(r)' /\ r \notin moved'
         /\ \A p \in Repos \ {r} :
              /\ mem'[p] = mem[p] /\ (p \in moved' <=> p \in moved)
              /\ Read(p) => Read(p)'
<1>1. PICK S \in SUBSET {f \in Files : tree[r][f] # Absent} :
        /\ S # {} => failures < MaxFailures
        /\ failures' = IF S = {} THEN failures ELSE failures + 1
        /\ mem' = [mem EXCEPT ![r] = Without(tree[r], S)]
        /\ skipped' = [skipped EXCEPT ![r] = S]
        /\ touched' = [touched EXCEPT ![r] = {}]
        /\ moved' = moved \ {r}
        /\ drift' = drift
  BY DEF IndexRepo
<1>2. tree[r] \in Tree /\ tree[r] # Nothing
  BY PipelineAssumption DEF TypeOK
<1>3. Without(tree[r], S) = [f \in Files |-> IF f \in S THEN Absent ELSE tree[r][f]]
  BY <1>2 DEF Without
<1>4. Without(tree[r], S) \in Tree /\ Without(tree[r], S) # Nothing
  <2>1. [f \in Files |-> IF f \in S THEN Absent ELSE tree[r][f]] \in Tree
    BY <1>2 DEF Tree
  <2>2. QED
    BY <1>3, <2>1, PipelineAssumption
<1>5. mem' \in Indexed /\ mem'[r] = Without(tree[r], S)
  BY <1>1, <1>4 DEF TypeOK, Indexed
<1>6. failures' \in 0 .. MaxFailures
  BY <1>1, PipelineAssumption DEF TypeOK
<1>7. /\ touched' \in [Repos -> SUBSET Files] /\ touched'[r] = {}
      /\ skipped' \in [Repos -> SUBSET Files] /\ skipped'[r] = S
      /\ moved' \subseteq Repos
  BY <1>1 DEF TypeOK
<1>8. Read(r)'
  BY <1>3, <1>4, <1>5, <1>7 DEF Read
<1>9. ASSUME NEW p \in Repos \ {r}
      PROVE  /\ mem'[p] = mem[p] /\ (p \in moved' <=> p \in moved)
             /\ touched'[p] = touched[p] /\ skipped'[p] = skipped[p]
  BY <1>1 DEF TypeOK, Indexed
<1>10. \A p \in Repos \ {r} : Read(p) => Read(p)'
  BY <1>9 DEF Read
<1>11. QED
  BY <1>1, <1>5, <1>6, <1>7, <1>8, <1>9, <1>10

(* A change of the working directory touches the files it changes.         *)
LEMMA ChangeReads ==
  ASSUME TypeOK, NEW r \in Repos, NEW t \in Tree, Change(r, t)
  PROVE  /\ UNCHANGED <<store, index, run, failures, skipped, drift>>
         /\ tree' \in [Repos -> Tree] /\ changes' \in 0 .. MaxChanges
         /\ touched' \in [Repos -> SUBSET Files]
         /\ pc # "idle" => \A p \in Repos : Read(p) => Read(p)'
<1>1. /\ UNCHANGED <<store, index, run, failures, skipped, drift>>
      /\ mem' = mem /\ skipped' = skipped /\ tree' = [tree EXCEPT ![r] = t]
  BY DEF Change, run
<1>2. tree' \in [Repos -> Tree] /\ changes' \in 0 .. MaxChanges
  BY PipelineAssumption DEF Change, TypeOK
<1>3. touched' \in [Repos -> SUBSET Files]
  BY DEF Change, TypeOK
<1>4. ASSUME pc # "idle", NEW p \in Repos, Read(p) PROVE Read(p)'
  <2>1. touched' = [touched EXCEPT ![r] = @ \cup {f \in Files : t[f] # tree[r][f]}]
    BY <1>4 DEF Change
  <2>2. CASE p = r
    <3>1. tree'[r] = t /\ touched'[r] = touched[r] \cup {f \in Files : t[f] # tree[r][f]}
      BY <1>1, <2>1 DEF TypeOK
    <3>2. QED
      BY <1>1, <1>4, <2>2, <3>1 DEF Read
  <2>3. CASE p # r
    <3>1. tree'[p] = tree[p] /\ touched'[p] = touched[p]
      BY <1>1, <2>1, <2>3 DEF TypeOK
    <3>2. QED
      BY <1>1, <1>4, <3>1 DEF Read
  <2>4. QED
    BY <2>2, <2>3
<1>5. QED
  BY <1>1, <1>2, <1>3, <1>4

LEMMA InitPipelineInv == Init => PipelineInv
  BY PipelineAssumption
  DEF Init, PipelineInv, TypeOK, KindOK, LoopOK, PlainUnrecorded, DeltaPending,
      ReadProgress, DiffProgress, Empty, None, Indexed

LEMMA NextPipelineInv == PipelineInv /\ [Next]_vars => PipelineInv'
<1> SUFFICES ASSUME PipelineInv, [Next]_vars PROVE PipelineInv'
  OBVIOUS
<1> USE PipelineAssumption, WithoutType, WithoutNothing
    DEF PipelineInv, TypeOK, KindOK, LoopOK, PlainUnrecorded, DeltaPending, ReadProgress,
        DiffProgress, Empty, None, Indexed, store, index, run, world, seen
<1>1. ASSUME BeginClean PROVE PipelineInv'
  <2>1. TypeOK'
    BY <1>1 DEF BeginClean, Goto, Starts
  <2>2. KindOK'
    BY <1>1 DEF BeginClean, Goto, Starts
  <2>3. LoopOK'
    BY <1>1 DEF BeginClean, Goto, Starts
  <2>4. PlainUnrecorded'
    BY <1>1 DEF BeginClean, Goto, Starts
  <2>5. DeltaPending'
    BY <1>1 DEF BeginClean, Goto, Starts
  <2>6. ReadProgress'
    BY <1>1 DEF BeginClean, Goto, Starts, Recorded, HeadCommit, Followed, Read
  <2>7. DiffProgress'
    BY <1>1 DEF BeginClean, Goto, Starts, Recorded, HeadCommit, Followed, Read
  <2>8. QED
    BY <2>1, <2>2, <2>3, <2>4, <2>5, <2>6, <2>7
<1>2. ASSUME ClearStates PROVE PipelineInv'
  <2>1. TypeOK'
    BY <1>2 DEF ClearStates, Goto
  <2>2. KindOK'
    BY <1>2 DEF ClearStates, Goto
  <2>3. LoopOK'
    BY <1>2 DEF ClearStates, Goto
  <2>4. PlainUnrecorded'
    BY <1>2 DEF ClearStates, Goto
  <2>5. DeltaPending'
    BY <1>2 DEF ClearStates, Goto
  <2>6. ReadProgress'
    BY <1>2 DEF ClearStates, Goto, Recorded, HeadCommit, Followed, Read
  <2>7. DiffProgress'
    BY <1>2 DEF ClearStates, Goto, Recorded, HeadCommit, Followed, Read
  <2>8. QED
    BY <2>1, <2>2, <2>3, <2>4, <2>5, <2>6, <2>7
<1>3. ASSUME NEW r \in Repos, ParseRepo(r) PROVE PipelineInv'
  <2>0. /\ IndexRepo(r) /\ tree' = tree /\ head' = head
        /\ mem' \in Indexed /\ failures' \in 0 .. MaxFailures /\ moved' \subseteq Repos
        /\ touched' \in [Repos -> SUBSET Files] /\ skipped' \in [Repos -> SUBSET Files]
        /\ drift' = drift /\ Read(r)' /\ r \notin moved'
        /\ \A p \in Repos \ {r} :
             /\ mem'[p] = mem[p] /\ (p \in moved' <=> p \in moved)
             /\ Read(p) => Read(p)'
    BY <1>3, IndexRepoReads DEF ParseRepo
  <2>1. TypeOK'
    BY <1>3, <2>0 DEF ParseRepo
  <2>2. KindOK'
    BY <1>3, <2>0 DEF ParseRepo
  <2>3. LoopOK'
    BY <1>3, <2>0 DEF ParseRepo
  <2>4. PlainUnrecorded'
    BY <1>3, <2>0 DEF ParseRepo
  <2>5. DeltaPending'
    BY <1>3, <2>0 DEF ParseRepo
  <2>6. ReadProgress'
    BY <1>3, <2>0 DEF ParseRepo, Recorded, HeadCommit, Followed
  <2>7. DiffProgress'
    BY <1>3, <2>0 DEF ParseRepo, Recorded, HeadCommit, Followed
  <2>8. QED
    BY <2>1, <2>2, <2>3, <2>4, <2>5, <2>6, <2>7
<1>4. ASSUME SaveAll PROVE PipelineInv'
  <2>1. TypeOK'
    BY <1>4 DEF SaveAll, Goto
  <2>2. KindOK'
    BY <1>4 DEF SaveAll, Goto
  <2>3. LoopOK'
    BY <1>4 DEF SaveAll, Goto
  <2>4. PlainUnrecorded'
    BY <1>4 DEF SaveAll, Goto
  <2>5. DeltaPending'
    BY <1>4 DEF SaveAll, Goto
  <2>6. ReadProgress'
    BY <1>4 DEF SaveAll, Goto, Recorded, HeadCommit, Followed, Read
  <2>7. DiffProgress'
    BY <1>4 DEF SaveAll, Goto, Recorded, HeadCommit, Followed, Read
  <2>8. QED
    BY <2>1, <2>2, <2>3, <2>4, <2>5, <2>6, <2>7
<1>5. ASSUME NEW r \in Repos, RecordCommit(r) PROVE PipelineInv'
  <2>1. TypeOK'
    BY <1>5 DEF RecordCommit
  <2>2. KindOK'
    BY <1>5 DEF RecordCommit
  <2>3. LoopOK'
    BY <1>5 DEF RecordCommit
  <2>4. PlainUnrecorded'
    BY <1>5 DEF RecordCommit
  <2>5. DeltaPending'
    BY <1>5 DEF RecordCommit
  <2>6. ReadProgress'
    BY <1>5 DEF RecordCommit, Recorded, HeadCommit, Followed, Read
  <2>7. DiffProgress'
    BY <1>5 DEF RecordCommit, Recorded, HeadCommit, Followed, Read
  <2>8. QED
    BY <2>1, <2>2, <2>3, <2>4, <2>5, <2>6, <2>7
<1>6. ASSUME BeginIncremental PROVE PipelineInv'
  <2>1. TypeOK'
    BY <1>6 DEF BeginIncremental, Goto, Starts
  <2>2. KindOK'
    BY <1>6 DEF BeginIncremental, Goto, Starts
  <2>3. LoopOK'
    BY <1>6 DEF BeginIncremental, Goto, Starts
  <2>4. PlainUnrecorded'
    BY <1>6 DEF BeginIncremental, Goto, Starts
  <2>5. DeltaPending'
    BY <1>6 DEF BeginIncremental, Goto, Starts
  <2>6. ReadProgress'
    BY <1>6 DEF BeginIncremental, Goto, Starts, Recorded, HeadCommit, Followed, Read
  <2>7. DiffProgress'
    BY <1>6 DEF BeginIncremental, Goto, Starts, Recorded, HeadCommit, Followed, Read
  <2>8. QED
    BY <2>1, <2>2, <2>3, <2>4, <2>5, <2>6, <2>7
<1>7. ASSUME NEW r \in Repos, ScanFull(r) PROVE PipelineInv'
  <2>1. TypeOK'
    BY <1>7 DEF ScanFull, Scan, SeesHead, Differs
  <2>2. KindOK'
    BY <1>7 DEF ScanFull, Scan, SeesHead, Differs
  <2>3. LoopOK'
    BY <1>7 DEF ScanFull, Scan, SeesHead, Differs
  <2>4. PlainUnrecorded'
    BY <1>7 DEF ScanFull, Scan, SeesHead, Differs
  <2>5. DeltaPending'
    BY <1>7 DEF ScanFull, Scan, SeesHead, Differs
  <2>6. ReadProgress'
    BY <1>7 DEF ScanFull, Scan, SeesHead, Differs, Recorded, HeadCommit, Followed, Read
  <2>7. DiffProgress'
    BY <1>7 DEF ScanFull, Scan, SeesHead, Differs, Recorded, HeadCommit, Followed, Read
  <2>8. QED
    BY <2>1, <2>2, <2>3, <2>4, <2>5, <2>6, <2>7
<1>8. ASSUME NEW r \in Repos, ScanSkip(r) PROVE PipelineInv'
  <2>1. TypeOK'
    BY <1>8 DEF ScanSkip, Scan, SeesHead
  <2>2. KindOK'
    BY <1>8 DEF ScanSkip, Scan, SeesHead
  <2>3. LoopOK'
    BY <1>8 DEF ScanSkip, Scan, SeesHead
  <2>4. PlainUnrecorded'
    BY <1>8 DEF ScanSkip, Scan, SeesHead
  <2>5. DeltaPending'
    BY <1>8 DEF ScanSkip, Scan, SeesHead
  <2>6. ReadProgress'
    BY <1>8 DEF ScanSkip, Scan, SeesHead, Recorded, HeadCommit, Followed, Read
  <2>7. DiffProgress'
    <3>1. /\ pc = "scanning" /\ pc' = pc /\ r \in todo /\ todo' = todo \ {r}
          /\ head' = head /\ moved' = moved \ {r} /\ drift' = drift /\ full' = full
          /\ r \notin full /\ state' = state /\ mem' = mem /\ kind' = kind
      BY <1>8 DEF ScanSkip, Scan, SeesHead
    <3>2. r \in GitRepos /\ state[r] = head[r] /\ state[r] # Nothing
      BY <1>8 DEF ScanSkip
    <3>3. \A f \in Files \ drift[r] : At(mem[r], f) = head[r][f]
      BY <3>1, <3>2 DEF At
    <3>4. Recorded(r)' /\ Followed(r)'
      BY <3>1, <3>2, <3>3 DEF Recorded, Followed, HeadCommit
    <3>5. ASSUME NEW p \in Repos \ {r} PROVE p \in moved' <=> p \in moved
      BY <3>1
    <3>6. QED
      BY <3>1, <3>4, <3>5 DEF Recorded, Followed, HeadCommit
  <2>8. QED
    BY <2>1, <2>2, <2>3, <2>4, <2>5, <2>6, <2>7
<1>9. ASSUME NEW r \in Repos, ScanDeleted(r) PROVE PipelineInv'
  <2>1. TypeOK'
    BY <1>9 DEF ScanDeleted, Scan, SeesHead, Differs, Deleted, Changed
  <2>2. KindOK'
    BY <1>9 DEF ScanDeleted, Scan, SeesHead, Differs, Deleted, Changed
  <2>3. LoopOK'
    BY <1>9 DEF ScanDeleted, Scan, SeesHead, Differs, Deleted, Changed
  <2>4. PlainUnrecorded'
    BY <1>9 DEF ScanDeleted, Scan, SeesHead, Differs, Deleted, Changed
  <2>5. DeltaPending'
    <3>1. /\ pc = "scanning" /\ r \in todo /\ r \notin full /\ stale[r] = {}
          /\ mem[r] = nodes[r] /\ nodes[r] \in Tree \cup {Nothing}
          /\ nodes' = nodes /\ full' = full /\ pc' = pc
      BY <1>9 DEF ScanDeleted, Scan, SeesHead
    <3>2. mem'[r] = Without(nodes'[r], stale'[r])
      <4>1. CASE mem[r] = Nothing
        BY <1>9, <3>1, <4>1 DEF ScanDeleted, Without
      <4>2. CASE mem[r] \in Tree
        <5>1. Deleted(r) \in SUBSET Files
          BY DEF Deleted
        <5>2. Without(mem[r], Deleted(r))
                = Without(mem[r], {f \in Deleted(r) : mem[r][f] # Absent})
          BY <4>2, <5>1, WithoutPresent
        <5>3. mem[r] # Nothing
          BY <4>2
        <5>4. {f \in Deleted(r) : At(mem[r], f) # Absent} = {f \in Deleted(r) : mem[r][f] # Absent}
          BY <5>3 DEF At
        <5>5. QED
          BY <1>9, <3>1, <5>2, <5>4 DEF ScanDeleted
      <4>3. QED
        BY <3>1, <4>1, <4>2
    <3>3. ASSUME NEW p \in Repos \ {r} PROVE mem'[p] = mem[p] /\ stale'[p] = stale[p]
      BY <1>9 DEF ScanDeleted
    <3>4. QED
      BY <3>1, <3>2, <3>3
  <2>6. ReadProgress'
    BY <1>9 DEF ScanDeleted, Scan, SeesHead, Differs, Deleted, Changed, Recorded,
       HeadCommit, Followed, Read
  <2>7. DiffProgress'
    <3>1. /\ pc = "scanning" /\ pc' = pc /\ r \in todo /\ todo' = todo \ {r}
          /\ head' = head /\ moved' = moved \ {r} /\ drift' = drift /\ full' = full
          /\ r \in GitRepos /\ r \notin full /\ state' = [state EXCEPT ![r] = head[r]]
          /\ mem' = [mem EXCEPT ![r] = Without(mem[r], Deleted(r))]
      BY <1>9 DEF ScanDeleted, Scan, SeesHead, Differs
    <3>2. Recorded(r)' /\ Followed(r)'
      <4>1. state[r] \in Tree /\ head[r] \in Tree /\ mem[r] \in Tree \cup {Nothing}
        BY <1>9, <3>1 DEF ScanDeleted, Differs
      <4>2. \A f \in Files \ drift[r] : At(mem[r], f) = state[r][f]
        BY <3>1, <4>1 DEF At
      <4>3. \A f \in Files \ drift[r] : At(Without(mem[r], Deleted(r)), f) = head[r][f]
        <5>1. {f \in Files : head[r][f] \notin {Absent, state[r][f]}} = {}
          BY <1>9 DEF ScanDeleted, Changed
        <5>2. ASSUME NEW f \in Files \ drift[r]
              PROVE  At(Without(mem[r], Deleted(r)), f) = head[r][f]
          <6> DEFINE D == {g \in Files : state[r][g] # Absent /\ head[r][g] = Absent}
          <6>1. At(mem[r], f) = state[r][f]
            BY <4>2
          <6>2. At(Without(mem[r], D), f) = head[r][f]
            BY ONLY <4>1, <5>1, <6>1, f \in Files, DeletionDiff
          <6>3. QED
            BY <6>2 DEF Deleted
        <5>3. QED
          BY <5>2
      <4>4. mem'[r] = Without(mem[r], Deleted(r)) /\ state'[r] = head[r]
        BY <3>1
      <4>5. QED
        BY <3>1, <4>3, <4>4 DEF Recorded, Followed, HeadCommit
    <3>3. ASSUME NEW p \in Repos \ {r}
          PROVE  mem'[p] = mem[p] /\ state'[p] = state[p] /\ (p \in moved' <=> p \in moved)
      BY <3>1
    <3>4. QED
      BY <3>1, <3>2, <3>3 DEF Recorded, Followed, HeadCommit
  <2>8. QED
    BY <2>1, <2>2, <2>3, <2>4, <2>5, <2>6, <2>7
<1>10. ASSUME NEW r \in Repos, ScanChanged(r) PROVE PipelineInv'
  <2>1. TypeOK'
    BY <1>10 DEF ScanChanged, Ends
  <2>2. KindOK'
    BY <1>10 DEF ScanChanged, Ends
  <2>3. LoopOK'
    BY <1>10 DEF ScanChanged, Ends
  <2>4. PlainUnrecorded'
    BY <1>10 DEF ScanChanged, Ends
  <2>5. DeltaPending'
    BY <1>10 DEF ScanChanged, Ends
  <2>6. ReadProgress'
    BY <1>10 DEF ScanChanged, Ends, Recorded, HeadCommit, Followed, Read
  <2>7. DiffProgress'
    BY <1>10 DEF ScanChanged, Ends, Recorded, HeadCommit, Followed, Read
  <2>8. QED
    BY <2>1, <2>2, <2>3, <2>4, <2>5, <2>6, <2>7
<1>11. ASSUME ScanDone PROVE PipelineInv'
  <2>1. TypeOK'
    BY <1>11 DEF ScanDone, Goto
  <2>2. KindOK'
    BY <1>11 DEF ScanDone, Goto
  <2>3. LoopOK'
    BY <1>11 DEF ScanDone, Goto
  <2>4. PlainUnrecorded'
    BY <1>11 DEF ScanDone, Goto
  <2>5. DeltaPending'
    BY <1>11 DEF ScanDone, Goto
  <2>6. ReadProgress'
    BY <1>11 DEF ScanDone, Goto, Recorded, HeadCommit, Followed, Read
  <2>7. DiffProgress'
    BY <1>11 DEF ScanDone, Goto, Recorded, HeadCommit, Followed, Read
  <2>8. QED
    BY <2>1, <2>2, <2>3, <2>4, <2>5, <2>6, <2>7
<1>12. ASSUME NEW r \in Repos, RebuildRepo(r) PROVE PipelineInv'
  <2>0. /\ IndexRepo(r) /\ tree' = tree /\ head' = head
        /\ mem' \in Indexed /\ failures' \in 0 .. MaxFailures /\ moved' \subseteq Repos
        /\ touched' \in [Repos -> SUBSET Files] /\ skipped' \in [Repos -> SUBSET Files]
        /\ drift' = drift /\ Read(r)' /\ r \notin moved'
        /\ \A p \in Repos \ {r} :
             /\ mem'[p] = mem[p] /\ (p \in moved' <=> p \in moved)
             /\ Read(p) => Read(p)'
    BY <1>12, IndexRepoReads DEF RebuildRepo
  <2>1. TypeOK'
    BY <1>12, <2>0 DEF RebuildRepo, Goto
  <2>2. KindOK'
    BY <1>12, <2>0 DEF RebuildRepo, Goto
  <2>3. LoopOK'
    BY <1>12, <2>0 DEF RebuildRepo, Goto
  <2>4. PlainUnrecorded'
    BY <1>12, <2>0 DEF RebuildRepo, Goto
  <2>5. DeltaPending'
    BY <1>12, <2>0 DEF RebuildRepo, Goto
  <2>6. ReadProgress'
    BY <1>12, <2>0 DEF RebuildRepo, Goto, Recorded, HeadCommit, Followed
  <2>7. DiffProgress'
    BY <1>12, <2>0 DEF RebuildRepo, Goto, Recorded, HeadCommit, Followed
  <2>8. QED
    BY <2>1, <2>2, <2>3, <2>4, <2>5, <2>6, <2>7
<1>13. ASSUME RecordRebuilt PROVE PipelineInv'
  <2>1. TypeOK'
    BY <1>13 DEF RecordRebuilt, Goto
  <2>2. KindOK'
    BY <1>13 DEF RecordRebuilt, Goto
  <2>3. LoopOK'
    BY <1>13 DEF RecordRebuilt, Goto
  <2>4. PlainUnrecorded'
    BY <1>13 DEF RecordRebuilt, Goto
  <2>5. DeltaPending'
    BY <1>13 DEF RecordRebuilt, Goto
  <2>6. ReadProgress'
    BY <1>13 DEF RecordRebuilt, Goto, Recorded, HeadCommit, Followed, Read
  <2>7. DiffProgress'
    BY <1>13 DEF RecordRebuilt, Goto, Recorded, HeadCommit, Followed, Read
  <2>8. QED
    BY <2>1, <2>2, <2>3, <2>4, <2>5, <2>6, <2>7
<1>14. ASSUME RebuildDone PROVE PipelineInv'
  <2>1. TypeOK'
    BY <1>14 DEF RebuildDone, Goto
  <2>2. KindOK'
    BY <1>14 DEF RebuildDone, Goto
  <2>3. LoopOK'
    BY <1>14 DEF RebuildDone, Goto
  <2>4. PlainUnrecorded'
    BY <1>14 DEF RebuildDone, Goto
  <2>5. DeltaPending'
    BY <1>14 DEF RebuildDone, Goto
  <2>6. ReadProgress'
    BY <1>14 DEF RebuildDone, Goto, Recorded, HeadCommit, Followed, Read
  <2>7. DiffProgress'
    BY <1>14 DEF RebuildDone, Goto, Recorded, HeadCommit, Followed, Read
  <2>8. QED
    BY <2>1, <2>2, <2>3, <2>4, <2>5, <2>6, <2>7
<1>15. ASSUME NEW r \in Repos, NEW t \in Tree, SyncCheckout(r, t) PROVE PipelineInv'
  <2>1. TypeOK'
    <3>1. [f \in Files |-> IF head[r][f] = Absent /\ t[f] = Absent THEN tree[r][f] ELSE t[f]] \in Tree
      BY DEF Tree
    <3>2. head' \in [Repos -> Tree] /\ tree' \in [Repos -> Tree]
      BY <1>15, <3>1 DEF SyncCheckout
    <3>3. drift' \in [Repos -> SUBSET Files]
      BY <1>15 DEF SyncCheckout, Starts
    <3>4. QED
      BY <1>15, <3>2, <3>3 DEF SyncCheckout, Goto, Starts
  <2>2. KindOK'
    BY <1>15 DEF SyncCheckout, Goto, Starts
  <2>3. LoopOK'
    BY <1>15 DEF SyncCheckout, Goto, Starts
  <2>4. PlainUnrecorded'
    BY <1>15 DEF SyncCheckout, Goto, Starts
  <2>5. DeltaPending'
    BY <1>15 DEF SyncCheckout, Goto, Starts
  <2>6. ReadProgress'
    BY <1>15 DEF SyncCheckout, Goto, Starts, Recorded, HeadCommit, Followed, Read
  <2>7. DiffProgress'
    BY <1>15 DEF SyncCheckout, Goto, Starts, Recorded, HeadCommit, Followed, Read
  <2>8. QED
    BY <2>1, <2>2, <2>3, <2>4, <2>5, <2>6, <2>7
<1>16. ASSUME SyncLoad PROVE PipelineInv'
  <2>1. TypeOK'
    BY <1>16 DEF SyncLoad, Goto, Version
  <2>2. KindOK'
    BY <1>16 DEF SyncLoad, Goto, Version
  <2>3. LoopOK'
    BY <1>16 DEF SyncLoad, Goto, Version
  <2>4. PlainUnrecorded'
    BY <1>16 DEF SyncLoad, Goto, Version
  <2>5. DeltaPending'
    <3>1. pc' = "refreshing" /\ stale' = [r \in Repos |-> {}] /\ mem' = nodes'
      BY <1>16 DEF SyncLoad, Goto
    <3>2. ASSUME NEW r \in Repos PROVE mem'[r] = Without(nodes'[r], stale'[r])
      <4>1. nodes'[r] \in Tree \cup {Nothing}
        BY <2>1
      <4>2. QED
        BY <3>1, <4>1, WithoutNothing
    <3>3. QED
      BY <3>1, <3>2
  <2>6. ReadProgress'
    BY <1>16 DEF SyncLoad, Goto, Version, Recorded, HeadCommit, Followed, Read
  <2>7. DiffProgress'
    BY <1>16 DEF SyncLoad, Goto, Version, Recorded, HeadCommit, Followed, Read
  <2>8. QED
    BY <2>1, <2>2, <2>3, <2>4, <2>5, <2>6, <2>7
<1>17. ASSUME NEW r \in Repos, SyncRefresh(r) PROVE PipelineInv'
  <2>0. /\ IndexRepo(r) /\ tree' = tree /\ head' = head
        /\ mem' \in Indexed /\ failures' \in 0 .. MaxFailures /\ moved' \subseteq Repos
        /\ touched' \in [Repos -> SUBSET Files] /\ skipped' \in [Repos -> SUBSET Files]
        /\ drift' = drift /\ Read(r)' /\ r \notin moved'
        /\ \A p \in Repos \ {r} :
             /\ mem'[p] = mem[p] /\ (p \in moved' <=> p \in moved)
             /\ Read(p) => Read(p)'
    BY <1>17, IndexRepoReads DEF SyncRefresh
  <2>1. TypeOK'
    BY <1>17, <2>0 DEF SyncRefresh, Goto
  <2>2. KindOK'
    BY <1>17, <2>0 DEF SyncRefresh, Goto
  <2>3. LoopOK'
    BY <1>17, <2>0 DEF SyncRefresh, Goto
  <2>4. PlainUnrecorded'
    BY <1>17, <2>0 DEF SyncRefresh, Goto
  <2>5. DeltaPending'
    BY <1>17, <2>0 DEF SyncRefresh, Goto
  <2>6. ReadProgress'
    BY <1>17, <2>0 DEF SyncRefresh, Goto, Recorded, HeadCommit, Followed
  <2>7. DiffProgress'
    BY <1>17, <2>0 DEF SyncRefresh, Goto, Recorded, HeadCommit, Followed
  <2>8. QED
    BY <2>1, <2>2, <2>3, <2>4, <2>5, <2>6, <2>7
<1>18. ASSUME SyncSaveAll PROVE PipelineInv'
  <2>1. TypeOK'
    BY <1>18 DEF SyncSaveAll, Goto
  <2>2. KindOK'
    BY <1>18 DEF SyncSaveAll, Goto
  <2>3. LoopOK'
    BY <1>18 DEF SyncSaveAll, Goto
  <2>4. PlainUnrecorded'
    BY <1>18 DEF SyncSaveAll, Goto
  <2>5. DeltaPending'
    BY <1>18 DEF SyncSaveAll, Goto
  <2>6. ReadProgress'
    BY <1>18 DEF SyncSaveAll, Goto, Recorded, HeadCommit, Followed, Read
  <2>7. DiffProgress'
    BY <1>18 DEF SyncSaveAll, Goto, Recorded, HeadCommit, Followed, Read
  <2>8. QED
    BY <2>1, <2>2, <2>3, <2>4, <2>5, <2>6, <2>7
<1>19. ASSUME PersistDelete PROVE PipelineInv'
  <2>1. TypeOK'
    BY <1>19 DEF PersistDelete, Goto
  <2>2. KindOK'
    BY <1>19 DEF PersistDelete, Goto
  <2>3. LoopOK'
    BY <1>19 DEF PersistDelete, Goto
  <2>4. PlainUnrecorded'
    BY <1>19 DEF PersistDelete, Goto
  <2>5. DeltaPending'
    BY <1>19 DEF PersistDelete, Goto
  <2>6. ReadProgress'
    BY <1>19 DEF PersistDelete, Goto, Recorded, HeadCommit, Followed, Read
  <2>7. DiffProgress'
    BY <1>19 DEF PersistDelete, Goto, Recorded, HeadCommit, Followed, Read
  <2>8. QED
    BY <2>1, <2>2, <2>3, <2>4, <2>5, <2>6, <2>7
<1>20. ASSUME PersistSave PROVE PipelineInv'
  <2>1. TypeOK'
    BY <1>20 DEF PersistSave, Goto
  <2>2. KindOK'
    BY <1>20 DEF PersistSave, Goto
  <2>3. LoopOK'
    BY <1>20 DEF PersistSave, Goto
  <2>4. PlainUnrecorded'
    BY <1>20 DEF PersistSave, Goto
  <2>5. DeltaPending'
    BY <1>20 DEF PersistSave, Goto
  <2>6. ReadProgress'
    BY <1>20 DEF PersistSave, Goto, Recorded, HeadCommit, Followed, Read
  <2>7. DiffProgress'
    BY <1>20 DEF PersistSave, Goto, Recorded, HeadCommit, Followed, Read
  <2>8. QED
    BY <2>1, <2>2, <2>3, <2>4, <2>5, <2>6, <2>7
<1>21. ASSUME Publish PROVE PipelineInv'
  <2>1. TypeOK'
    BY <1>21 DEF Publish, Ends, ReadyToPublish, Version
  <2>2. KindOK'
    BY <1>21 DEF Publish, Ends, ReadyToPublish, Version
  <2>3. LoopOK'
    BY <1>21 DEF Publish, Ends, ReadyToPublish, Version
  <2>4. PlainUnrecorded'
    BY <1>21 DEF Publish, Ends, ReadyToPublish, Version
  <2>5. DeltaPending'
    BY <1>21 DEF Publish, Ends, ReadyToPublish, Version
  <2>6. ReadProgress'
    BY <1>21 DEF Publish, Ends, ReadyToPublish, Version, Recorded, HeadCommit,
       Followed, Read
  <2>7. DiffProgress'
    BY <1>21 DEF Publish, Ends, ReadyToPublish, Version, Recorded, HeadCommit,
       Followed, Read
  <2>8. QED
    BY <2>1, <2>2, <2>3, <2>4, <2>5, <2>6, <2>7
<1>22. ASSUME Fail PROVE PipelineInv'
  <2>1. TypeOK'
    BY <1>22 DEF Fail, Ends
  <2>2. KindOK'
    BY <1>22 DEF Fail, Ends
  <2>3. LoopOK'
    BY <1>22 DEF Fail, Ends
  <2>4. PlainUnrecorded'
    BY <1>22 DEF Fail, Ends
  <2>5. DeltaPending'
    BY <1>22 DEF Fail, Ends
  <2>6. ReadProgress'
    BY <1>22 DEF Fail, Ends, Recorded, HeadCommit, Followed, Read
  <2>7. DiffProgress'
    BY <1>22 DEF Fail, Ends, Recorded, HeadCommit, Followed, Read
  <2>8. QED
    BY <2>1, <2>2, <2>3, <2>4, <2>5, <2>6, <2>7
<1>23. ASSUME Rollback PROVE PipelineInv'
  <2>1. TypeOK'
    BY <1>23 DEF Rollback
  <2>2. KindOK'
    BY <1>23 DEF Rollback
  <2>3. LoopOK'
    BY <1>23 DEF Rollback
  <2>4. PlainUnrecorded'
    BY <1>23 DEF Rollback
  <2>5. DeltaPending'
    BY <1>23 DEF Rollback
  <2>6. ReadProgress'
    BY <1>23 DEF Rollback, Recorded, HeadCommit, Followed, Read
  <2>7. DiffProgress'
    BY <1>23 DEF Rollback, Recorded, HeadCommit, Followed, Read
  <2>8. QED
    BY <2>1, <2>2, <2>3, <2>4, <2>5, <2>6, <2>7
<1>24. ASSUME NEW r \in Repos, NEW t \in Tree, Move(r, t) PROVE PipelineInv'
  <2>0. /\ UNCHANGED <<store, index, run, failures, skipped, drift>>
        /\ tree' \in [Repos -> Tree] /\ changes' \in 0 .. MaxChanges
        /\ touched' \in [Repos -> SUBSET Files]
        /\ pc # "idle" => \A p \in Repos : Read(p) => Read(p)'
    <3>1. [f \in Files |-> IF t[f] = head[r][f] THEN tree[r][f] ELSE t[f]] \in Tree
      BY DEF Tree
    <3>2. QED
      BY <1>24, <3>1, ChangeReads DEF Move
  <2>1. TypeOK'
    BY <1>24, <2>0 DEF Move
  <2>2. KindOK'
    BY <1>24, <2>0 DEF Move
  <2>3. LoopOK'
    BY <1>24, <2>0 DEF Move
  <2>4. PlainUnrecorded'
    BY <1>24, <2>0 DEF Move
  <2>5. DeltaPending'
    BY <1>24, <2>0 DEF Move
  <2>6. ReadProgress'
    BY <1>24, <2>0 DEF Move, Recorded, HeadCommit, Followed
  <2>7. DiffProgress'
    BY <1>24, <2>0 DEF Move, Recorded, HeadCommit, Followed
  <2>8. QED
    BY <2>1, <2>2, <2>3, <2>4, <2>5, <2>6, <2>7
<1>25. ASSUME NEW r \in Repos, NEW f \in Files, NEW b \in Blobs \cup {Absent}, Edit(r, f, b) PROVE PipelineInv'
  <2>0. /\ UNCHANGED <<store, index, run, failures, skipped, drift>>
        /\ tree' \in [Repos -> Tree] /\ changes' \in 0 .. MaxChanges
        /\ touched' \in [Repos -> SUBSET Files]
        /\ pc # "idle" => \A p \in Repos : Read(p) => Read(p)'
    <3>1. [tree[r] EXCEPT ![f] = b] \in Tree
      BY DEF Tree
    <3>2. QED
      BY <1>25, <3>1, ChangeReads DEF Edit
  <2>1. TypeOK'
    BY <1>25, <2>0 DEF Edit
  <2>2. KindOK'
    BY <1>25, <2>0 DEF Edit
  <2>3. LoopOK'
    BY <1>25, <2>0 DEF Edit
  <2>4. PlainUnrecorded'
    BY <1>25, <2>0 DEF Edit
  <2>5. DeltaPending'
    BY <1>25, <2>0 DEF Edit
  <2>6. ReadProgress'
    BY <1>25, <2>0 DEF Edit, Recorded, HeadCommit, Followed
  <2>7. DiffProgress'
    BY <1>25, <2>0 DEF Edit, Recorded, HeadCommit, Followed
  <2>8. QED
    BY <2>1, <2>2, <2>3, <2>4, <2>5, <2>6, <2>7
<1>26. CASE UNCHANGED vars
  BY <1>26 DEF vars, seen, Read, Recorded, Followed, HeadCommit
<1>27. QED
  BY <1>1, <1>2, <1>3, <1>4, <1>5, <1>6, <1>7, <1>8, <1>9, <1>10, <1>11, <1>12, <1>13,
     <1>14, <1>15, <1>16, <1>17, <1>18, <1>19, <1>20, <1>21, <1>22, <1>23, <1>24,
     <1>25, <1>26
  DEF Next, Step, StepOn

(* The inductive invariant holds in every reachable state.                 *)
THEOREM PipelineInvariant == Spec => []PipelineInv
  BY InitPipelineInv, NextPipelineInv, PTL DEF Spec

(* The types hold, and the active version is one that was published.       *)
THEOREM PipelineTypeCorrect == Spec => []TypeOK
  BY PipelineInvariant, PTL DEF PipelineInv

(* What is published is what the working store holds.                     *)
THEOREM PublishedIsStored == Spec => []StoreMatchesGraph
<1>1. PipelineInv => StoreMatchesGraph
  BY DEF PipelineInv, DeltaPending, ReadyToPublish, StoreMatchesGraph
<1>2. QED
  BY PipelineInvariant, <1>1, PTL

(* A repository that is indexed as a whole is published as its working     *)
(* directory was read, and recorded at HEAD, whatever the store held.      *)
THEOREM FullRunsExact == Spec => []FullRunExact
<1>1. PipelineInv => FullRunExact
  BY DEF PipelineInv, ReadProgress, ReadyToPublish, FullRunExact
<1>2. QED
  BY PipelineInvariant, <1>1, PTL

(* An incremental run brings every other repository to HEAD, at every file *)
(* whose nodes were those of the recorded commit.                          *)
THEOREM IncrementalRunsExact == Spec => []IncrementalRunExact
<1>1. PipelineInv => IncrementalRunExact
  BY DEF PipelineInv, DiffProgress, ReadyToPublish, IncrementalRunExact, TypeOK
<1>2. QED
  BY PipelineInvariant, <1>1, PTL
=============================================================================
