-------------------------- MODULE IndexJobsProofs --------------------------
(* Theorems of IndexJobs: every set of calls, kinds, repos and commits,    *)
(* any number of worker processes and of worker deaths.                    *)
EXTENDS IndexJobs, TLAPS

LEMMA InitJobsInv == Init => JobsInv
  BY JobsAssumption
  DEF Init, JobsInv, TypeOK, JoinedOK, WorkerRow, QueuedUnclaimed, CommitKept, NoLostRequest,
      ClaimedOnce, Queued, Job, Claiming

LEMMA NextJobsInv == JobsInv /\ [Next]_vars => JobsInv'
<1> SUFFICES ASSUME JobsInv, [Next]_vars PROVE JobsInv'
  OBVIOUS
<1> USE JobsAssumption DEF JobsInv, TypeOK, JoinedOK, WorkerRow,
      QueuedUnclaimed, CommitKept, NoLostRequest, ClaimedOnce, Queued, Job, Claiming, table, client, worker, history
<1>1. ASSUME NEW c \in Clients, NEW s \in Shas \cup {NoSha}, EnqueueFind(c, s) PROVE JobsInv'
  <2>1. TypeOK'
    BY <1>1 DEF EnqueueFind, Matching, Latest
  <2>2. JoinedOK'
    BY <1>1 DEF EnqueueFind, Matching, Latest
  <2>3. WorkerRow'
    BY <1>1 DEF EnqueueFind, Matching, Latest
  <2>4. QueuedUnclaimed'
    BY <1>1 DEF EnqueueFind, Matching, Latest
  <2>5. CommitKept'
    BY <1>1 DEF EnqueueFind, Matching, Latest
  <2>6. NoLostRequest'
    BY <1>1 DEF EnqueueFind, Matching, Latest
  <2>7. ClaimedOnce'
    BY <1>1 DEF EnqueueFind, Matching, Latest
  <2>8. QED
    BY <2>1, <2>2, <2>3, <2>4, <2>5, <2>6, <2>7
<1>2. ASSUME NEW c \in Clients, NEW s \in Shas \cup {NoSha}, EnqueueNew(c, s) PROVE JobsInv'
  <2>1. TypeOK'
    BY <1>2 DEF EnqueueNew, Matching
  <2>2. JoinedOK'
    BY <1>2 DEF EnqueueNew, Matching
  <2>3. WorkerRow'
    BY <1>2 DEF EnqueueNew, Matching
  <2>4. QueuedUnclaimed'
    BY <1>2 DEF EnqueueNew, Matching
  <2>5. CommitKept'
    BY <1>2 DEF EnqueueNew, Matching
  <2>6. NoLostRequest'
    BY <1>2 DEF EnqueueNew, Matching
  <2>7. ClaimedOnce'
    BY <1>2 DEF EnqueueNew, Matching
  <2>8. QED
    BY <2>1, <2>2, <2>3, <2>4, <2>5, <2>6, <2>7
<1>3. ASSUME NEW c \in Clients, EnqueueInsert(c) PROVE JobsInv'
  <2>1. TypeOK'
    BY <1>3 DEF EnqueueInsert
  <2>2. JoinedOK'
    BY <1>3 DEF EnqueueInsert
  <2>3. WorkerRow'
    BY <1>3 DEF EnqueueInsert
  <2>4. QueuedUnclaimed'
    BY <1>3 DEF EnqueueInsert
  <2>5. CommitKept'
    BY <1>3 DEF EnqueueInsert
  <2>6. NoLostRequest'
    BY <1>3 DEF EnqueueInsert
  <2>7. ClaimedOnce'
    BY <1>3 DEF EnqueueInsert
  <2>8. QED
    BY <2>1, <2>2, <2>3, <2>4, <2>5, <2>6, <2>7
<1>4. ASSUME NEW c \in Clients, EnqueueUpdate(c) PROVE JobsInv'
  <2>1. TypeOK'
    BY <1>4 DEF EnqueueUpdate, PinnedIn
  <2>2. JoinedOK'
    BY <1>4 DEF EnqueueUpdate, PinnedIn
  <2>3. WorkerRow'
    BY <1>4 DEF EnqueueUpdate, PinnedIn
  <2>4. QueuedUnclaimed'
    BY <1>4 DEF EnqueueUpdate, PinnedIn
  <2>5. CommitKept'
    BY <1>4 DEF EnqueueUpdate, PinnedIn
  <2>6. NoLostRequest'
    BY <1>4 DEF EnqueueUpdate, PinnedIn
  <2>7. ClaimedOnce'
    BY <1>4 DEF EnqueueUpdate, PinnedIn
  <2>8. QED
    BY <2>1, <2>2, <2>3, <2>4, <2>5, <2>6, <2>7
<1>5. ASSUME NEW w \in Workers, ClaimSelect(w) PROVE JobsInv'
  <2>1. TypeOK'
    BY <1>5 DEF ClaimSelect, Oldest
  <2>2. JoinedOK'
    BY <1>5 DEF ClaimSelect, Oldest
  <2>3. WorkerRow'
    BY <1>5 DEF ClaimSelect, Oldest
  <2>4. QueuedUnclaimed'
    BY <1>5 DEF ClaimSelect, Oldest
  <2>5. CommitKept'
    BY <1>5 DEF ClaimSelect, Oldest
  <2>6. NoLostRequest'
    BY <1>5 DEF ClaimSelect, Oldest
  <2>7. ClaimedOnce'
    BY <1>5 DEF ClaimSelect, Oldest
  <2>8. QED
    BY <2>1, <2>2, <2>3, <2>4, <2>5, <2>6, <2>7
<1>6. ASSUME NEW w \in Workers, ClaimUpdate(w) PROVE JobsInv'
  <2>1. TypeOK'
    BY <1>6 DEF ClaimUpdate, AnsweredBy
  <2>2. JoinedOK'
    BY <1>6 DEF ClaimUpdate, AnsweredBy
  <2>3. WorkerRow'
    BY <1>6 DEF ClaimUpdate, AnsweredBy
  <2>4. QueuedUnclaimed'
    BY <1>6 DEF ClaimUpdate, AnsweredBy
  <2>5. CommitKept'
    BY <1>6 DEF ClaimUpdate, AnsweredBy
  <2>6. NoLostRequest'
    BY <1>6 DEF ClaimUpdate, AnsweredBy
  <2>7. ClaimedOnce'
    BY <1>6 DEF ClaimUpdate, AnsweredBy
  <2>8. QED
    BY <2>1, <2>2, <2>3, <2>4, <2>5, <2>6, <2>7
<1>7. ASSUME NEW w \in Workers, NEW outcome \in {"completed", "failed"}, Finish(w, outcome) PROVE JobsInv'
  <2>1. TypeOK'
    BY <1>7 DEF Finish
  <2>2. JoinedOK'
    BY <1>7 DEF Finish
  <2>3. WorkerRow'
    BY <1>7 DEF Finish
  <2>4. QueuedUnclaimed'
    BY <1>7 DEF Finish
  <2>5. CommitKept'
    BY <1>7 DEF Finish
  <2>6. NoLostRequest'
    BY <1>7 DEF Finish
  <2>7. ClaimedOnce'
    BY <1>7 DEF Finish
  <2>8. QED
    BY <2>1, <2>2, <2>3, <2>4, <2>5, <2>6, <2>7
<1>8. ASSUME NEW w \in Workers, Crash(w) PROVE JobsInv'
  <2>1. TypeOK'
    BY <1>8 DEF Crash
  <2>2. JoinedOK'
    BY <1>8 DEF Crash
  <2>3. WorkerRow'
    BY <1>8 DEF Crash
  <2>4. QueuedUnclaimed'
    BY <1>8 DEF Crash
  <2>5. CommitKept'
    BY <1>8 DEF Crash
  <2>6. NoLostRequest'
    BY <1>8 DEF Crash
  <2>7. ClaimedOnce'
    BY <1>8 DEF Crash
  <2>8. QED
    BY <2>1, <2>2, <2>3, <2>4, <2>5, <2>6, <2>7
<1>9. CASE UNCHANGED vars
  BY <1>9 DEF vars
<1>10. \A c \in Clients : Pins[c] \subseteq Shas \cup {NoSha}
  BY JobsAssumption
<1>11. QED
  BY <1>1, <1>2, <1>3, <1>4, <1>5, <1>6, <1>7, <1>8, <1>9, <1>10 DEF Next, Enqueue, Work

(* The inductive invariant holds in every reachable state, however many    *)
(* workers poll the queue at the same time.                                *)
THEOREM JobsInvariant == Spec => []JobsInv
<1>1. QED
  BY InitJobsInv, NextJobsInv, PTL DEF Spec

(* The types hold, for any number of calls, workers and crashes.           *)
THEOREM JobsTypeCorrect == Spec => []TypeOK
<1>1. JobsInv => TypeOK
  BY DEF JobsInv
<1>2. QED
  BY <1>1, JobsInvariant, PTL

(* No accepted request is lost and none is run at an older commit than it  *)
(* named, except through a row that was revived while it was running or a  *)
(* commit that a worker had read over: so any number of workers, although  *)
(* they may run a row twice, lose nothing that one worker would not lose.  *)
THEOREM RequestsSafe == Spec => []NoLostRequest
<1>1. JobsInv => NoLostRequest
  BY DEF JobsInv
<1>2. QED
  BY <1>1, JobsInvariant, PTL

(* A row that was not revived is run at most once by each worker, so at    *)
(* most as often as there are workers that read it before the first claim. *)
THEOREM RowsClaimedOnce == Spec => []ClaimedOnce
<1>1. JobsInv => ClaimedOnce
  BY DEF JobsInv
<1>2. QED
  BY <1>1, JobsInvariant, PTL

(* If no call names a commit nothing is ever revived or overtaken: then    *)
(* NoLostRequest and ClaimedOnce hold of every request and every row.      *)
THEOREM UnpinnedNeverRevived == Shas = {} => (Spec => [](revived = {} /\ overtaken = {}))
<1> SUFFICES ASSUME Shas = {} PROVE Spec => [](revived = {} /\ overtaken = {})
  OBVIOUS
<1> DEFINE Quiet == /\ revived = {} /\ overtaken = {}
                    /\ cpc \in [Clients -> {"ready", "insert", "accepted"}]
<1>1. Init => Quiet
  BY DEF Init
<1>2. ASSUME Quiet, [Next]_vars PROVE Quiet'
  <2>1. ASSUME NEW c \in Clients, NEW s \in Shas \cup {NoSha},
               EnqueueFind(c, s) \/ EnqueueNew(c, s)
        PROVE  Quiet'
    <3>1. s = NoSha
      BY <2>1
    <3>2. QED
      BY <1>2, <2>1, <3>1 DEF EnqueueFind, EnqueueNew, history
  <2>2. ASSUME NEW c \in Clients, EnqueueInsert(c) \/ EnqueueUpdate(c) PROVE Quiet'
    BY <1>2, <2>2 DEF EnqueueInsert, EnqueueUpdate, history
  <2>3. ASSUME NEW w \in Workers, Work(w) \/ Crash(w) PROVE Quiet'
    BY <1>2, <2>3 DEF Work, ClaimSelect, ClaimUpdate, Finish, Crash, client, history
  <2>4. CASE UNCHANGED vars
    BY <1>2, <2>4 DEF vars, client, history
  <2>5. \A c \in Clients : Pins[c] \subseteq Shas \cup {NoSha}
    BY JobsAssumption
  <2>6. QED
    BY <1>2, <2>1, <2>2, <2>3, <2>4, <2>5 DEF Next, Enqueue
<1>3. QED
  BY <1>1, <1>2, PTL DEF Spec
=============================================================================
