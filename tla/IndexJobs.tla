----------------------------- MODULE IndexJobs -----------------------------
(***************************************************************************)
(* The index job queue: the table index_jobs (sqlite_index_jobs.py), the   *)
(* `mimir indexer enqueue` commands that fill it and the worker processes  *)
(* that empty it (runtime.py: worker_once, worker_loop).                   *)
(*                                                                         *)
(* Every process has its own connection and every statement commits by     *)
(* itself, so a read and the write that relies on it are two steps here.   *)
(* _update writes the whole row back from the copy that was read.          *)
(***************************************************************************)
EXTENDS Naturals, FiniteSets

CONSTANTS Clients,    \* enqueue commands; each is one process and one call
          Workers,    \* worker processes
          Keys,       \* (kind, repo) pairs that jobs coalesce on
          Keyings,    \* [Clients -> Keys]: which keys the calls may be for
          Shas,       \* commits that --commit-sha can name
          NoSha,      \* no --commit-sha
          Pins,       \* [Clients -> what the call may name: commits, or NoSha]
          MaxCrashes  \* bound: worker processes that die

ASSUME JobsAssumption ==
  /\ IsFiniteSet(Clients)
  /\ Keyings \subseteq [Clients -> Keys]
  /\ NoSha \notin Shas
  /\ Pins \in [Clients -> SUBSET (Shas \cup {NoSha})]
  /\ MaxCrashes \in Nat

(* A client inserts at most one row, so it names the row it inserts.       *)
Job == Clients

VARIABLES
  status,    \* [Job -> "absent" or the column status]
  key,       \* [Job -> Keys]: columns kind and repo, the inserting client's
  sha,       \* [Job -> Shas or NoSha]: column commit_sha
  created,   \* [Job -> Nat]: column created_at; 0 before
  clock,     \* created_at stamps handed out
  cpc,       \* [Clients -> step of the call]
  asked,     \* [Clients -> Shas or NoSha]: the call's commit_sha
  joined,    \* [Clients -> Job]: the row the call returns
  wpc,       \* [Workers -> step of worker_once]
  wjob,      \* [Workers -> Job it read or runs, or NoJob]
  wsha,      \* [Workers -> commit of the row it read]
  crashes,   \* worker deaths so far
  answered,   \* history: calls that a run began for, at their commit
  claims,     \* history: [Workers -> [Job -> Nat]], how often each worker
              \* claimed the row
  revived,    \* history: rows put back to "queued" by a call that had read
              \* them before they were claimed
  superseded, \* history: calls on a row whose commit a later call replaced
  overtaken   \* history: calls that wrote their commit into a row which a
              \* worker had read already

NoJob == "none"

table   == <<status, key, sha, created>>
client  == <<clock, cpc, asked, joined>>
worker  == <<wpc, wjob, wsha, crashes>>
history == <<answered, claims, revived, superseded, overtaken>>
vars    == <<table, client, worker, history>>

Init ==
  /\ status = [j \in Job |-> "absent"]
  /\ key \in Keyings
  /\ sha = [j \in Job |-> NoSha]
  /\ created = [j \in Job |-> 0] /\ clock = 0
  /\ cpc = [c \in Clients |-> "ready"]
  /\ asked = [c \in Clients |-> NoSha]
  /\ joined = [c \in Clients |-> c]
  /\ wpc = [w \in Workers |-> "idle"]
  /\ wjob = [w \in Workers |-> NoJob]
  /\ wsha = [w \in Workers |-> NoSha]
  /\ crashes = 0
  /\ answered = {} /\ claims = [w \in Workers |-> [j \in Job |-> 0]]
  /\ revived = {} /\ superseded = {} /\ overtaken = {}

Queued == {j \in Job : status[j] = "queued"}

-----------------------------------------------------------------------------
(***************************************************************************)
(* enqueue.                                                                *)
(***************************************************************************)

(* The rows _find_queued selects from: same kind and repo, still queued.   *)
Matching(k) == {j \in Queued : key[j] = k}

(* ... ORDER BY created_at DESC LIMIT 1.                                   *)
Latest(S) == {j \in S : \A i \in S : created[i] <= created[j]}

(* _find_queued found a row: a call without a commit returns it, one with  *)
(* a commit goes on to write it.                                           *)
EnqueueFind(c, s) ==
  /\ cpc[c] = "ready"
  /\ \E j \in Latest(Matching(key[c])) : joined' = [joined EXCEPT ![c] = j]
  /\ asked' = [asked EXCEPT ![c] = s]
  /\ cpc' = [cpc EXCEPT ![c] = IF s = NoSha THEN "accepted" ELSE "update"]
  /\ UNCHANGED <<table, clock, worker, history>>

(* _find_queued found none; created_at is taken before the INSERT.         *)
EnqueueNew(c, s) ==
  /\ cpc[c] = "ready"
  /\ Matching(key[c]) = {}
  /\ asked' = [asked EXCEPT ![c] = s]
  /\ clock' = clock + 1
  /\ created' = [created EXCEPT ![c] = clock + 1]
  /\ cpc' = [cpc EXCEPT ![c] = "insert"]
  /\ UNCHANGED <<status, key, sha, joined, worker, history>>

(* Mutation of EnqueueInsert: the call returns without its row.            *)
EnqueueInsertUncommitted(c) ==
  /\ cpc[c] = "insert"
  /\ cpc' = [cpc EXCEPT ![c] = "accepted"]
  /\ UNCHANGED <<table, clock, asked, joined, worker, history>>

(* INSERT.                                                                 *)
EnqueueInsert(c) ==
  /\ cpc[c] = "insert"
  /\ status' = [status EXCEPT ![c] = "queued"]
  /\ sha' = [sha EXCEPT ![c] = asked[c]]
  /\ cpc' = [cpc EXCEPT ![c] = "accepted"]
  /\ UNCHANGED <<key, created, clock, asked, joined, worker, history>>

(* Workers between the SELECT and the UPDATE of their claim of row j.      *)
Claiming(j) == {w \in Workers : wpc[w] = "selected" /\ wjob[w] = j}

(* Calls that have named a commit for row j: the next one replaces it.     *)
PinnedIn(j) ==
  {d \in Clients : cpc[d] = "accepted" /\ joined[d] = j /\ asked[d] # NoSha}

(* Mutation of EnqueueUpdate: the row keeps the commit it has.             *)
EnqueueUpdateKeepsSha(c) ==
  LET j == joined[c]
  IN  /\ cpc[c] = "update"
      /\ status' = [status EXCEPT ![j] = "queued"]
      /\ revived' = IF j \in Queued THEN revived ELSE revived \cup {j}
      /\ superseded' = superseded \cup PinnedIn(j)
      /\ overtaken' = IF Claiming(j) = {} THEN overtaken ELSE overtaken \cup {c}
      /\ cpc' = [cpc EXCEPT ![c] = "accepted"]
      /\ UNCHANGED <<key, sha, created, clock, asked, joined, worker, answered, claims>>

(* _update(existing): the copy still says "queued".                        *)
EnqueueUpdate(c) ==
  LET j == joined[c]
  IN  /\ cpc[c] = "update"
      /\ status' = [status EXCEPT ![j] = "queued"]
      /\ sha' = [sha EXCEPT ![j] = asked[c]]
      /\ revived' = IF j \in Queued THEN revived ELSE revived \cup {j}
      /\ superseded' = superseded \cup PinnedIn(j)
      /\ overtaken' = IF Claiming(j) = {} THEN overtaken ELSE overtaken \cup {c}
      /\ cpc' = [cpc EXCEPT ![c] = "accepted"]
      /\ UNCHANGED <<key, created, clock, asked, joined, worker, answered, claims>>

-----------------------------------------------------------------------------
(***************************************************************************)
(* worker_once.                                                            *)
(***************************************************************************)

Oldest(S) == {j \in S : \A i \in S : created[j] <= created[i]}

(* claim_next: SELECT ... ORDER BY created_at ASC LIMIT 1.                 *)
ClaimSelect(w) ==
  /\ wpc[w] = "idle"
  /\ \E j \in Oldest(Queued) :
       /\ wjob' = [wjob EXCEPT ![w] = j]
       /\ wsha' = [wsha EXCEPT ![w] = sha[j]]
  /\ wpc' = [wpc EXCEPT ![w] = "selected"]
  /\ UNCHANGED <<table, client, crashes, history>>

(* A run of row j at commit s has begun.  It answers the calls made so far *)
(* for that kind and repo that named s or no commit, and those that named  *)
(* one which a later call replaced.                                        *)
AnsweredBy(j, s) ==
  {c \in Clients : /\ cpc[c] # "ready" /\ key[c] = key[j]
                   /\ asked[c] \in {s, NoSha} \/ c \in superseded}

(* Mutation of ClaimUpdate: the row is handed out but not marked.          *)
ClaimUpdateUnmarked(w) ==
  LET j == wjob[w]
  IN  /\ wpc[w] = "selected"
      /\ answered' = answered \cup AnsweredBy(j, wsha[w])
      /\ claims' = [claims EXCEPT ![w][j] = @ + 1]
      /\ wpc' = [wpc EXCEPT ![w] = "running"]
      /\ UNCHANGED <<table, client, wjob, wsha, crashes, revived, superseded, overtaken>>

(* claim_next: _update with the copy that was read, now RUNNING.  The run  *)
(* takes its commit from that copy, too.                                   *)
ClaimUpdate(w) ==
  LET j == wjob[w]
  IN  /\ wpc[w] = "selected"
      /\ status' = [status EXCEPT ![j] = "running"]
      /\ sha' = [sha EXCEPT ![j] = wsha[w]]
      /\ answered' = answered \cup AnsweredBy(j, wsha[w])
      /\ claims' = [claims EXCEPT ![w][j] = @ + 1]
      /\ wpc' = [wpc EXCEPT ![w] = "running"]
      /\ UNCHANGED <<key, created, client, wjob, wsha, crashes, revived, superseded,
                     overtaken>>

(* Mutation of Finish: an exception of the run leaves the worker loop.     *)
FinishUncaught(w, outcome) ==
  /\ wpc[w] = "running"
  /\ IF outcome = "completed"
     THEN /\ status' = [status EXCEPT ![wjob[w]] = outcome]
          /\ wpc' = [wpc EXCEPT ![w] = "idle"]
     ELSE /\ wpc' = [wpc EXCEPT ![w] = "stopped"]
          /\ UNCHANGED status
  /\ UNCHANGED <<key, sha, created, client, wjob, wsha, crashes, history>>

(* The index run returned or raised: complete or fail, whatever the row    *)
(* says by now.                                                            *)
Finish(w, outcome) ==
  /\ wpc[w] = "running"
  /\ status' = [status EXCEPT ![wjob[w]] = outcome]
  /\ wpc' = [wpc EXCEPT ![w] = "idle"]
  /\ wjob' = [wjob EXCEPT ![w] = NoJob]
  /\ wsha' = [wsha EXCEPT ![w] = NoSha]
  /\ UNCHANGED <<key, sha, created, client, crashes, history>>

(* The process dies, or an sqlite error outside worker_once's try ends it; *)
(* another one is started.  No row is touched.                             *)
Crash(w) ==
  /\ wpc[w] # "idle"
  /\ crashes < MaxCrashes
  /\ crashes' = crashes + 1
  /\ wpc' = [wpc EXCEPT ![w] = "idle"]
  /\ wjob' = [wjob EXCEPT ![w] = NoJob]
  /\ wsha' = [wsha EXCEPT ![w] = NoSha]
  /\ UNCHANGED <<table, client, history>>

Enqueue(c) ==
  \/ \E s \in Pins[c] : EnqueueFind(c, s) \/ EnqueueNew(c, s)
  \/ EnqueueInsert(c) \/ EnqueueUpdate(c)

Work(w) ==
  \/ ClaimSelect(w) \/ ClaimUpdate(w)
  \/ \E outcome \in {"completed", "failed"} : Finish(w, outcome)

Next ==
  \/ \E c \in Clients : Enqueue(c)
  \/ \E w \in Workers : Work(w) \/ Crash(w)

(* worker_loop polls forever and every index run ends; nobody is obliged   *)
(* to enqueue.                                                             *)
Fairness == \A w \in Workers : WF_vars(Work(w))

Spec == Init /\ [][Next]_vars /\ Fairness

-----------------------------------------------------------------------------
(***************************************************************************)
(* Properties.                                                             *)
(***************************************************************************)

(* Every variable has its type; a queued row has been inserted.            *)
TypeOK ==
  /\ status \in [Job -> {"absent", "queued", "running", "completed", "failed"}]
  /\ key \in [Job -> Keys]
  /\ sha \in [Job -> Shas \cup {NoSha}]
  /\ created \in [Job -> Nat] /\ clock \in Nat
  /\ cpc \in [Clients -> {"ready", "update", "insert", "accepted"}]
  /\ asked \in [Clients -> Shas \cup {NoSha}]
  /\ joined \in [Clients -> Job]
  /\ wpc \in [Workers -> {"idle", "selected", "running"}]
  /\ wjob \in [Workers -> Job \cup {NoJob}]
  /\ wsha \in [Workers -> Shas \cup {NoSha}]
  /\ crashes \in 0 .. MaxCrashes
  /\ answered \subseteq Clients /\ revived \subseteq Job
  /\ superseded \subseteq Clients /\ overtaken \subseteq Clients
  /\ claims \in [Workers -> [Job -> Nat]]
  /\ \A j \in Job : status[j] = "absent" <=> cpc[j] # "accepted" \/ joined[j] # j

(* A call that returned is waiting in a queued row, or a run of its kind   *)
(* and repo began after the call did, at the commit it named or one that a *)
(* later call put in its place: no request is joined to work that began    *)
(* before it, and none is run at a commit older than the one it named.     *)
(* Two interleavings are excepted, for both of which _update is to blame:  *)
(* a row that a pinned call revived under a running worker, which then     *)
(* overwrites it, and a pinned call whose commit is overwritten by the     *)
(* copy a worker had read before it (enqueue, claim_next).                 *)
NoLostRequest ==
  \A c \in Clients :
    cpc[c] = "accepted" /\ c \notin answered
      => joined[c] \in Queued \cup revived \/ c \in overtaken

(* Two workers that read the same queued row both run it, but no worker    *)
(* runs a row a second time, revived ones excepted: once one of them has   *)
(* marked it, nothing another one writes from its older copy, nor the      *)
(* outcome of either run, puts it back into the queue (claim_next,         *)
(* _set_terminal).                                                         *)
ClaimedOnce == \A w \in Workers, j \in Job \ revived : claims[w][j] <= 1

(* A queued job does not stay queued, whatever jobs fail before it and     *)
(* whichever worker process dies: again and again the queue is empty       *)
(* (worker_loop).                                                          *)
QueueDrains == []<>(Queued = {})

(* A "durable" job (docs/cli-reference.md:11) is worked off: whatever      *)
(* happens to a worker process, its row reaches a terminal status.         *)
DurableJob ==
  \A j \in Job : status[j] = "queued" ~> status[j] \in {"completed", "failed"}

-----------------------------------------------------------------------------
(***************************************************************************)
(* The inductive invariant behind NoLostRequest and ClaimedOnce.           *)
(***************************************************************************)

(* A call joins a row of its own kind and repo that exists.                *)
JoinedOK ==
  \A c \in Clients :
    /\ key[joined[c]] = key[c]
    /\ cpc[c] \in {"ready", "insert"} => joined[c] = c
    /\ cpc[c] \in {"update", "accepted"} => status[joined[c]] # "absent"

(* A worker has a row that exists.  While it runs it the row is not in the *)
(* queue, unless revived, and it has not claimed a row it is about to.     *)
WorkerRow ==
  \A w \in Workers :
    /\ wpc[w] # "idle" => wjob[w] \in Job /\ status[wjob[w]] # "absent"
    /\ wpc[w] = "running" => wjob[w] \notin Queued \/ wjob[w] \in revived
    /\ wpc[w] = "selected" => claims[w][wjob[w]] = 0 \/ wjob[w] \in revived

QueuedUnclaimed ==
  \A w \in Workers, j \in Job \ revived :
    status[j] \in {"absent", "queued"} => claims[w][j] = 0

(* A queued row has the commit of every call that is waiting in it and was *)
(* neither replaced nor overtaken, and so has the copy of a worker that is *)
(* about to claim it.                                                      *)
CommitKept ==
  \A c \in Clients :
    /\ cpc[c] = "accepted" /\ asked[c] # NoSha /\ c \notin superseded
         /\ joined[c] \in Queued /\ joined[c] \notin revived
       => /\ sha[joined[c]] = asked[c]
          /\ c \notin overtaken =>
               \A w \in Claiming(joined[c]) : wsha[w] = asked[c]

JobsInv ==
  TypeOK /\ JoinedOK /\ WorkerRow /\ QueuedUnclaimed /\ CommitKept /\ NoLostRequest
    /\ ClaimedOnce
=============================================================================
