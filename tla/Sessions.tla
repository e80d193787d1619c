------------------------------ MODULE Sessions ------------------------------
(***************************************************************************)
(* Conversation sessions: the table sessions (sqlite_session.py) and what  *)
(* apply_session_context does with it after a search (session_context.py,  *)
(* services/session.py, domain/session.py).                                *)
(*                                                                         *)
(* A request loads its session's row, drops or strips what the client      *)
(* should still know, records what is left, saves the whole row and then   *)
(* sends its answer.  In one server process nothing comes between these    *)
(* steps; the stdio and HTTP servers of one workspace share the file, so   *)
(* processes interleave at every transaction.  Times are turns; an         *)
(* embedding is its topic.                                                 *)
(***************************************************************************)
EXTENDS Feedback, Functions, SequencesExt

CONSTANTS SessionIds,   \* session_id values
          Topics,       \* classes of query embeddings
          Similarity,   \* [Topics \X Topics -> 0 .. 10]: cosine in tenths
          NoTopic,      \* query_embedding = None
          NoSession,    \* no row
          Oversized,    \* nodes whose code alone exceeds the token budget
          Summarised,   \* nodes with a summary
          HalfLife,     \* max(context_decay_turns, 1)
          MaxContext,   \* prune's max_context_entries
          MaxHistory,   \* prune's max_query_history
          MaxRequests,  \* bound: requests, record_feedback calls included
          MaxCrashes    \* bound: process deaths and answers lost

ASSUME SessionsAssumption ==
  /\ NoTopic \notin Topics
  /\ Oversized \subseteq Nodes /\ Summarised \subseteq Nodes
  /\ Similarity \in [Topics \X Topics -> 0 .. 10]
  /\ HalfLife \in Nat \ {0} /\ MaxContext \in Nat \ {0} /\ MaxHistory \in Nat \ {0}
  /\ MaxRequests \in Nat /\ MaxCrashes \in Nat

Topic == Topics \cup {NoTopic}
QueryRecord == [turn : Nat, nodes : SUBSET Nodes, topic : Topic]
(* at[n] = 0: no ContextEntry for n; else its turn_number, and about[n] is *)
(* its query_embedding_at_addition.                                        *)
Session == [history : Seq(QueryRecord), at : [Nodes -> Nat], about : [Nodes -> Topic]]

ASSUME NoSessionAssumption == NoSession \notin Session

VARIABLES
  store,       \* [SessionIds -> Session or NoSession]: the table
  pc,          \* [Procs -> step of the request]
  sid,         \* [Procs -> session_id of the request]
  found,       \* [Procs -> nodes of the bundle that search returned]
  topic,       \* [Procs -> its query_embedding]
  copy,        \* [Procs -> Session]: the process's copy of the row
  full,        \* [Procs -> nodes of the answer that carry their code]
  brief,       \* [Procs -> nodes of the answer that were stripped of it]
  requests,    \* requests begun
  crashes,     \* processes that died, answers that were lost
  handed,      \* history: [SessionIds -> nodes that answers sent contained]
  lost,        \* history: [SessionIds -> nodes of answers saved and not sent]
  lastTurn,    \* history: [SessionIds -> [Nodes -> turn of the last such answer]]
  answers,     \* history: [SessionIds -> answers saved since the row exists]
  overlapped   \* history: sessions two requests of which overlapped

local   == <<sid, found, topic, copy, full, brief>>
bounds  == <<requests, crashes>>
history == <<handed, lost, lastTurn, answers, overlapped>>
vars    == <<store, pc, local, bounds, history, feedback>>

NewSession == [history |-> <<>>, at |-> [n \in Nodes |-> 0],
               about |-> [n \in Nodes |-> NoTopic]]

Init ==
  /\ store = [s \in SessionIds |-> NoSession]
  /\ pc = [p \in Procs |-> "idle"]
  /\ sid \in [Procs -> SessionIds]
  /\ found = [p \in Procs |-> {}] /\ topic = [p \in Procs |-> NoTopic]
  /\ copy = [p \in Procs |-> NewSession]
  /\ full = [p \in Procs |-> {}] /\ brief = [p \in Procs |-> {}]
  /\ requests = 0 /\ crashes = 0
  /\ handed = [s \in SessionIds |-> {}] /\ lost = [s \in SessionIds |-> {}]
  /\ lastTurn = [s \in SessionIds |-> [n \in Nodes |-> 0]]
  /\ answers = [s \in SessionIds |-> 0]
  /\ overlapped = {}
  /\ FeedbackInit

-----------------------------------------------------------------------------
(***************************************************************************)
(* The session as a value.                                                 *)
(***************************************************************************)

CurrentTurn(session) ==
  IF session.history = <<>> THEN 0 ELSE Last(session.history).turn

Power(b, k) ==
  LET power[i \in 0 .. k] == IF i = 0 THEN 1 ELSE b * power[i - 1]
  IN  power[k]

(* exp(-ln 2 * turns / HalfLife) + 0.2 * similarity > percent / 100, in    *)
(* integers: both sides are raised to the power HalfLife.                  *)
WeightExceeds(percent, turns, similarity) ==
  Power(100, HalfLife) > Power(percent - 2 * similarity, HalfLife) * Power(2, turns)

TopicSimilarity(t, u) == IF NoTopic \in {t, u} THEN 0 ELSE Similarity[t, u]

(* The nodes of the bundle whose decay weight is above the threshold.      *)
Remembered(percent, nodes, session, t) ==
  {n \in nodes : /\ session.at[n] # 0
                 /\ WeightExceeds(percent, CurrentTurn(session) - session.at[n],
                                  TopicSimilarity(t, session.about[n]))}

(* session_dedup: the model still knows the node (> 0.8) ...               *)
Omitted(nodes, session, t) == Remembered(80, nodes, session, t)
(* ... or it is fading (> 0.3).                                            *)
Fading(nodes, session, t) == Remembered(30, nodes, session, t) \ Omitted(nodes, session, t)

(* Mutation of RecordQuery: the turn is counted off the retained history.  *)
RecordQueryByLength(session, nodes, t) ==
  LET turn == Len(session.history) + 1
  IN  [history |-> Append(session.history, [turn |-> turn, nodes |-> nodes, topic |-> t]),
       at |-> [n \in Nodes |-> IF n \in nodes THEN turn ELSE session.at[n]],
       about |-> [n \in Nodes |-> IF n \in nodes THEN t ELSE session.about[n]]]

(* Mutation of RecordQuery: an entry that exists is not stamped again.     *)
RecordQueryOnce(session, nodes, t) ==
  LET turn == CurrentTurn(session) + 1
      new == {n \in nodes : session.at[n] = 0}
  IN  [history |-> Append(session.history, [turn |-> turn, nodes |-> nodes, topic |-> t]),
       at |-> [n \in Nodes |-> IF n \in new THEN turn ELSE session.at[n]],
       about |-> [n \in Nodes |-> IF n \in new THEN t ELSE session.about[n]]]

(* Session.record_query.                                                   *)
RecordQuery(session, nodes, t) ==
  LET turn == CurrentTurn(session) + 1
  IN  [history |-> Append(session.history, [turn |-> turn, nodes |-> nodes, topic |-> t]),
       at |-> [n \in Nodes |-> IF n \in nodes THEN turn ELSE session.at[n]],
       about |-> [n \in Nodes |-> IF n \in nodes THEN t ELSE session.about[n]]]

Entries(session) == {n \in Nodes : session.at[n] # 0}

(* Mutation of NewestEntries: the entries are sorted the other way round.  *)
OldestEntries(session) ==
  {keep \in SUBSET Entries(session) :
     /\ IF Cardinality(Entries(session)) > MaxContext
        THEN Cardinality(keep) = MaxContext
        ELSE keep = Entries(session)
     /\ \A k \in keep, d \in Entries(session) \ keep : session.at[d] >= session.at[k]}

(* The newest max_context_entries entries; which of equally old ones stay  *)
(* depends on the dict's order.                                            *)
NewestEntries(session) ==
  {keep \in SUBSET Entries(session) :
     /\ IF Cardinality(Entries(session)) > MaxContext
        THEN Cardinality(keep) = MaxContext
        ELSE keep = Entries(session)
     /\ \A k \in keep, d \in Entries(session) \ keep : session.at[d] <= session.at[k]}

(* Session.prune.                                                          *)
Prune(session, keep) ==
  [history |-> LET h == session.history
               IN  SubSeq(h, Len(h) - Min({Len(h), MaxHistory}) + 1, Len(h)),
   at |-> [n \in Nodes |-> IF n \in keep THEN session.at[n] ELSE 0],
   about |-> [n \in Nodes |-> IF n \in keep THEN session.about[n] ELSE NoTopic]]

(* to_dict and from_dict: a QueryRecord loses its query_embedding.         *)
Persisted(session) ==
  [session EXCEPT !.history = [i \in DOMAIN @ |-> [@[i] EXCEPT !.topic = NoTopic]]]

-----------------------------------------------------------------------------
(***************************************************************************)
(* One request.                                                            *)
(***************************************************************************)

Busy(s) == {p \in Procs : pc[p] \in {"create", "apply", "save"} /\ sid[p] = s}

(* What search can return: a bundle that fits the budget, or the single    *)
(* first seed, which is kept whatever it costs.                            *)
Bundles == (SUBSET (Nodes \ Oversized)) \cup {{n} : n \in Oversized}

(* Mutation of Load: a session without a row is not noticed.              *)
LoadUnchecked(p, s, nodes, t) ==
  /\ pc[p] = "idle" /\ requests < MaxRequests
  /\ nodes # {} => t # NoTopic
  /\ sid' = [sid EXCEPT ![p] = s]
  /\ found' = [found EXCEPT ![p] = nodes] /\ topic' = [topic EXCEPT ![p] = t]
  /\ copy' = [copy EXCEPT ![p] = store[s]]
  /\ pc' = [pc EXCEPT ![p] = "apply"]
  /\ requests' = requests + 1
  /\ overlapped' = IF Busy(s) = {} THEN overlapped ELSE overlapped \cup {s}
  /\ UNCHANGED <<store, full, brief, crashes, handed, lost, lastTurn, answers, feedback>>

(* get_or_create: the SELECT.                                              *)
Load(p, s, nodes, t) ==
  /\ pc[p] = "idle" /\ requests < MaxRequests
  /\ nodes # {} => t # NoTopic
  /\ sid' = [sid EXCEPT ![p] = s]
  /\ found' = [found EXCEPT ![p] = nodes] /\ topic' = [topic EXCEPT ![p] = t]
  /\ IF store[s] = NoSession
     THEN /\ copy' = [copy EXCEPT ![p] = NewSession]
          /\ pc' = [pc EXCEPT ![p] = "create"]
     ELSE /\ copy' = [copy EXCEPT ![p] = store[s]]
          /\ pc' = [pc EXCEPT ![p] = "apply"]
  /\ requests' = requests + 1
  /\ overlapped' = IF Busy(s) = {} THEN overlapped ELSE overlapped \cup {s}
  /\ UNCHANGED <<store, full, brief, crashes, handed, lost, lastTurn, answers, feedback>>

(* get_or_create: the new session is saved before it is used.              *)
Create(p) ==
  /\ pc[p] = "create"
  /\ store' = [store EXCEPT ![sid[p]] = NewSession]
  /\ pc' = [pc EXCEPT ![p] = "apply"]
  /\ UNCHANGED <<local, bounds, history, feedback>>

(* record_implicit: the last query judges the answer to the one before.    *)
ImplicitOutcomes(session) ==
  LET h == session.history
      prev == h[Len(h) - 1]
  IN  IF Len(h) < 2 THEN {}
      ELSE IF prev.nodes = {} \/ NoTopic \in {prev.topic, Last(h).topic} THEN {}
      ELSE LET similarity == Similarity[prev.topic, Last(h).topic]
           IN  IF similarity > 7 THEN {"negative"}
               ELSE IF similarity < 3 THEN {"positive"} ELSE {}

(* If it raises, that is logged and the request goes on.                   *)
RecordImplicit(p, session) ==
  IF ImplicitOutcomes(session) = {} THEN UNCHANGED feedback
  ELSE \E outcome \in ImplicitOutcomes(session) :
         LET list == SetToSeq(session.history[Len(session.history) - 1].nodes)
         IN  \/ AddSignal(p, list, outcome, "implicit")
             \/ AddSignalFails(p, list, outcome, "implicit")

(* Mutation of Apply: everything found is recorded, not what is answered.  *)
ApplyFound(p) ==
  LET fading == Fading(found[p], copy[p], topic[p])
      fresh == (found[p] \ Omitted(found[p], copy[p], topic[p])) \ fading
      recorded == RecordQuery(copy[p], found[p], topic[p])
  IN  /\ pc[p] = "apply"
      /\ full' = [full EXCEPT ![p] = fresh \ Oversized]
      /\ brief' = [brief EXCEPT ![p] = fading \cup (fresh \cap Oversized \cap Summarised)]
      /\ RecordImplicit(p, recorded)
      /\ \E keep \in NewestEntries(recorded) : copy' = [copy EXCEPT ![p] = Prune(recorded, keep)]
      /\ pc' = [pc EXCEPT ![p] = "save"]
      /\ UNCHANGED <<store, sid, found, topic, bounds, history>>

(* session_dedup, then fit_subgraph_to_budget with no seed protected: a    *)
(* node too large for the budget keeps its summary or goes altogether.     *)
(* Then record_retrieval up to its save.                                   *)
Apply(p) ==
  LET fading == Fading(found[p], copy[p], topic[p])
      fresh == (found[p] \ Omitted(found[p], copy[p], topic[p])) \ fading
      code == fresh \ Oversized
      summaries == fading \cup (fresh \cap Oversized \cap Summarised)
      recorded == RecordQuery(copy[p], code \cup summaries, topic[p])
  IN  /\ pc[p] = "apply"
      /\ full' = [full EXCEPT ![p] = code]
      /\ brief' = [brief EXCEPT ![p] = summaries]
      /\ RecordImplicit(p, recorded)
      /\ \E keep \in NewestEntries(recorded) : copy' = [copy EXCEPT ![p] = Prune(recorded, keep)]
      /\ pc' = [pc EXCEPT ![p] = "save"]
      /\ UNCHANGED <<store, sid, found, topic, bounds, history>>

(* What a process holds outlives its request by nothing.                   *)
Forget(p) ==
  /\ found' = [found EXCEPT ![p] = {}] /\ topic' = [topic EXCEPT ![p] = NoTopic]
  /\ copy' = [copy EXCEPT ![p] = NewSession]
  /\ full' = [full EXCEPT ![p] = {}] /\ brief' = [brief EXCEPT ![p] = {}]

Answer(p) == full[p] \cup brief[p]

(* save: the whole row is replaced, before the answer goes out.            *)
Save(p) ==
  LET s == sid[p]
      turn == CurrentTurn(copy[p])
  IN  /\ pc[p] = "save"
      /\ store' = [store EXCEPT ![s] = Persisted(copy[p])]
      /\ pc' = [pc EXCEPT ![p] = "send"]
      /\ lastTurn' = [lastTurn EXCEPT ![s] =
                        [n \in Nodes |-> IF n \in Answer(p) THEN turn ELSE @[n]]]
      /\ answers' = [answers EXCEPT ![s] = @ + 1]
      /\ found' = [found EXCEPT ![p] = {}] /\ topic' = [topic EXCEPT ![p] = NoTopic]
      /\ copy' = [copy EXCEPT ![p] = NewSession]
      /\ UNCHANGED <<sid, full, brief, bounds, handed, lost, overlapped, feedback>>

(* The bundle is formatted and written to the client.                      *)
Send(p) ==
  /\ pc[p] = "send"
  /\ pc' = [pc EXCEPT ![p] = "idle"]
  /\ handed' = [handed EXCEPT ![sid[p]] = @ \cup Answer(p)]
  /\ Forget(p)
  /\ UNCHANGED <<store, sid, bounds, lost, lastTurn, answers, overlapped, feedback>>

-----------------------------------------------------------------------------
(***************************************************************************)
(* Processes.                                                              *)
(***************************************************************************)

LosesAnswer(p) ==
  /\ crashes < MaxCrashes
  /\ crashes' = crashes + 1
  /\ lost' = IF pc[p] = "send" THEN [lost EXCEPT ![sid[p]] = @ \cup Answer(p)] ELSE lost
  /\ Forget(p)
  /\ UNCHANGED <<store, sid, requests, handed, lastTurn, answers, overlapped>>

(* The client is gone, or formatting the bundle raises: the row stays.     *)
SendFails(p) ==
  /\ pc[p] = "send"
  /\ pc' = [pc EXCEPT ![p] = "idle"]
  /\ LosesAnswer(p)
  /\ UNCHANGED feedback

(* The INSERT of a save raises, the other process having a transaction     *)
(* open: the request ends with an error and nothing is sent.               *)
SaveFails(p) ==
  /\ pc[p] \in {"create", "save"}
  /\ pc' = [pc EXCEPT ![p] = "idle"]
  /\ LosesAnswer(p)
  /\ UNCHANGED feedback

(* The process dies.                                                       *)
Crash(p) ==
  /\ pc[p] # "down"
  /\ pc' = [pc EXCEPT ![p] = "down"]
  /\ LosesAnswer(p)
  /\ CloseFeedback(p)

(* The stores of a starting process purge what has expired: sessions that  *)
(* nobody saved for 7 days, signals older than 90.                         *)
Start(p) ==
  /\ pc[p] = "down"
  /\ pc' = [pc EXCEPT ![p] = "idle"]
  /\ \E old \in SUBSET {s \in SessionIds : store[s] # NoSession} :
       /\ store' = [s \in SessionIds |-> IF s \in old THEN NoSession ELSE store[s]]
       /\ lastTurn' = [s \in SessionIds |->
                         IF s \in old THEN [n \in Nodes |-> 0] ELSE lastTurn[s]]
       /\ answers' = [s \in SessionIds |-> IF s \in old THEN 0 ELSE answers[s]]
       /\ overlapped' = overlapped \cup {s \in old : Busy(s) # {}}
  /\ PurgeSignals(p)
  /\ UNCHANGED <<local, bounds, handed, lost>>

Request(p) ==
  \/ \E s \in SessionIds, nodes \in Bundles, t \in Topic : Load(p, s, nodes, t)
  \/ Create(p) \/ Apply(p) \/ Save(p) \/ SaveFails(p) \/ Send(p) \/ SendFails(p)

(* record_feedback: a client judges nodes it was given.                    *)
Judge(p) ==
  /\ pc[p] = "idle" /\ requests < MaxRequests
  /\ requests' = requests + 1
  /\ \E list \in FeedbackLists, outcome \in Outcomes :
       /\ \A i \in DOMAIN list : \E s \in SessionIds : list[i] \in handed[s]
       /\ RecordExplicit(p, list, outcome)
  /\ UNCHANGED <<store, pc, local, crashes, history>>

Next == \E p \in Procs : Request(p) \/ Crash(p) \/ Start(p) \/ Judge(p)

Spec == Init /\ [][Next]_vars

-----------------------------------------------------------------------------
(***************************************************************************)
(* Properties.                                                             *)
(***************************************************************************)

TypeOK ==
  /\ store \in [SessionIds -> Session \cup {NoSession}]
  /\ pc \in [Procs -> {"idle", "create", "apply", "save", "send", "down"}]
  /\ sid \in [Procs -> SessionIds]
  /\ found \in [Procs -> SUBSET Nodes] /\ topic \in [Procs -> Topic]
  /\ copy \in [Procs -> Session]
  /\ full \in [Procs -> SUBSET Nodes] /\ brief \in [Procs -> SUBSET Nodes]
  /\ requests \in 0 .. MaxRequests /\ crashes \in 0 .. MaxCrashes
  /\ handed \in [SessionIds -> SUBSET Nodes] /\ lost \in [SessionIds -> SUBSET Nodes]
  /\ lastTurn \in [SessionIds -> [Nodes -> Nat]]
  /\ answers \in [SessionIds -> Nat]
  /\ overlapped \subseteq SessionIds
  /\ FeedbackTypeOK

(* The nodes of a session's answers that are saved and not sent yet.       *)
Unsent(s) ==
  UNION {Answer(q) : q \in {q \in Procs : pc[q] = "send" /\ sid[q] = s}}

(* "Previously seen chunks omitted" (session_context.py:39): a node that   *)
(* an answer leaves out as already in context, or strips because it is     *)
(* fading, was part of an earlier answer of the same session, whatever     *)
(* processes overlap or die and whatever is purged.  The row is saved      *)
(* first, so that answer may still be on its way, or lost: by a process    *)
(* that died or a send that failed after the save, and by nothing else.    *)
OmittedWasSent ==
  \A p \in Procs :
    pc[p] = "apply" =>
      Remembered(30, found[p], copy[p], topic[p])
        \subseteq handed[sid[p]] \cup lost[sid[p]] \cup Unsent(sid[p])

(* The context window of a row says of every node the last turn of the     *)
(* history that delivered it, and entries that are missing were dropped as *)
(* the oldest of a full window (record_query, prune).                      *)
WindowFollowsHistory(session) ==
  LET h == session.history
  IN  /\ \A i \in 1 .. Len(h) - 1 : h[i + 1].turn = h[i].turn + 1
      /\ \A n \in Nodes : session.at[n] <= CurrentTurn(session)
      /\ \A i \in DOMAIN h : \A n \in Nodes :
           /\ session.at[n] = h[i].turn => n \in h[i].nodes
           /\ n \in h[i].nodes =>
                \/ session.at[n] >= h[i].turn
                \/ /\ session.at[n] = 0
                   /\ Cardinality(Entries(session)) >= MaxContext
                   /\ \A m \in Entries(session) : session.at[m] >= h[i].turn

RowsConsistent ==
  \A s \in SessionIds :
    store[s] # NoSession =>
      /\ WindowFollowsHistory(store[s])
      /\ Cardinality(Entries(store[s])) <= MaxContext
      /\ Len(store[s].history) <= MaxHistory

(* The requests of a session that follow one another are counted without a *)
(* gap, through restarts and after prune has begun to drop old records.    *)
TurnCountsAnswers ==
  \A s \in SessionIds \ overlapped :
    store[s] # NoSession => CurrentTurn(store[s]) = answers[s]

(* Code that was sent is not sent again while the model remembers it: the  *)
(* node's decay weight has fallen to 0.3, or max_context_entries other     *)
(* nodes were sent since.                                                  *)
NoEarlyResend ==
  \A p \in Procs :
    LET s == sid[p]
        t == lastTurn[s]
    IN  pc[p] = "save" /\ s \notin overlapped =>
          \A n \in full[p] :
            \/ t[n] = 0
            \/ ~WeightExceeds(30, answers[s] - t[n], 0)
            \/ Cardinality({m \in Nodes \ {n} : t[m] >= t[n]}) >= MaxContext

(***************************************************************************)
(* What makes these inductive.                                             *)
(***************************************************************************)

(* A row, or a process's copy of one: its turns count up to the current    *)
(* one, and prune has left it within its bounds.                           *)
TurnsInOrder(session) ==
  LET h == session.history
  IN  \A i \in DOMAIN h : h[i].turn = CurrentTurn(session) - Len(h) + i /\ h[i].turn > 0

SessionOK(session) ==
  /\ WindowFollowsHistory(session) /\ TurnsInOrder(session)
  /\ Cardinality(Entries(session)) <= MaxContext
  /\ Len(session.history) <= MaxHistory

SessionsOK ==
  /\ \A s \in SessionIds : store[s] # NoSession => SessionOK(store[s])
  /\ \A p \in Procs : SessionOK(copy[p])

(* Entries are nodes of answers: sent, lost, or about to be sent.          *)
Answered(s) == handed[s] \cup lost[s] \cup Unsent(s)

EntriesWereSent ==
  /\ \A s \in SessionIds : store[s] # NoSession => Entries(store[s]) \subseteq Answered(s)
  /\ \A p \in Procs :
       /\ pc[p] \in {"create", "apply"} => Entries(copy[p]) \subseteq Answered(sid[p])
       /\ pc[p] = "save" => Entries(copy[p]) \subseteq Answered(sid[p]) \cup Answer(p)

(* Unless requests of it overlap, a session is in one request's hands.     *)
TurnsCounted ==
  \A s \in SessionIds \ overlapped :
    /\ answers[s] = IF store[s] = NoSession THEN 0 ELSE CurrentTurn(store[s])
    /\ \A p \in Busy(s) :
         /\ Busy(s) = {p}
         /\ pc[p] = "create" <=> store[s] = NoSession
         /\ CurrentTurn(copy[p]) = IF pc[p] = "save" THEN answers[s] + 1 ELSE answers[s]

SessionsInv == TypeOK /\ SessionsOK /\ EntriesWereSent /\ TurnsCounted

(* What lastTurn will be when p has saved the row.                         *)
Delivered(p) ==
  [n \in Nodes |-> IF n \in Answer(p) THEN CurrentTurn(copy[p])
                   ELSE lastTurn[sid[p]][n]]

(* An entry is stamped with the last turn that sent its node; a node       *)
(* without an entry was never sent, or the window is full of later ones.   *)
KnowsWhatWasSent(session, turns) ==
  \A n \in Nodes :
    \/ session.at[n] = turns[n]
    \/ /\ session.at[n] = 0
       /\ Cardinality(Entries(session)) >= MaxContext
       /\ \A m \in Entries(session) : session.at[m] >= turns[n]

WindowsCurrent ==
  \A s \in SessionIds \ overlapped :
    /\ IF store[s] = NoSession THEN lastTurn[s] = [n \in Nodes |-> 0]
       ELSE KnowsWhatWasSent(store[s], lastTurn[s])
    /\ \A p \in Busy(s) :
         KnowsWhatWasSent(copy[p], IF pc[p] = "save" THEN Delivered(p) ELSE lastTurn[s])

ResendInv == WindowsCurrent /\ NoEarlyResend
=============================================================================
