---------------------------- MODULE Guardrails ----------------------------
(***************************************************************************)
(* Architectural guardrails: a branch is edited, committed and approved,   *)
(* the index it is checked against is published again, and `mimir          *)
(* guardrail check` (CLI) or validate_change (servers) decides on a diff:  *)
(* domain/guardrails_config.py, services/guardrail/service.py,             *)
(* services/guardrail/trailers.py, adapters/cli_support/commands/          *)
(* guardrail.py.  A pattern is the set of strings fnmatch accepts.         *)
(***************************************************************************)
EXTENDS DiffAnalyzer, SequencesExt

CONSTANTS RuleFiles,   \* contents of mimir-rules.yaml: sequences of rules
          Changes,     \* file diffs an edit of the branch can make
          ImportedFile,\* [import targets -> path of the file the indexer finds]
          Graphs,      \* graphs an index run can publish
          NoGraph,     \* no index yet
          Wrong,       \* a config value of a type load_rules does not look for
          MaxCycles,   \* _MAX_CYCLES
          Trailers,    \* what commit messages declare: [ids, reason]
          MaxCommits   \* bound: commits on the branch

Severities == {"warning", "error", "block"}
Required == [dependency_ban   |-> {"source_pattern", "target_pattern"},
             cycle_detection  |-> {"scope"},
             metric_threshold |-> {"metric", "threshold"},
             impact_threshold |-> {"max_impact"},
             file_scope_ban   |-> {"path_pattern"}]

ASSUME GuardrailAssumption ==
  /\ NoGraph \notin Graphs /\ \A g \in Graphs : IsGraph(g)
  /\ MaxCycles \in Nat \ {0} /\ MaxCommits \in Nat
  /\ \A fd \in Changes :
       /\ fd.status = "deleted" => fd.old # NoPath
       /\ fd.binary => {} = fd.hunks \cup fd.added \cup fd.removed \cup fd.symbols
       /\ IsFiniteSet(fd.added) /\ IsFiniteSet(fd.symbols)
       /\ \A s \in fd.symbols : IsFiniteSet(s.imports) /\ IsFiniteSet(s.calls)
  /\ \A t \in Trailers : IsFiniteSet(t.ids) /\ t.reason \in BOOLEAN

VARIABLES rules,     \* mimir-rules.yaml
          graph,     \* the active generation's graph, or NoGraph
          worktree,  \* file diffs of tracked files, not staged
          untracked, \* file diffs of new files, not staged
          index,     \* file diffs staged
          branch,    \* file diffs committed since the base
          tip,       \* file diffs of the last of these commits
          commits,   \* messages of these commits: [ids, reason]
          last       \* the last check

git  == <<worktree, untracked, index, branch, tip, commits>>
vars == <<rules, graph, git, last>>

NoCheck == [by |-> "none", diff |-> {}, graph |-> NoGraph, rules |-> <<>>, unparsed |-> {},
            violations |-> {}, at |-> 0, unread |-> FALSE, exit |-> 1]

Init ==
  /\ rules \in RuleFiles
  /\ graph = NoGraph
  /\ worktree = {} /\ untracked = {} /\ index = {} /\ branch = {} /\ tip = {}
  /\ commits = <<>>
  /\ last = NoCheck

-----------------------------------------------------------------------------
(***************************************************************************)
(* Rules.  _parse_rule refuses what breaks these; load_rules refuses the   *)
(* whole file then.                                                        *)
(***************************************************************************)

WellFormed(r) ==
  /\ {"id", "type", "severity", "config"} \subseteq DOMAIN r
  /\ r.type \in DOMAIN Required /\ r.severity \in Severities
  /\ Required[r.type] \subseteq DOMAIN r.config
  /\ r.type = "metric_threshold" =>
       /\ r.config.metric \in {"afferent_coupling", "efferent_coupling", "instability"}
       /\ r.config.threshold \in Int
  /\ r.type = "cycle_detection" => r.config.scope \in {"cross_repo", "intra_repo"}
  /\ r.type = "impact_threshold" => r.config.max_impact \in Nat

LoadsFrom(file) == \A i \in 1 .. Len(file) : WellFormed(file[i])

Option(r, key, default) == IF key \in DOMAIN r.config THEN r.config[key] ELSE default

(* Keys that are not looked at when the file is loaded: a pattern that is  *)
(* no string, kinds that are no list, a max_hops that is no integer.       *)
Mistyped(r, key) == Option(r, key, {}) = Wrong

ASSUME HopsAssumption ==
  \A file \in RuleFiles : \A i \in 1 .. Len(file) :
    WellFormed(file[i]) => Option(file[i], "max_hops", 3) \in Int \cup {Wrong}

(* edge_kind(s), target_kind: names that are no kind are passed over, and  *)
(* an empty set of kinds filters nothing.                                  *)
Passes(kind, kinds) == kinds = {} \/ kind \in kinds
Kinds(r, key, known) == IF Mistyped(r, key) THEN {} ELSE Option(r, key, {}) \cap known

(* The string a pattern is matched with: the node's path, or the endpoint  *)
(* itself when no node has that id.                                        *)
PathIn(g, endpoint) == IF endpoint \in g.nodes THEN PathOf[endpoint] ELSE endpoint

-----------------------------------------------------------------------------
(***************************************************************************)
(* The handlers.  Subjects: what the handler looks at; Fires: whether it   *)
(* then reports a violation.                                               *)
(***************************************************************************)

BanSubjects(g, change, r) ==
  {e \in change.newEdges :
     /\ Passes(e.kind, Kinds(r, "edge_kind", EdgeKinds))
     /\ Option(r, "cross_repo_only", FALSE) => e.kind \in CrossRepoKinds
     /\ NoPath \notin {PathIn(g, e.source), PathIn(g, e.target)}}

BanFires(g, r, e) == /\ PathIn(g, e.source) \in r.config.source_pattern
                     /\ PathIn(g, e.target) \in r.config.target_pattern

InPattern(r, n) ==
  "target_pattern" \in DOMAIN r.config /\ PathOf[n] # NoPath
    => PathOf[n] \in r.config.target_pattern

CouplingKinds == EdgeKinds \ {"contains"}

(* An instability of ce / (ca + ce) above threshold percent.               *)
MetricFires(g, r, n) ==
  LET ca == Cardinality(Incoming(g, n, CouplingKinds))
      ce == Cardinality(Outgoing(g, n, CouplingKinds))
  IN  CASE r.config.metric = "afferent_coupling" -> ca > r.config.threshold
        [] r.config.metric = "efferent_coupling" -> ce > r.config.threshold
        [] OTHER -> IF ca + ce = 0 THEN 0 > r.config.threshold
                     ELSE 100 * ce > r.config.threshold * (ca + ce)

ImpactSubjects(g, change, r) ==
  {n \in change.modified \cap g.nodes :
     /\ Passes(KindOf[n], Kinds(r, "target_kind", NodeKinds))
     /\ InPattern(r, n)}

ImpactFires(g, r, n) == AnalyzeTotal(g, n, Option(r, "max_hops", 3)) > r.config.max_impact

(* Cycle detection: the graph's edges and the change's, of the chosen      *)
(* kinds; the edges the change removes stay in.                            *)
CycleKinds(r) ==
  IF Option(r, "edge_kinds", {}) # {} THEN Kinds(r, "edge_kinds", EdgeKinds)
  ELSE IF r.config.scope = "cross_repo" THEN CrossRepoKinds ELSE {"imports"}

NewPairs(change, r) ==
  {<<e.source, e.target>> : e \in {x \in change.newEdges : x.kind \in CycleKinds(r)}}

CyclePairs(g, change, r) ==
  NewPairs(change, r) \cup {e \in DOMAIN g.edge : g.edge[e] \in CycleKinds(r)}

(* The edge sets of the simple cycles (simple_cycles yields each once).    *)
Around(c) == {<<c[i], c[(i % Len(c)) + 1]>> : i \in 1 .. Len(c)}
Paths(ends) == UNION {{c \in [1 .. k -> ends] : IsInjective(c)} : k \in 1 .. Cardinality(ends)}

SimpleCycles(pairs) ==
  LET ends == {e[1] : e \in pairs} \cap {e[2] : e \in pairs}
  IN  {Around(c) : c \in {p \in Paths(ends) : Around(p) \subseteq pairs}}

(* Mutation of ReportedCycles: the cap counts the cycles without a new     *)
(* edge too.                                                               *)
ReportedCyclesOfAll(cycles, new) ==
  LET order == SetToSeq(cycles)
  IN  {order[i] : i \in {j \in 1 .. Len(order) : j <= MaxCycles /\ order[j] \cap new # {}}}

(* The first MaxCycles cycles with a new edge, in the order of the search. *)
ReportedCycles(cycles, new) ==
  LET order == SetToSeq({c \in cycles : c \cap new # {}})
  IN  {order[i] : i \in {j \in 1 .. Len(order) : j <= MaxCycles}}

CycleSubjects(g, change, r) ==
  IF NewPairs(change, r) = {} THEN {}
  ELSE ReportedCycles(SimpleCycles(CyclePairs(g, change, r)), NewPairs(change, r))

Subjects(g, change, r) ==
  CASE r.type = "dependency_ban"   -> BanSubjects(g, change, r)
    [] r.type = "cycle_detection"  -> CycleSubjects(g, change, r)
    [] r.type = "metric_threshold" -> change.modified \cap g.nodes
    [] r.type = "impact_threshold" -> ImpactSubjects(g, change, r)
    [] r.type = "file_scope_ban"   -> change.files

Fires(g, r, s) ==
  CASE r.type = "dependency_ban"   -> BanFires(g, r, s)
    [] r.type = "cycle_detection"  -> TRUE
    [] r.type = "metric_threshold" -> InPattern(r, s) /\ MetricFires(g, r, s)
    [] r.type = "impact_threshold" -> ImpactFires(g, r, s)
    [] r.type = "file_scope_ban"   -> s \in r.config.path_pattern

(* A handler raises when it comes to use a value of the wrong type: kinds  *)
(* at once (edge_kind is tested first), a pattern with the first string it *)
(* is to be matched with, max_hops with the first node to be analyzed.     *)
BanRaises(g, change, r) ==
  \E e \in BanSubjects(g, change, r) :
    \/ Mistyped(r, "source_pattern")
    \/ Mistyped(r, "target_pattern") /\ PathIn(g, e.source) \in r.config.source_pattern

PatternRaises(r, nodes) ==
  Mistyped(r, "target_pattern") /\ \E n \in nodes : PathOf[n] # NoPath

ImpactRaises(g, change, r) ==
  \/ Mistyped(r, "target_kind")
  \/ PatternRaises(r, {n \in change.modified \cap g.nodes :
                         Passes(KindOf[n], Kinds(r, "target_kind", NodeKinds))})
  \/ Mistyped(r, "max_hops") /\ ImpactSubjects(g, change, r) # {}

Raises(g, change, r) ==
  CASE r.type = "dependency_ban"   -> BanRaises(g, change, r)
    [] r.type = "cycle_detection"  -> Mistyped(r, "edge_kinds")
    [] r.type = "metric_threshold" -> PatternRaises(r, change.modified \cap g.nodes)
    [] r.type = "impact_threshold" -> ImpactRaises(g, change, r)
    [] r.type = "file_scope_ban"   -> Mistyped(r, "path_pattern") /\ change.files # {}

(* Mutation of Finding: the severity is read off the wrong field.          *)
FindingByType(r) == [id |-> r.id, severity |-> r.type]

Finding(r) == [id |-> r.id, severity |-> r.severity]

RuleViolations(g, change, r) ==
  IF ~Raises(g, change, r) /\ \E s \in Subjects(g, change, r) : Fires(g, r, s)
  THEN {Finding(r)} ELSE {}

(* evaluate: a rule that raises reports nothing, the next is evaluated.    *)
RulesViolated(g, change, file) ==
  UNION {RuleViolations(g, change, file[i]) : i \in 1 .. Len(file)}

Passed(violations) == \A v \in violations : v.severity = "warning"

(* Without a reason the trailer approves nothing.                          *)
ApprovedIds(approval) == IF approval.reason THEN approval.ids ELSE {}

(* apply_approvals: BLOCK violations that wait for an approval.            *)
Pending(violations, approval) ==
  {v \in violations : v.severity = "block" /\ v.id \notin ApprovedIds(approval)}

(* Mutation of PassedApproved: what counts is that nothing is pending.     *)
PassedNothingPending(violations, approval) == Pending(violations, approval) = {}

PassedApproved(violations, approval) ==
  /\ \A v \in violations : v.severity # "error"
  /\ Pending(violations, approval) = {}

-----------------------------------------------------------------------------
(***************************************************************************)
(* The branch, and the CLI that reads it.                                  *)
(***************************************************************************)

NoApproval == [ids |-> {}, reason |-> FALSE]

(* Mutation of HeadApproval: every commit of the branch is scanned.        *)
BranchApproval(messages) ==
  [ids |-> UNION {m.ids : m \in ToSet(messages)}, reason |-> \E m \in ToSet(messages) : m.reason]

(* read_head_approval: the trailers of HEAD's message, None without ids.   *)
HeadApproval(messages) ==
  IF messages = <<>> \/ Last(messages).ids = {} THEN NoApproval ELSE Last(messages)

(* run_git: a command that fails, or whose output is no text, printed "".  *)
Commands == {"staged", "unstaged", "base", "branch"}
Output(command, diff, failed) == IF command \in failed THEN {} ELSE diff

(* `git diff main...HEAD`; without a base found, `git diff HEAD~1...HEAD`. *)
BranchDiff(failed) ==
  Output("branch", IF "base" \in failed THEN tip ELSE branch, failed)

(* Mutation of AutoDiff: unstaged changes first.                           *)
AutoDiffUnstagedFirst(failed) ==
  LET staged == Output("staged", index, failed)
      unstaged == Output("unstaged", worktree, failed)
  IN  IF unstaged # {} THEN unstaged ELSE IF staged # {} THEN staged ELSE BranchDiff(failed)

(* git_auto_diff: the first of three diffs that is not empty.  New files   *)
(* are in none of them before they are staged.                             *)
AutoDiff(failed) ==
  LET staged == Output("staged", index, failed)
      unstaged == Output("unstaged", worktree, failed)
  IN  IF staged # {} THEN staged ELSE IF unstaged # {} THEN unstaged ELSE BranchDiff(failed)

(* A developer or an agent changes or deletes a tracked file, ...          *)
Untouched(fd) ==
  \A other \in worktree \cup untracked \cup index \cup branch :
    {other.old, other.new} \cap {fd.old, fd.new} = {}

Edit(fd) ==
  /\ fd.status \in {"modified", "deleted"} /\ Untouched(fd)
  /\ worktree' = worktree \cup {fd}
  /\ UNCHANGED <<rules, graph, untracked, index, branch, tip, commits, last>>

(* ... writes a new one, ...                                               *)
Create(fd) ==
  /\ fd.status = "added" /\ Untouched(fd)
  /\ untracked' = untracked \cup {fd}
  /\ UNCHANGED <<rules, graph, worktree, index, branch, tip, commits, last>>

(* ... renames one (git mv), which stages the change, ...                  *)
Rename(fd) ==
  /\ fd.status = "renamed" /\ Untouched(fd)
  /\ index' = index \cup {fd}
  /\ last' = NoCheck
  /\ UNCHANGED <<rules, graph, worktree, untracked, branch, tip, commits>>

(* ... stages what it did: whoever does asks for another check, ...        *)
Stage(fd) ==
  /\ fd \in worktree \cup untracked
  /\ worktree' = worktree \ {fd} /\ untracked' = untracked \ {fd}
  /\ index' = index \cup {fd}
  /\ last' = NoCheck
  /\ UNCHANGED <<rules, graph, branch, tip, commits>>

CommitIndex(message) ==
  /\ Len(commits) < MaxCommits
  /\ commits' = Append(commits, message)
  /\ branch' = branch \cup index /\ tip' = index /\ index' = {}
  /\ last' = NoCheck
  /\ UNCHANGED <<rules, graph, worktree, untracked>>

(* ... and commits it, with or without trailers in the message.            *)
Commit(message) == index # {} /\ CommitIndex(message)

(* `guardrail approve`: git commit --allow-empty.  The commit is empty if  *)
(* nothing is staged, and takes what is.                                   *)
Approve(message) == message.ids # {} /\ message.reason /\ CommitIndex(message)

(* The indexer publishes another generation.                               *)
Publish == /\ graph' \in Graphs \ {graph}
           /\ last' = NoCheck /\ UNCHANGED <<rules, git>>

(* approved: HEAD's trailers are read, and git does not fail.              *)
Outcome(by, diff, approved, unparsed, unread) ==
  LET violations == RulesViolated(graph, Analyze(graph, diff, unparsed), rules)
      base == [by |-> by, diff |-> diff, graph |-> graph, rules |-> rules,
               unparsed |-> unparsed, at |-> Len(commits), violations |-> {},
               unread |-> unread, exit |-> 1]
  IN  IF ~LoadsFrom(rules) THEN base
      ELSE IF diff = {} /\ by # "server" THEN [base EXCEPT !.exit = 0]
      ELSE IF graph = NoGraph THEN base
      ELSE [base EXCEPT !.violations = violations,
              !.exit = IF IF approved THEN PassedApproved(violations, HeadApproval(commits))
                          ELSE Passed(violations)
                       THEN 0 ELSE 1]

Unparsed(diff) == SUBSET {fd.new : fd \in {f \in diff : StatusOf(f) = "added"}}

(* `guardrail check` of a diff it is given (--diff): the pre-commit hook   *)
(* gives it the staged one, a pipeline the branch's.  With or without      *)
(* --no-approvals.                                                         *)
CheckGiven(by, approved) ==
  LET diff == IF by = "hook" THEN index ELSE branch
  IN  /\ \E unparsed \in Unparsed(diff) :
           last' = Outcome(by, diff, approved, unparsed, FALSE)
      /\ UNCHANGED <<rules, graph, git>>

(* `guardrail check` with the diff that git_auto_diff finds.  HEAD~1 is    *)
(* on the branch when that has a commit.                                   *)
CheckAuto(approved) ==
  LET Failures == {f \in SUBSET Commands : "base" \in f => commits # <<>>}
  IN  /\ \E found \in {[diff |-> AutoDiff(f), unread |-> "staged" \in f] : f \in Failures} :
           \E unparsed \in Unparsed(found.diff) :
             last' = Outcome("auto", found.diff, approved, unparsed, found.unread)
      /\ UNCHANGED <<rules, graph, git>>

(* validate_change and POST /guardrails/check: a client's diff, and HEAD   *)
(* is not read.                                                            *)
Validate ==
  LET diff == worktree \cup index
  IN  /\ \E unparsed \in Unparsed(diff) :
           last' = Outcome("server", diff, FALSE, unparsed, FALSE)
      /\ UNCHANGED <<rules, graph, git>>

Next ==
  \/ \E fd \in Changes : Edit(fd) \/ Create(fd) \/ Rename(fd) \/ Stage(fd)
  \/ \E message \in Trailers : Commit(message) \/ Approve(message)
  \/ Publish
  \/ \E approved \in BOOLEAN :
       CheckAuto(approved) \/ \E by \in {"hook", "branch"} : CheckGiven(by, approved)
  \/ Validate

Spec == Init /\ [][Next]_vars

-----------------------------------------------------------------------------
(***************************************************************************)
(* Properties.                                                             *)
(***************************************************************************)

TypeOK ==
  /\ rules \in RuleFiles /\ graph \in Graphs \cup {NoGraph}
  /\ worktree \subseteq Changes /\ untracked \subseteq Changes /\ index \subseteq Changes
  /\ branch \subseteq Changes /\ tip \subseteq Changes
  /\ commits \in Seq(Trailers) /\ Len(commits) <= MaxCommits
  /\ last.exit \in {0, 1} /\ last.at \in 0 .. Len(commits)
  /\ \A v \in last.violations : v.severity \in Severities

Evaluated == last.by # "none" /\ last.graph # NoGraph /\ LoadsFrom(last.rules)
Changed == Analyze(last.graph, last.diff, last.unparsed)

(* What exits 0 broke no rule, or a BLOCK rule that HEAD's own message     *)
(* names with a reason: an approval lapses with the next commit, and none  *)
(* clears an ERROR, not even of a rule whose id a BLOCK rule shares        *)
(* (apply_approvals, read_head_approval; load_rules accepts an id twice).  *)
ApprovalLapses ==
  last.exit = 0 =>
    \A v \in last.violations :
      \/ v.severity = "warning"
      \/ /\ v.severity = "block" /\ last.at > 0
         /\ v.id \in commits[last.at].ids /\ commits[last.at].reason

Onward(pairs, near) == near \cup {e[2] : e \in {x \in pairs : x[1] \in near}}

ReachedBy(pairs, from, hops) ==
  LET within[k \in 0 .. hops] == IF k = 0 THEN {from} ELSE Onward(pairs, within[k - 1])
  IN  within[hops]

Reaches(pairs, from, to) ==
  to \in ReachedBy(pairs, from, Cardinality(UNION {{e[1], e[2]} : e \in pairs}))

(* The cap on reported cycles does not decide: a cycle rule reports        *)
(* something exactly when an edge of the change closes a cycle.            *)
CyclesDecided ==
  Evaluated =>
    \A i \in 1 .. Len(last.rules) : last.rules[i].type = "cycle_detection" =>
      LET r == last.rules[i]
          pairs == CyclePairs(last.graph, Changed, r)
      IN  (CycleSubjects(last.graph, Changed, r) # {})
            <=> (\E e \in NewPairs(Changed, r) : Reaches(pairs, e[2], e[1]))

(* The keys that an impact rule reads are of the types it takes them for.  *)
WellTyped(r) == \A key \in {"target_kind", "target_pattern", "max_hops"} : ~Mistyped(r, key)

(* A check that passes deleted no node that more nodes depend on than an   *)
(* ERROR impact rule allows: a file without a new side is looked up by its *)
(* old path, and whatever another rule of the file raises hides only that  *)
(* rule.  Not so for a file that git shows as binary, nor for a rule with  *)
(* a mistyped value of its own (evaluate: "fail-open").                    *)
DeletionsMeasured ==
  Evaluated /\ last.exit = 0 =>
    \A i \in 1 .. Len(last.rules), fd \in last.diff :
      LET r == last.rules[i]
      IN  r.type = "impact_threshold" /\ r.severity = "error" /\ WellTyped(r)
          /\ fd.status = "deleted" /\ ~fd.binary =>
            \A n \in {m \in last.graph.nodes : PathOf[m] = fd.old} :
              Passes(KindOf[n], Kinds(r, "target_kind", NodeKinds)) /\ InPattern(r, n)
                => ImpactOf(last.graph, n, Option(r, "max_hops", 3)) <= r.config.max_impact

(* The breadth-first count is the number of nodes within max_hops, each    *)
(* counted once, cycles and recursion included (ImpactService.analyze).    *)
ImpactExact ==
  graph # NoGraph =>
    \A n \in graph.nodes, hops \in 1 .. 3 :
      AnalyzeTotal(graph, n, hops) = ImpactOf(graph, n, hops)

(* A commit of staged changes takes exactly what the check before it       *)
(* looked at, whatever lies in the working tree or is edited in between,   *)
(* and also if `guardrail approve` makes the commit.  Whoever stages more  *)
(* has to check again; and git_auto_diff must have been able to read what  *)
(* is staged: when git fails, or prints what is no text, it takes the next *)
(* diff for the staged one and checks another change than is committed.    *)
CommitsWhatWasChecked ==
  [][last.by \in {"auto", "hook"} /\ ~last.unread /\ index # {} /\ commits' # commits
       => tip' = last.diff]_vars

(* What makes these inductive: a check of what is to be committed looked   *)
(* at what is staged as it still is ...                                    *)
LastCurrent ==
  last.by \in {"auto", "hook"} /\ ~last.unread /\ index # {} => last.diff = index

(* ... and found what its rules say of its graph and its diff.             *)
LastEvaluated ==
  last.by # "none" =>
    /\ last.graph \in Graphs \cup {NoGraph} /\ last.rules \in RuleFiles
    /\ last.diff \subseteq Changes
    /\ Evaluated /\ last.diff # {} =>
         last.violations = RulesViolated(last.graph, Changed, last.rules)

DiffsFinite == /\ IsFiniteSet(worktree \cup untracked \cup index \cup branch \cup tip)
               /\ IsFiniteSet(last.diff)

GuardrailsInv == TypeOK /\ ApprovalLapses /\ LastCurrent /\ LastEvaluated /\ DiffsFinite

(* docs/guardrails.md on dependency_ban: "Forbidden imports between layers *)
(* (e.g., domain -> infra)".  A change that passes adds no import of a     *)
(* file of the target layer to a file of the source layer.                 *)
ForbiddenImportsFound ==
  Evaluated /\ last.exit = 0 =>
    \A i \in 1 .. Len(last.rules), fd \in last.diff :
      LET r == last.rules[i]
      IN  r.type = "dependency_ban" /\ r.severity = "error" /\ fd.status = "modified"
          /\ ~Mistyped(r, "source_pattern") /\ ~Mistyped(r, "target_pattern")
          /\ fd.new \in r.config.source_pattern
          => \A t \in fd.added \cap DOMAIN ImportedFile :
               ImportedFile[t] \notin r.config.target_pattern
=============================================================================
