--------------------------- MODULE DiffAnalyzer ---------------------------
(***************************************************************************)
(* From a unified diff to a ChangeSet (services/guardrail/diff_analyzer.py)*)
(* A diff is a set of file diffs: status, old and new path, whether git    *)
(* shows it as binary, the line ranges of its hunks in the new file, the   *)
(* import targets its added and removed lines name and, of an added file,  *)
(* the symbols the parser finds.                                           *)
(***************************************************************************)
EXTENDS Impact

CONSTANTS SuffixPairs,   \* pairs of paths, the first a suffix of the second
          LinesOf,    \* [Ids -> <<start_line, end_line>>, or <<>> for None]
          NewSymbol   \* [paths \X symbol names -> node id of an added symbol]

Edge(s, t, kind) == [source |-> s, target |-> t, kind |-> kind]

NoChange == [modified |-> {}, newEdges |-> {}, removedEdges |-> {}, files |-> {}]

(* Paths match from the end: files of two repositories may both match.     *)
FindNodesInFile(g, path) ==
  {n \in g.nodes : /\ PathOf[n] # NoPath
                   /\ \/ PathOf[n] = path
                      \/ <<path, PathOf[n]>> \in SuffixPairs
                      \/ <<PathOf[n], path>> \in SuffixPairs}

(* A hunk <<start, end>> ends before line end, and a node that starts at   *)
(* end still counts.                                                       *)
MapLinesToNodes(g, path, hunks) ==
  {n \in FindNodesInFile(g, path) :
     /\ LinesOf[n] # <<>>
     /\ \E h \in hunks : LinesOf[n][1] <= h[2] /\ LinesOf[n][2] >= h[1]}

(* The node import edges start at: the first FILE node that matches the    *)
(* path, else the first node (first: in an order that is some fixed one).  *)
SourceOfImports(g, path) ==
  LET matching == FindNodesInFile(g, path)
      fileNodes == {n \in matching : KindOf[n] = "file"}
  IN  IF fileNodes # {} THEN CHOOSE n \in fileNodes : TRUE
      ELSE CHOOSE n \in matching : TRUE

(* _detect_edge_changes: the target of an edge is the text of the import.  *)
DetectEdgeChanges(g, path, targets) ==
  IF FindNodesInFile(g, path) = {} THEN {}
  ELSE {Edge(SourceOfImports(g, path), t, "imports") : t \in targets}

SymbolEdges(fd, s) ==
  LET source == NewSymbol[fd.new, s.name]
  IN  {Edge(source, t, "imports") : t \in s.imports} \cup {Edge(source, t, "calls") : t \in s.calls}

ExtractNewSymbols(fd) == UNION {SymbolEdges(fd, s) : s \in fd.symbols}

(* A line "Binary files ... differ" comes after the header's other lines   *)
(* and makes the file a modified one, a deleted file too.                  *)
StatusOf(fd) == IF fd.binary THEN "modified" ELSE fd.status

(* Mutation of DeletedFile: the nodes of the file are not looked up.       *)
DeletedFileReported(g, fd) == [NoChange EXCEPT !.files = {fd.old}]

DeletedFile(g, fd) ==
  [NoChange EXCEPT !.modified = FindNodesInFile(g, fd.old), !.files = {fd.old}]

(* One file.  A renamed file is looked up, and reported, under its new     *)
(* path.  unparsed: the files whose parse raised.                          *)
AnalyzeFile(g, fd, unparsed) ==
  CASE StatusOf(fd) = "deleted" -> DeletedFile(g, fd)
    [] StatusOf(fd) = "added" ->
         [NoChange EXCEPT !.newEdges = IF fd.new \in unparsed THEN {} ELSE ExtractNewSymbols(fd),
                          !.files = {fd.new}]
    [] OTHER ->
         [modified |-> MapLinesToNodes(g, fd.new, fd.hunks),
          newEdges |-> DetectEdgeChanges(g, fd.new, fd.added),
          removedEdges |-> DetectEdgeChanges(g, fd.new, fd.removed),
          files |-> {fd.new}]

Analyze(g, diff, unparsed) ==
  LET parts == {AnalyzeFile(g, fd, unparsed) : fd \in diff}
  IN  [modified |-> UNION {p.modified : p \in parts},
       newEdges |-> UNION {p.newEdges : p \in parts},
       removedEdges |-> UNION {p.removedEdges : p \in parts},
       files |-> UNION {p.files : p \in parts}]
=============================================================================
