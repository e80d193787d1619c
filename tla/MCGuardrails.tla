--------------------------- MODULE MCGuardrails ---------------------------
(* An instance of Guardrails for TLC: files a and b of a repository and a  *)
(* file a of a second one with the same path; mod_b is the text of an      *)
(* import that the indexer resolves to b, "r:a" an import that names a     *)
(* node id.  b's function calls a's, itself, or nothing.                   *)
EXTENDS Guardrails

CONSTANT Wrongly

NodeIds == {"r:a", "r:b", "r:a::f", "r:b::g", "q:a"}
Kind == [n \in NodeIds |-> IF n \in {"r:a", "r:b", "q:a"} THEN "file" ELSE "function"]
PathOfNode == [n \in NodeIds |-> IF n \in {"r:b", "r:b::g"} THEN "b" ELSE "a"]
Repository == [n \in NodeIds |-> IF n = "q:a" THEN "q" ELSE "r"]
NodeLines == [n \in NodeIds |-> IF n \in {"r:a::f", "r:b::g"} THEN <<2, 3>> ELSE <<>>]
NoSuffixes == {}
AddedIds == <<"c", "h">> :> "r:c::h"
ImportsFound == "mod_b" :> "b" @@ "mod_a" :> "a"

FileDiff == [status |-> "modified", old |-> "a", new |-> "a", binary |-> FALSE,
             hunks |-> {<<1, 2>>}, added |-> {"mod_b"}, removed |-> {"mod_a"}, symbols |-> {}]
EditA   == FileDiff
EditB   == [FileDiff EXCEPT !.old = "b", !.new = "b", !.hunks = {<<4, 5>>}, !.added = {"r:a"}]
DeleteA == [FileDiff EXCEPT !.status = "deleted", !.hunks = {}, !.added = {}]
DropA   == [DeleteA EXCEPT !.binary = TRUE, !.removed = {}]
MoveB   == [FileDiff EXCEPT !.status = "renamed", !.old = "b", !.new = "c", !.hunks = {}]
AddC    == [FileDiff EXCEPT !.status = "added", !.old = "c", !.new = "c", !.removed = {},
              !.symbols = {[name |-> "h", imports |-> {"mod_b"}, calls |-> {"r:a::f"}]}]
FileDiffs == {EditA, EditB, DeleteA, DropA, MoveB, AddC}

Rule(id, type, severity, config) ==
  [id |-> id, type |-> type, severity |-> severity, config |-> config]
Protect == Rule("own", "file_scope_ban", "block", [path_pattern |-> {"c"}])
Layers(severity) == Rule("layers", "dependency_ban", severity,
                         [source_pattern |-> {"a"}, target_pattern |-> {"b"}])
Mistypes == Rule("typed", "dependency_ban", "block",
                 [source_pattern |-> Wrongly, target_pattern |-> {"b"}])
Targets == Rule("typed", "dependency_ban", "error",
                [source_pattern |-> {"b"}, target_pattern |-> Wrongly, edge_kind |-> Wrongly])
Cycles == Rule("own", "cycle_detection", "error",
               [scope |-> "intra_repo", edge_kinds |-> {"imports"}])
Blast == Rule("blast", "impact_threshold", "error", [max_impact |-> 2, max_hops |-> 3])
Edges == Rule("typed", "cycle_detection", "error",
              [scope |-> "cross_repo", edge_kinds |-> Wrongly])
Kinded == Rule("typed", "impact_threshold", "error",
               [max_impact |-> 0, target_kind |-> Wrongly])
Matched(type, config) == Rule("typed", type, "error", config @@ "target_pattern" :> Wrongly)
Hops == Rule("typed", "impact_threshold", "error", [max_impact |-> 0, max_hops |-> Wrongly])
Coupling == Rule("own", "metric_threshold", "warning",
                 [metric |-> "instability", threshold |-> 50])
Malformed == Rule("bad", "impact_threshold", "error", [max_impact |-> Wrongly])
Files == {<<Edges, Protect, Cycles, Matched("metric_threshold",
                                          [metric |-> "instability", threshold |-> 0]), Coupling>>,
          <<Mistypes, Kinded, Hops, Protect, Matched("impact_threshold", [max_impact |-> 0]),
            Blast, Targets, Layers("error")>>,
          <<Layers("block"), Malformed>>}

Contents == <<"r:a", "r:a::f">> :> "contains" @@ <<"r:b", "r:b::g">> :> "contains"
Import(s, t) == <<s, t>> :> "imports"
Call(s, t) == <<s, t>> :> "calls"
GraphOf(edge) == [nodes |-> NodeIds, edge |-> edge]
Published == {GraphOf(Contents @@ Import("r:a", "q:a") @@ Import("r:b", "q:a")
                        @@ Import("q:a", "r:b") @@ Import("q:a", "r:b::g")
                        @@ Call("r:b::g", "r:a::f") @@ Call("r:a::f", "r:b::g")
                        @@ Import("q:a", "r:a::f")),
              GraphOf(Contents @@ Call("r:b::g", "r:a::f") @@ Call("r:b::g", "r:b::g")
                        @@ Import("q:a", "r:b::g"))}

Messages == {[ids |-> {}, reason |-> FALSE], [ids |-> {"own"}, reason |-> TRUE],
             [ids |-> {"own", "layers"}, reason |-> FALSE]}
=============================================================================
