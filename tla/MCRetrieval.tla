---------------------------- MODULE MCRetrieval ----------------------------
(* An instance of Retrieval for TLC: functions f and g of one repository,  *)
(* h of another, a type t and a config entry k.                            *)
EXTENDS Retrieval

NodeIds == {"f", "g", "h", "t", "k"}
Kind == [n \in NodeIds |-> IF n = "t" THEN "type" ELSE IF n = "k" THEN "config" ELSE "function"]
Pathless == [n \in NodeIds |-> NoPath]
Repository == [n \in NodeIds |-> IF n = "h" THEN "q" ELSE "p"]

Built(members, edges) ==
  FoldLeft(LAMBDA g, e : AddEdge(g, e[1], e[2], e[3]),
           FoldLeft(AddNode, EmptyGraph, SetToSeq(members)), edges)

(* A chain over both repositories with a type at its end; a cycle with a   *)
(* shared config entry; a graph that lost a node the store still holds.    *)
SmallGraphs == {
  Built(NodeIds, << <<"f", "g", "calls">>, <<"g", "h", "api_calls">>,
                    <<"h", "t", "uses_type">>, <<"t", "k", "reads_config">> >>),
  Built(NodeIds \ {"g"}, << <<"f", "h", "calls">>, <<"h", "f", "calls">>, <<"f", "g", "calls">>,
                            <<"f", "k", "reads_config">>, <<"h", "k", "reads_config">> >>)}

Large == "f" :> 5 @@ "g" :> 2 @@ "h" :> 3 @@ "t" :> 2 @@ "k" :> 1
Small == "f" :> 2 @@ "g" :> 2 @@ "h" :> 1 @@ "t" :> 1 @@ "k" :> 1
Gates == {NodeIds, NodeIds \ {"g"}, {"g", "k"}}
Filters == {{}, {"p"}, {"q", "other"}}
=============================================================================
