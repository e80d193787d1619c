--------------------------- MODULE ActiveCatalog ---------------------------
(***************************************************************************)
(* What the index metadata promises to its users, whatever process writes  *)
(* it and however its statements interleave: a catalog of published        *)
(* versions of which exactly one is current as soon as there is one, and   *)
(* from which the current version is never removed.                        *)
(*                                                                         *)
(* This is the abstract specification that IndexPublication implements     *)
(* (runtime.py: publish_graph, activate_version, prune_versions).          *)
(***************************************************************************)

CONSTANTS Version,    \* the identifiers a version can have
          NoVersion   \* what "no active version" reads as

VARIABLES catalog,    \* the versions that are listed
          current     \* the one that is active

catalogVars == <<catalog, current>>

Init ==
  /\ catalog = {}
  /\ current = NoVersion

\* A new version is listed and becomes current in one step.
Publish(v) ==
  /\ v \in Version \ catalog
  /\ catalog' = catalog \cup {v}
  /\ current' = v

\* A listed version becomes current again.
Activate(v) ==
  /\ v \in catalog
  /\ current' = v
  /\ UNCHANGED catalog

\* A version that is not current leaves the catalog.
Remove(v) ==
  /\ v \in catalog \ {current}
  /\ catalog' = catalog \ {v}
  /\ UNCHANGED current

Next == \E v \in Version : Publish(v) \/ Activate(v) \/ Remove(v)

Spec == Init /\ [][Next]_catalogVars
=============================================================================
