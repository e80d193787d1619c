----------------------------- MODULE MCWatcher -----------------------------
(* Instances of Watcher for TLC.                                           *)
EXTENDS Watcher

CONSTANTS f1, f2, b1

TwoFiles == {f1, f2}
OneFile == {f1}
OneBlob == {b1}
=============================================================================
