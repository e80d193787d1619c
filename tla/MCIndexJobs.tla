---------------------------- MODULE MCIndexJobs ----------------------------
(* Instances of IndexJobs for TLC.                                         *)
EXTENDS IndexJobs

CONSTANTS c1, c2, c3, w1, w2, k1, k2, a1, a2

ThreeClients == {c1, c2, c3}
OneClient == {c1}
OneWorker == {w1}
TwoWorkers == {w1, w2}
TwoShas == {a1, a2}
(* The first two calls may name a commit, each its own.                    *)
Pinned == [c \in ThreeClients |-> IF c = c3 THEN {NoSha}
                                  ELSE {NoSha, IF c = c1 THEN a1 ELSE a2}]
Unpinned == [c \in OneClient |-> {NoSha}]
OneKey == {k1}
TwoKeys == {k1, k2}
(* All calls are for one key, or all but one.                              *)
OneOrTwoKeys == {[c \in ThreeClients |-> IF c = c3 THEN k ELSE k1] : k \in TwoKeys}
AllOne == [OneClient -> OneKey]
=============================================================================
