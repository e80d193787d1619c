------------------------ MODULE MCIndexerPipeline -------------------------
(* Instances of IndexerPipeline for TLC.                                   *)
EXTENDS IndexerPipeline, TLC

CONSTANTS r1, r2, f1, f2, b1, b2

TwoRepos == {r1, r2}
OneRepo == {r1}
TwoFiles == {f1, f2}
OneFile == {f1}
OneBlob == {b1}
TwoBlobs == {b1, b2}

Symmetry == Permutations(TwoRepos) \cup Permutations(TwoFiles)
=============================================================================
