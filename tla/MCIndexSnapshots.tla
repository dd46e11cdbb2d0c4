-------------------------- MODULE MCIndexSnapshots --------------------------
(***************************************************************************)
(* IndexSnapshots for the model checker: file names, symmetry, and the view*)
(* of MCIndexHandle with the snapshots added.                              *)
(***************************************************************************)
EXTENDS IndexSnapshots, TLC

NoLegacy == {NoFile}

OwnDataFile == [n \in Names |-> <<n, "json">>]
OwnMetaFile == [n \in Names |-> <<n, "meta.json">>]

\* The names "x" and "x.meta": the metadata of one is the data file of the other.
TwinMetaFile == [n \in Names |-> IF n = "x" THEN <<"x.meta", "json">> ELSE <<n, "meta.json">>]

Symmetry == Permutations(Docs) \cup Permutations(Values)
NameSymmetry == Permutations(Names)

LiveSegs ==
    [n \in DOMAIN segs \cap (Nums(manifest) \cup Nums(memManifest) \cup
                              (IF pc \in {"written", "merged"} THEN {NextNum(memManifest)} ELSE {})) |-> segs[n]]

LiveView ==
    <<wal, LiveSegs, hasManifest, manifest, IF hasManifest THEN NoFile ELSE currentJson,
      memory, history, budget, snapVars>>
=============================================================================
