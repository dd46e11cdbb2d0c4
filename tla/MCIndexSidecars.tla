-------------------------- MODULE MCIndexSidecars --------------------------
(***************************************************************************)
(* IndexSidecars for the model checker.  Files that no step can read again *)
(* are left out of the fingerprint, as in MCIndexHandle.                   *)
(***************************************************************************)
EXTENDS IndexSidecars, TLC

NoLegacy == {NoFile}

Symmetry == Permutations(Docs) \cup Permutations(Values)

ReadableNums == Nums(manifest) \cup Nums(memManifest)

LiveSegs ==
    [n \in DOMAIN segs \cap (ReadableNums \cup
                              (IF pc \in {"written", "merged"} THEN {NextNum(memManifest)} ELSE {})) |-> segs[n]]

ReadableFiles(files) ==
    [n \in {k \in DOMAIN files : k \in ReadableNums \/ k >= NextNum(memManifest)} |-> files[n]]

LiveView ==
    <<wal, LiveSegs, hasManifest, manifest, IF hasManifest THEN NoFile ELSE currentJson,
      memory, history, budget,
      perDoc, ReadableFiles(posFiles), posReaders, ReadableFiles(sugFiles), sugReaders, stage,
      gap, missing, stale, unsuggested \cap (ReadableNums \cup {NextNum(memManifest)}),
      unread \cap {NewestNum}, outdated>>
=============================================================================
