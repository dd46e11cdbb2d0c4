--------------------------- MODULE MCIndexHandle ---------------------------
(***************************************************************************)
(* IndexHandle for the model checker: the symmetry of the document ids and *)
(* of the sources, and what a state is identified by.                      *)
(***************************************************************************)
EXTENDS IndexHandle, TLC

\* An index of this version starts without a current.json.
NoLegacy == {NoFile}

\* A directory of an older version: current.json with a source for each document.
OldDirectory == {[last |-> 1, docs |-> docs] : docs \in [Docs -> Values]}

Symmetry == Permutations(Docs) \cup Permutations(Values)

\* The files that no step can read again are left out of the fingerprint:
\* current.json once there is a manifest, and segment files that neither manifest
\* names and no flush has just written (their number is used again only by a rename
\* that replaces them).
LiveSegs ==
    [n \in DOMAIN segs \cap (Nums(manifest) \cup Nums(memManifest) \cup
                              (IF pc \in {"written", "merged"} THEN {NextNum(memManifest)} ELSE {})) |-> segs[n]]

LiveView ==
    <<wal, LiveSegs, hasManifest, manifest, IF hasManifest THEN NoFile ELSE currentJson,
      memory, history, budget>>
=============================================================================
