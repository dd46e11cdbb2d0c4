------------------------------ MODULE DocStore ------------------------------
(***************************************************************************)
(* What an index promises its clients, without segments, logs or flushes:  *)
(* a map from document ids to versioned documents that changes only when a *)
(* client puts or deletes a document, which then gets a higher version.    *)
(* An implementation may except documents from the promise (excused), but  *)
(* no other step changes a document that is not excused afterwards.        *)
(***************************************************************************)
EXTENDS Naturals

CONSTANTS Docs, Contents

VARIABLES content, version, excused

Init ==
    /\ content \in [Docs -> Contents]
    /\ version = [d \in Docs |-> 0]
    /\ excused \subseteq Docs

\* An acknowledged operation.  It may itself be one that is not promised to last.
Put(d, v) ==
    /\ version'[d] > version[d] /\ version' = [version EXCEPT ![d] = version'[d]]
    /\ content' = [content EXCEPT ![d] = v]
    /\ excused' \subseteq excused \cup {d}

\* Whatever else happens acknowledges nothing and changes excused documents only.
Internal ==
    /\ version' = version
    /\ excused' \subseteq Docs
    /\ content' \in [Docs -> Contents]
    /\ \A d \in Docs \ excused' : content'[d] = content[d]

Next == Internal \/ \E d \in Docs, v \in Contents : Put(d, v)

Spec == Init /\ [][Next]_<<content, version, excused>>
=============================================================================
