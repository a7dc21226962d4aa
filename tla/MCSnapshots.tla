----------------------------- MODULE MCSnapshots -----------------------------
(* Model-checking instances of Snapshots, and of the notes of CaseFiles. *)
EXTENDS Snapshots

CONSTANTS h1, h2, tag

MCNotes == {[kind |-> "arrow", anchor |-> h1, to |-> World],
            [kind |-> "note", anchor |-> NoHash, to |-> NoAnchor]}
MCMarks == {[flagged |-> TRUE, tags |-> {tag}, noted |-> FALSE, descriptor |-> "4624"],
            [flagged |-> FALSE, tags |-> {}, noted |-> FALSE, descriptor |-> Blank]}
MCFirstEvents == <<h1, h2>>
MCFirstRels == {[id |-> 1, graph |-> 1, from |-> 1, to |-> 2, indexed |-> TRUE]}
=============================================================================
