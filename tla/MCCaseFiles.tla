----------------------------- MODULE MCCaseFiles -----------------------------
(* Model-checking instances of CaseIntegrity, and of CaseFiles through it. *)
EXTENDS CaseIntegrity

CONSTANTS h1, h2, tag

MCFlags == {[flagged |-> TRUE, tags |-> {}, noted |-> FALSE, descriptor |-> "4624"]}
MCFirstEvents == <<h1, h2>>
MCFirstRels == {[id |-> 1, graph |-> 1, from |-> 1, to |-> 2, indexed |-> TRUE]}
MCRules == {[step |-> h1, keyed |-> TRUE]}
=============================================================================
