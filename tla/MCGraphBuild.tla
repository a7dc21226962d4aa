----------------------------- MODULE MCGraphBuild -----------------------------
(* Model-checking instances of GraphBuild. *)
EXTENDS GraphBuild, TLC

CONSTANTS r1, r2, own, shared

\* Both rules carry the name of one of the graphs a user makes.
MCNames == {own, shared}
MCNameOf == [r \in Rules |-> shared]

-----------------------------------------------------------------------------
(* What the code does not keep (README, Known divergences): each is violated  *)
(* within the bounds of this module's configurations.                         *)

\* After a build no graph holds part of a rule's result.
NoHalfBuiltGraph ==
    bpc = "idle" /\ target # 0 => {e.key : e \in Visible(target)} \in {{}, gen}

\* The graph the user looks at is never discarded by a build.
ActiveNeverDiscarded == [][DiscardGraph /\ reg' # reg => reg.active # target]_vars

\* Clearing a graph is one step: no part of its relations is deleted first. To see it violated
\* takes one rule, MaxEdges = 4 and MaxEdits = 2.
ClearIsOneStep ==
    [][\A a \in Actors : Clear(a) /\ edges' # edges =>
          {e \in edges' : e.id \in clr[a].ids} = {}]_vars

\* One rule, one graph: what a rule has produced is in the graph bound to it.
OneRuleOneGraph ==
    bpc = "idle" /\ clr["user"] = NoClear =>
        \A e \in edges : e.rule # NoRule =>
            \E i \in DOMAIN reg.graphs : reg.graphs[i].id = e.graph /\ reg.graphs[i].rule = e.rule
=============================================================================
