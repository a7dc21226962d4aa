-------------------------- MODULE MCDedupBackfill --------------------------
(* Events are interchangeable: the specification names none of them. *)
EXTENDS DedupBackfill, TLC

EventSymmetry == Permutations(Events)

-----------------------------------------------------------------------------
(* What the code does not keep (README, Known divergences): each is violated  *)
(* within the bounds of this module's configurations.                         *)

\* The result of every pass adds up (graphene_backfill.go, BackfillResult).
ResultAddsUp ==
    ppc \in {"done", "stopped"} => res.projected + res.already + res.failed = res.examined

\* What a pass has completed is durable: a projected event stays projected.
ProjectionIsDurable ==
    [][\A e \in Stored \cap DOMAIN node' :
          HasCurrentCorrelationKeys(node[e]) => HasCurrentCorrelationKeys(node'[e])]_backfillVars
=============================================================================
