----------------------------- MODULE MCOrderCache -----------------------------
(* Model-checking instances of OrderCache. *)
EXTENDS OrderCache

CONSTANTS plain, related

\* One filter reads nodes only, the other relations too.
MCFilters == {plain, related}
MCRelated == {related}

-----------------------------------------------------------------------------
(* What the code does not keep (README, Known divergences): each is violated  *)
(* within the bounds of this module's configurations.                         *)

\* A stale order is never served (graphene_order.go).
NeverServedStale ==
    [][\A r \in Readers : pc[r] = "lookup" /\ pc'[r] = "hydrate" =>
          seen'[r] = Show(applied, filter[r])]_vars

\* A query fails only if an index entry outlived its node (hydrateIDs).
QueryNeverFails == \A r \in Readers : pc[r] # "failed"
=============================================================================
