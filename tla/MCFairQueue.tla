---------------------------- MODULE MCFairQueue ----------------------------
(* Three tenants, two of them with two jobs, and two workers. *)
EXTENDS FairQueue

CONSTANTS a1, a2, b1, b2, c1, ta, tb, tc

MCTenantIDs == {ta, tb, tc}
MCJobs == {a1, a2, b1, b2, c1}
MCTenantOf == (a1 :> ta) @@ (a2 :> ta) @@ (b1 :> tb) @@ (b2 :> tb) @@ (c1 :> tc)

\* two tenants are enough for the ring to starve one
SmallTenantIDs == {ta, tb}
SmallJobs == {a1, a2, b1}
SmallTenantOf == (a1 :> ta) @@ (a2 :> ta) @@ (b1 :> tb)
=============================================================================
