----------------------------- MODULE MCCatalog -----------------------------
(* Two tenants with the same content, one of them with a second content under
   the same version that does not compile; or one module. *)
EXTENDS Catalog, TLC

CONSTANTS a1, a2, b1, ta, tb, good, bad, v1

MCModules == {a1, a2, b1}
MCTenantOf == (a1 :> ta) @@ (a2 :> ta) @@ (b1 :> tb)
MCDigestOf == (a1 :> good) @@ (a2 :> bad) @@ (b1 :> good)
MCVersionOf == (a1 :> v1) @@ (a2 :> v1) @@ (b1 :> v1)

MCOneModule == {a1}

MCSymmetry == Permutations(Calls) \cup Permutations(Runs)
=============================================================================
