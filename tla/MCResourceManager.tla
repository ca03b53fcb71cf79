------------------------- MODULE MCResourceManager -------------------------
(* Two tenants; an operator moves one of them between three limits. *)
EXTENDS ResourceManager, TLC

MCDefault == [slots |-> 2, cpu |-> 2, pages |-> 1]
MCLimits == {[slots |-> 1, cpu |-> 1, pages |-> 2], [slots |-> 3, cpu |-> 2, pages |-> 2]}

MCSymmetry == Permutations(Tenants) \cup Permutations(LeaseIDs)

\* CPU use is bounded by OvershootIsBounded, so the instance is finite.
=============================================================================
