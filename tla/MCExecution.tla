---------------------------- MODULE MCExecution ----------------------------
(* Two requests, with the same idempotency key or one of them without, or one. *)
EXTENDS Execution, TLC

CONSTANTS e1, e2, key

MCExecs == {e1, e2}
MCSameKey == (e1 :> key) @@ (e2 :> key)

MCOneKey == (e1 :> key) @@ (e2 :> NoKey)

MCOneExec == {e1}
MCOne == (e1 :> key)

\* where the requests have the same key they may be exchanged as well
MCSymmetry == Permutations(Workers) \cup Permutations(Execs) \cup Permutations(Cancels)
=============================================================================
