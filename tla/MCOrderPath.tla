----------------------------- MODULE MCOrderPath -----------------------------
(* Values for model checking OrderPath. *)
EXTENDS OrderPath

CONSTANTS r1, r2, r3, c1

MCRequest == {r1, r2, r3}

\* A request, its retry with the same clientOrderId, and an independent one.
MCKeyOf   == (r1 :> "key") @@ (r2 :> "key") @@ (r3 :> NoKey)

\* One cancel of the market the first two are for.
MCCanceller == {c1}
MCTargetOf  == c1 :> {r1, r2}

\* Nobody cancels.
MCNoTargets == [k \in {} |-> {}]
=============================================================================
