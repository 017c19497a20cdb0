----------------------- MODULE MCSubscriptionManager -----------------------
(***************************************************************************)
(* SubscriptionManager on a small instance.  a1 and a2 are two names that  *)
(* normalise to the same tag prefix.  The service finds nothing, one       *)
(* subscription, whose URL an add may replace, or a colliding pair.        *)
(***************************************************************************)
EXTENDS SubscriptionManagerRefinement, TLC

CONSTANTS a1, a2, none, u1, u2, h1, h2

MCName     == {a1, a2}
MCNorm     == (a1 :> "a") @@ (a2 :> "a") @@ (none :> "")
MCUrl      == {u1, u2}
MCAccepted == {[name |-> a1, url |-> u1], [name |-> a2, url |-> u1]}
MCHandler  == {h1, h2}
MCLegacy   == { {}, {[name |-> a1, url |-> u2]},
                {[name |-> a1, url |-> u1], [name |-> a2, url |-> u1]} }
=============================================================================
