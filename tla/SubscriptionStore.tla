------------------------- MODULE SubscriptionStore -------------------------
(***************************************************************************)
(* What the subscription manager promises: a store of subscriptions whose  *)
(* adds and refreshes are atomic and which is never half-way, with two      *)
(* exceptions it admits to.  An add may be cut off when it has stored its  *)
(* subscription and not yet the configuration (the process died there, or  *)
(* neither rename worked), and an add may take effect without its client   *)
(* ever being told.                                                        *)
(***************************************************************************)
EXTENDS Subscriptions

VARIABLES
    subscriptions,   \* the subscriptions that count
    published,       \* the configuration the router may be given
    known            \* names clients have been told are subscribed

store == <<subscriptions, published, known>>

StoreInit ==
    /\ subscriptions \in Legacy
    /\ published = Seed
    /\ known = {}

\* Mutant: the names are not compared again when nothing is added.
CommitUnchecked(add) ==
    /\ add # NoAdd => CollisionFree(Upsert(subscriptions, add))
    /\ subscriptions' = Upsert(subscriptions, add)
    /\ published' \in {c \in Generated(subscriptions') : c.valid}
    /\ UNCHANGED known

\* An add, or a refresh: the subscriptions and a configuration generated from
\* them and accepted by sing-box change together.
Commit(add) ==
    /\ CollisionFree(Upsert(subscriptions, add))
    /\ subscriptions' = Upsert(subscriptions, add)
    /\ published' \in {c \in Generated(subscriptions') : c.valid}
    /\ UNCHANGED known

\* An add that was cut off.
StoreOnly(add) ==
    /\ CollisionFree(Upsert(subscriptions, add))
    /\ subscriptions' = Upsert(subscriptions, add)
    /\ UNCHANGED <<published, known>>

\* Clients learn of subscribed names and of no others.
Tell ==
    /\ \E told \in SUBSET Names(subscriptions) : known' = known \cup told
    /\ UNCHANGED <<subscriptions, published>>

StoreNext ==
    \/ \E add \in Accepted \cup {NoAdd} : Commit(add)
    \/ \E add \in Accepted : StoreOnly(add)
    \/ Tell

StoreSpec == StoreInit /\ [][StoreNext]_store
-----------------------------------------------------------------------------
\* A name once subscribed is subscribed for good: the service has no way to
\* remove one (main.go:440-448, 611-668).
NothingForgotten ==
    [][Names(subscriptions) \subseteq Names(subscriptions')]_store

\* The only state the service did not make itself is the one it found, so a
\* configuration, once generated, is always one of buildable subscriptions
\* and lags behind them by whole adds only (main.go:481-488, 575-589).
PublishedLags ==
    published # Seed =>
        /\ CollisionFree(published.subs) /\ CollisionFree(subscriptions)
        /\ Names(published.subs) \subseteq Names(subscriptions)
=============================================================================
