-------------------- MODULE SubscriptionManagerRefinement -------------------
(***************************************************************************)
(* The manager of main.go implements SubscriptionStore: seen through the   *)
(* mapping below, each of its steps is an atomic operation of the store or *)
(* changes nothing.                                                        *)
(*                                                                         *)
(* Between its two renames an add has stored its subscription but may      *)
(* still take it back, so until the second rename the subscriptions that   *)
(* count are the previous ones.  The configuration's rename is the moment  *)
(* an add or refresh takes effect; a crash before it, or a rollback that   *)
(* fails, is the add cut off.                                              *)
(***************************************************************************)
EXTENDS SubscriptionManager

\* The holder of the lock has persisted its state and not yet published.
Undecided ==
    /\ mu # Free
    /\ pc[mu] \in {"publish", "rollback"}
    /\ tx[mu].add # NoAdd

Committed == IF Undecided THEN tx[mu].previous ELSE stateFile

Store == INSTANCE SubscriptionStore WITH
             subscriptions <- Committed, published <- output, known <- visible

\* The two-file commit under the mutex, with its rollback, its failures and
\* its crashes, behaves as atomic operations would (main.go:406-450, 575-591).
ImplementsStore == Store!StoreSpec

\* No step of any goroutine, no rollback and no crash takes a subscribed name
\* away: there is no way to remove one (main.go:440-448, 575-589, 611-668).
NamesAccumulate == Store!NothingForgotten

\* A configuration, once generated, is one of buildable subscriptions and lags
\* behind those that count by whole adds only (main.go:481-488, 575-589).
OutputLags == Store!PublishedLags
=============================================================================
