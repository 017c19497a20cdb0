--------------------------- MODULE MCEgressRouter ---------------------------
(* One command, two subscriptions that may be added; a configuration        *)
(* without any subscription does not work.                                  *)
EXTENDS EgressRouter, TLC

CONSTANTS s1, a, b, u

Adds     == {[name |-> a, url |-> u], [name |-> b, url |-> u]}
Norms    == [n \in Name \cup {EmptyName} |-> n]
Starts   == {{}, {[name |-> EmptyName, url |-> u]}}
Contents == Valid
Works    == {c \in Valid : c # Seed => c.subs # {}}

Symmetry == Permutations({a, b})
=============================================================================
