-------------------------- MODULE MCCatalogShadow --------------------------
(* Two runs that overlap, under a clock of two ticks a second.  One of the  *)
(* snapshots expires in the second second, one grows too old in the third,  *)
(* one is refused by sing-box and one by the client; a run may be asked to  *)
(* send its token in the clear to another host, or given two of them.       *)
EXTENDS CatalogShadow

CONSTANTS r1, r2

Good == [id |-> 1, created |-> 2, validUntil |-> 9, checks |-> {2}, wellFormed |-> TRUE,
         usable |-> TRUE, sound |-> TRUE]

Few == {Good, [Good EXCEPT !.id = 2, !.validUntil = 3], [Good EXCEPT !.id = 3, !.sound = FALSE],
        [Good EXCEPT !.id = 4, !.wellFormed = FALSE]}

Tls   == [value |-> "good", file |-> "", host |-> "remote", plain |-> FALSE, trusted |-> FALSE]
Clear == [Tls EXCEPT !.plain = TRUE]
Some  == {Tls, Clear, [Tls EXCEPT !.trusted = TRUE], [Tls EXCEPT !.file = "good"]}
=============================================================================
