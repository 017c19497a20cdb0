---------------------------- MODULE MCActivation ----------------------------
(***************************************************************************)
(* Activation with two commands and three contents, one of which fails the *)
(* router's checks.                                                        *)
(***************************************************************************)
EXTENDS Activation, TLC

CONSTANTS s1, s2, good1, good2, bad

MCScript  == {s1, s2}
MCContent == {good1, good2, bad}
MCWorking == {good1, good2}
=============================================================================
