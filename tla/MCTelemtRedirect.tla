-------------------------- MODULE MCTelemtRedirect --------------------------
(* Two valid overrides and one that is not, three attempts.                 *)
EXTENDS TelemtRedirect

CONSTANTS v1, v2, wrong
=============================================================================
