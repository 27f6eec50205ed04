---------------------------- MODULE MCRateLimiter ----------------------------
(***************************************************************************)
(* An instance of RateLimiter for TLC: one route; clients with a token,    *)
(* with an address and with neither, so one key more than the cap of two;  *)
(* windows of three ticks, a second of two.                                *)
(***************************************************************************)
EXTENDS RateLimiter

CONSTANTS approve, tok, a

OneRoute == {approve}
OneToken == {tok}
OneIp == {a}
=============================================================================
