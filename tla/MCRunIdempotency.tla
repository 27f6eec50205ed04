-------------------------- MODULE MCRunIdempotency --------------------------
(***************************************************************************)
(* An instance of RunIdempotency for TLC: two server instances, one        *)
(* idempotency key, two callers, up to three pipeline runs.                *)
(***************************************************************************)
EXTENDS RunIdempotency

CONSTANTS i1, i2, k1, c1, c2, r1, r2, r3

TwoInstances == {i1, i2}
OneKey == {k1}
TwoCallers == {c1, c2}
ThreeRuns == {r1, r2, r3}
=============================================================================
