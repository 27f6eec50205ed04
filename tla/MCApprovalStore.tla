--------------------------- MODULE MCApprovalStore ---------------------------
(***************************************************************************)
(* Instances of ApprovalStore for TLC: two packets that the gatekeeper     *)
(* clears, one that it blocks and an id that is not stored; one event      *)
(* id; three callers at once.                                              *)
(***************************************************************************)
EXTENDS ApprovalStore, TLC

CONSTANTS pkt, other, blocked, ghost, e1, c1, c2, c3

ThreePackets == {pkt, other, blocked}
TwoPackets == {pkt, other}
OneGhost == {ghost}
NoGhosts == {}
OneEvent == {e1}
ThreeCalls == {c1, c2, c3}

\* Callers are interchangeable.
CallSymmetry == Permutations(Calls)
=============================================================================
