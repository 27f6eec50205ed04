-------------------------- MODULE MCActionExecutor --------------------------
(***************************************************************************)
(* Instances of ActionExecutor for TLC: one packet with an owner alert and *)
(* a ticket (reversible) or a supplier email (outward); one or two server  *)
(* instances, each with a boot sweep; requests on the instances the        *)
(* configuration places them on.                                           *)
(***************************************************************************)
EXTENDS ActionExecutor

CONSTANTS p1, alert, ticket, email, i1, i2, r1, r2, s1, s2

OnePacket == {p1}
AlertAndEmail == {alert, email}
InternalActions == {alert, ticket}
OnlyAlert == {alert}

PacketOfAll == [a \in Actions |-> p1]
DerivedAlertEmail == [p \in Packets |-> <<alert, email>>]
DerivedAlertTicket == [p \in Packets |-> <<alert, ticket>>]
DerivedAlert == [p \in Packets |-> <<alert>>]

OneInstance == {i1}
TwoInstances == {i1, i2}
OneRequest == {r1}
TwoRequests == {r1, r2}
OneSweeper == {s1}
TwoSweepers == {s1, s2}

\* r1 and s1 run on i1, r2 and s2 on i2.
HostsTwo == [w \in Workers |-> IF w \in {r1, s1} THEN i1 ELSE i2]
\* Everything runs on i1.
HostsOne == [w \in Workers |-> i1]

AutoOn == {TRUE}
AutoAny == BOOLEAN
=============================================================================
