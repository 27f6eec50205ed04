--------------------------- MODULE GovernedOutbox ---------------------------
(***************************************************************************)
(* What the action executor promises, without processes, leases, clocks or *)
(* crashes.  A governed action has at most one record.  It reaches the     *)
(* transport only by spending a permit; a permit is issued with the record *)
(* of a reversible action of an approved packet, and reissued only while   *)
(* that record is unsettled.  A record settles only after an attempt.      *)
(* An action held for a human is never attempted.                          *)
(*                                                                         *)
(* lib/server/action-executor.ts:26-56 (the header) is the contract;       *)
(* ActionExecutor implements it (see ActionExecutor!Contract).             *)
(***************************************************************************)
EXTENDS Naturals

CONSTANTS
    Packets,      \* decision packets
    Actions,      \* governable actions, one per idempotency key
    PacketOf,     \* the packet an action is derived from
    Reversible    \* the actions the code-owned taxonomy calls REVERSIBLE

VARIABLES
    approval,     \* the packet's approval status
    record,       \* "none", "held", "claimed" or "settled" for every action
    permits,      \* attempts an action may still make
    calls         \* attempts an action has made

contractVars == <<approval, record, permits, calls>>

Init ==
    /\ approval \in [Packets -> {"PENDING", "APPROVED", "REJECTED"}]
    /\ record = [a \in Actions |-> "none"]
    /\ permits = [a \in Actions |-> 0]
    /\ calls = [a \in Actions |-> 0]

\* A human decides a pending packet, once.
Decide(p) ==
    /\ approval[p] = "PENDING"
    /\ \E s \in {"APPROVED", "REJECTED"} : approval' = [approval EXCEPT ![p] = s]
    /\ UNCHANGED <<record, permits, calls>>

\* An approved packet's action is recorded and left to a human, or disabled.
Hold(a) ==
    /\ approval[PacketOf[a]] = "APPROVED"
    /\ record[a] = "none"
    /\ record' = [record EXCEPT ![a] = "held"]
    /\ UNCHANGED <<approval, permits, calls>>

\* The record of a reversible action is claimed; its permit may be lost at once.
Claim(a) ==
    /\ approval[PacketOf[a]] = "APPROVED"
    /\ a \in Reversible
    /\ record[a] = "none"
    /\ record' = [record EXCEPT ![a] = "claimed"]
    /\ \E granted \in {0, 1} : permits' = [permits EXCEPT ![a] = granted]
    /\ UNCHANGED <<approval, calls>>

\* An unsettled record is claimed again.
Reclaim(a) ==
    /\ record[a] = "claimed"
    /\ permits' = [permits EXCEPT ![a] = @ + 1]
    /\ UNCHANGED <<approval, record, calls>>

\* A permit is spent on the transport.
Attempt(a) ==
    /\ permits[a] > 0
    /\ permits' = [permits EXCEPT ![a] = @ - 1]
    /\ calls' = [calls EXCEPT ![a] = @ + 1]
    /\ UNCHANGED <<approval, record>>

\* A record settles, or settles again, once an attempt was made.
Settle(a) ==
    /\ record[a] \in {"claimed", "settled"}
    /\ calls[a] > 0
    /\ record' = [record EXCEPT ![a] = "settled"]
    /\ UNCHANGED <<approval, permits, calls>>

\* Permits die with the process that held them.
Forget ==
    /\ permits' \in [Actions -> Nat]
    /\ \A a \in Actions : permits'[a] <= permits[a]
    /\ UNCHANGED <<approval, record, calls>>

ContractNext ==
    \/ \E p \in Packets : Decide(p)
    \/ \E a \in Actions :
          Hold(a) \/ Claim(a) \/ Reclaim(a) \/ Attempt(a) \/ Settle(a)
    \/ Forget

ContractSpec == Init /\ [][ContractNext]_contractVars
=============================================================================
