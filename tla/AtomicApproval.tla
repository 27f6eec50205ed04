--------------------------- MODULE AtomicApproval ---------------------------
(***************************************************************************)
(* What PacketStore.transitionApproval promises (lib/server/store.ts:53-55 *)
(* and 375-385), without transactions, locks or failures: a pending packet *)
(* is decided once, together with the event that decided it, and an event  *)
(* belongs to one packet.                                                  *)
(*                                                                         *)
(* ApprovalStore implements it (see ApprovalStore!Atomic).                 *)
(***************************************************************************)
CONSTANTS
    Packets,      \* decision packets
    Cleared,      \* the packets the gatekeeper clears for approval
    Events,       \* approval event ids
    NoPacket      \* an event that was not processed

VARIABLES
    approval,     \* the packet's approval status
    processed     \* the packet an event was processed for

atomicVars == <<approval, processed>>

Init ==
    /\ approval = [p \in Packets |-> "PENDING"]
    /\ processed = [e \in Events |-> NoPacket]

\* An event is processed for one packet, and stays so.
Process(e, p) ==
    /\ processed[e] = NoPacket
    /\ processed' = [processed EXCEPT ![e] = p]

\* A human decides a pending packet, with an event id or without.
Decide(p) ==
    /\ p \in Cleared
    /\ approval[p] = "PENDING"
    /\ \E s \in {"APPROVED", "REJECTED"} : approval' = [approval EXCEPT ![p] = s]
    /\ UNCHANGED processed \/ \E e \in Events : Process(e, p)

\* An event repeats a decision that was already taken.
Repeat(p) ==
    /\ approval[p] # "PENDING"
    /\ \E e \in Events : Process(e, p)
    /\ UNCHANGED approval

AtomicNext == \E p \in Packets : Decide(p) \/ Repeat(p)

AtomicSpec == Init /\ [][AtomicNext]_atomicVars
=============================================================================
