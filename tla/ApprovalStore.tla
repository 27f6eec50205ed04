---------------------------- MODULE ApprovalStore ----------------------------
(***************************************************************************)
(* transitionApproval of the Postgres packet store                         *)
(* (lib/server/store.ts:375-510): the transaction by which the approve     *)
(* route and the n8n callback decide a packet.                             *)
(*                                                                         *)
(* A call is a thread of a server; its steps are the statements of its     *)
(* READ COMMITTED transaction.  A statement sees what was committed before *)
(* it; SELECT ... FOR UPDATE and UPDATE take the packet's row lock, and an *)
(* INSERT of an event id waits for an open transaction that inserted it.   *)
(* Locks and writes last until the transaction commits or rolls back.      *)
(***************************************************************************)
EXTENDS Naturals, Sequences, FiniteSets

CONSTANTS
    Packets,       \* stored decision packets
    Ghosts,        \* packet ids that are not stored
    Cleared,       \* packets with gatekeeperClearsApproval
    Events,        \* approval event ids
    Calls,         \* concurrent callers
    NoPacket, NoEvent, NoCall,
    MaxRequests,   \* bound on the calls made
    MaxFaults      \* bound on failed statements

ASSUME ApprovalAssumption ==
    /\ Cleared \subseteq Packets
    /\ Packets \cap Ghosts = {} /\ Packets \cup Ghosts # {}
    /\ NoPacket \notin Packets /\ NoEvent \notin Events /\ NoCall \notin Calls
    /\ MaxRequests \in Nat /\ MaxFaults \in Nat

Decision == {"APPROVED", "REJECTED"}
Request == [packet: Packets \cup Ghosts, status: Decision, event: Events \cup {NoEvent}]
Status == {"UPDATED", "IDEMPOTENT", "NOT_FOUND", "BLOCKED", "CONFLICT", "EVENT_CONFLICT"}
Answer == [request: Request, status: Status]

Pc == {"idle", "event", "owner", "lock", "update", "reserve", "mark", "commit", "winner"}

VARIABLES
    approval,    \* committed: decision_packets.approval_status
    trail,       \* committed: the decisions audited in the packet's trail
    processed,   \* committed: processed_approval_events
    lock,        \* the open transaction that holds the packet's row lock
    pc, req,     \* where each call is, and what it asks
    wrote,       \* the transaction's uncommitted status update
    marked,      \* the transaction's uncommitted event insert
    outcome,     \* what the call will answer when it commits
    requests,    \* calls made so far
    faults,      \* failed statements so far
    answers      \* history: the answers given

txVars == <<wrote, marked, outcome>>
dbVars == <<approval, trail, processed>>
countVars == <<requests, faults>>
vars == <<dbVars, lock, pc, req, txVars, countVars, answers>>

AnyRequest == CHOOSE r \in Request : TRUE

Init ==
    /\ approval = [p \in Packets |-> "PENDING"]
    /\ trail = [p \in Packets |-> <<>>]
    /\ processed = [e \in Events |-> NoPacket]
    /\ lock = [p \in Packets |-> NoCall]
    /\ pc = [c \in Calls |-> "idle"]
    /\ req = [c \in Calls |-> AnyRequest]
    /\ wrote = [c \in Calls |-> FALSE]
    /\ marked = [c \in Calls |-> FALSE]
    /\ outcome = [c \in Calls |-> "UPDATED"]
    /\ requests = 0
    /\ faults = 0
    /\ answers = {}

-----------------------------------------------------------------------------
(* Ends of a transaction.                                                  *)

\* Locks go, uncommitted writes are forgotten, the thread is free.
Close(c) ==
    /\ lock' = [p \in Packets |-> IF lock[p] = c THEN NoCall ELSE lock[p]]
    /\ pc' = [pc EXCEPT ![c] = "idle"]
    /\ req' = [req EXCEPT ![c] = AnyRequest]
    /\ wrote' = [wrote EXCEPT ![c] = FALSE]
    /\ marked' = [marked EXCEPT ![c] = FALSE]
    /\ outcome' = [outcome EXCEPT ![c] = "UPDATED"]

Says(c, status) == answers' = answers \cup {[request |-> req[c], status |-> status]}

\* The call answers and wrote nothing.
Reply(c, status) ==
    /\ Close(c)
    /\ Says(c, status)
    /\ UNCHANGED <<dbVars, countVars>>

\* The transaction's writes become visible together.
Apply(c) ==
    LET p == req[c].packet
    IN  /\ approval' = IF wrote[c] THEN [approval EXCEPT ![p] = req[c].status] ELSE approval
        /\ trail' = IF wrote[c] THEN [trail EXCEPT ![p] = Append(@, req[c].status)] ELSE trail
        /\ processed' = IF marked[c] THEN [processed EXCEPT ![req[c].event] = p] ELSE processed

-----------------------------------------------------------------------------
(* The statements.                                                         *)

\* A route starts a call; only a call with an event id looks at the events.
Start(c, r) ==
    /\ pc[c] = "idle"
    /\ requests < MaxRequests
    /\ requests' = requests + 1
    /\ req' = [req EXCEPT ![c] = r]
    /\ pc' = [pc EXCEPT ![c] = IF r.event = NoEvent THEN "lock" ELSE "event"]
    /\ UNCHANGED <<dbVars, lock, txVars, faults, answers>>

\* SELECT packet_id FROM processed_approval_events: no lock is taken.
ReadEvent(c) ==
    /\ pc[c] = "event"
    /\ pc' = [pc EXCEPT ![c] =
                IF processed[req[c].event] = NoPacket THEN "lock" ELSE "owner"]
    /\ UNCHANGED <<dbVars, lock, req, txVars, countVars, answers>>

\* (mutant) the packet the event belongs to is not compared
ReadOwnerUncompared(c) ==
    /\ pc[c] = "owner"
    /\ lock[processed[req[c].event]] = NoCall
    /\ Reply(c, "EVENT_CONFLICT")

\* The event was processed: its packet is read FOR UPDATE, and the call answers.
ReadOwner(c) ==
    /\ pc[c] = "owner"
    /\ lock[processed[req[c].event]] = NoCall
    /\ Reply(c, IF processed[req[c].event] = req[c].packet
                THEN "IDEMPOTENT" ELSE "EVENT_CONFLICT")

\* readPacketForUpdate: there is no such packet.
LockMissing(c) ==
    /\ pc[c] = "lock"
    /\ req[c].packet \in Ghosts
    /\ Reply(c, "NOT_FOUND")

\* ... the gatekeeper blocks it, whatever its status.
LockBlocked(c) ==
    /\ pc[c] = "lock"
    /\ req[c].packet \in Packets \ Cleared
    /\ lock[req[c].packet] = NoCall
    /\ Reply(c, "BLOCKED")

\* (mutant) the gatekeeper's clearance is not looked at
LockUncleared(c) ==
    /\ pc[c] = "lock"
    /\ req[c].packet \in Packets
    /\ lock[req[c].packet] = NoCall
    /\ lock' = [lock EXCEPT ![req[c].packet] = c]
    /\ pc' = [pc EXCEPT ![c] = "update"]
    /\ UNCHANGED <<dbVars, req, txVars, countVars, answers>>

\* (mutant) the row is locked on another connection than the transaction's,
\* which waits for it
LockElsewhere(c) ==
    /\ pc[c] = "lock"
    /\ req[c].packet \in Cleared
    /\ lock[req[c].packet] = NoCall
    /\ lock' = [lock EXCEPT ![req[c].packet] = c]
    /\ UNCHANGED <<dbVars, pc, req, txVars, countVars, answers>>

\* ... or the call goes on with the row locked.
LockPacket(c) ==
    /\ pc[c] = "lock"
    /\ req[c].packet \in Cleared
    /\ lock[req[c].packet] = NoCall
    /\ lock' = [lock EXCEPT ![req[c].packet] = c]
    /\ pc' = [pc EXCEPT ![c] = "update"]
    /\ UNCHANGED <<dbVars, req, txVars, countVars, answers>>

\* (mutant) the UPDATE has no approval_status predicate
UpdateAnyStatus(c) ==
    /\ pc[c] = "update"
    /\ wrote' = [wrote EXCEPT ![c] = TRUE]
    /\ pc' = [pc EXCEPT ![c] = IF req[c].event = NoEvent THEN "commit" ELSE "reserve"]
    /\ UNCHANGED <<dbVars, lock, req, marked, outcome, countVars, answers>>

\* UPDATE ... WHERE approval_status = 'PENDING' matches the row.
Update(c) ==
    /\ pc[c] = "update"
    /\ approval[req[c].packet] = "PENDING"
    /\ wrote' = [wrote EXCEPT ![c] = TRUE]
    /\ pc' = [pc EXCEPT ![c] = IF req[c].event = NoEvent THEN "commit" ELSE "reserve"]
    /\ UNCHANGED <<dbVars, lock, req, marked, outcome, countVars, answers>>

\* It matches nothing: the packet already has the status asked for, or the other.
UpdateRepeats(c) ==
    /\ pc[c] = "update"
    /\ approval[req[c].packet] = req[c].status
    /\ outcome' = [outcome EXCEPT ![c] = "IDEMPOTENT"]
    /\ pc' = [pc EXCEPT ![c] = IF req[c].event = NoEvent THEN "commit" ELSE "mark"]
    /\ UNCHANGED <<dbVars, lock, req, wrote, marked, countVars, answers>>

UpdateConflicts(c) ==
    /\ pc[c] = "update"
    /\ approval[req[c].packet] \notin {"PENDING", req[c].status}
    /\ Reply(c, "CONFLICT")

\* No other open transaction has inserted the event id of call c.
KeyFree(c) == \A d \in Calls \ {c} : marked[d] => req[d].event # req[c].event

\* INSERT ... ON CONFLICT DO NOTHING RETURNING: the event id is ours ...
Reserve(c) ==
    /\ pc[c] = "reserve"
    /\ KeyFree(c)
    /\ processed[req[c].event] = NoPacket
    /\ marked' = [marked EXCEPT ![c] = TRUE]
    /\ pc' = [pc EXCEPT ![c] = "commit"]
    /\ UNCHANGED <<dbVars, lock, req, wrote, outcome, countVars, answers>>

\* (mutant) the insert's result is not looked at
ReserveIgnoresLoss(c) ==
    /\ pc[c] = "reserve"
    /\ KeyFree(c)
    /\ processed[req[c].event] # NoPacket
    /\ pc' = [pc EXCEPT ![c] = "commit"]
    /\ UNCHANGED <<dbVars, lock, req, txVars, countVars, answers>>

\* ... or was taken: EventReservationConflict rolls the status update back.
ReserveLost(c) ==
    /\ pc[c] = "reserve"
    /\ KeyFree(c)
    /\ processed[req[c].event] # NoPacket
    /\ lock' = [p \in Packets |-> IF lock[p] = c THEN NoCall ELSE lock[p]]
    /\ wrote' = [wrote EXCEPT ![c] = FALSE]
    /\ pc' = [pc EXCEPT ![c] = "winner"]
    /\ UNCHANGED <<dbVars, req, marked, outcome, countVars, answers>>

\* The catch block re-reads which packet won.
Winner(c) ==
    /\ pc[c] = "winner"
    /\ Reply(c, "EVENT_CONFLICT")

\* markApprovalEventProcessedTx: the insert's result is not looked at.
Mark(c) ==
    /\ pc[c] = "mark"
    /\ KeyFree(c)
    /\ marked' = [marked EXCEPT ![c] = processed[req[c].event] = NoPacket]
    /\ pc' = [pc EXCEPT ![c] = "commit"]
    /\ UNCHANGED <<dbVars, lock, req, wrote, outcome, countVars, answers>>

Commit(c) ==
    /\ pc[c] = "commit"
    /\ Apply(c)
    /\ Says(c, outcome[c])
    /\ Close(c)
    /\ UNCHANGED countVars

\* (mutant) the event insert is not part of the transaction
FaultKeepsEvent(c) ==
    /\ pc[c] # "idle"
    /\ faults < MaxFaults
    /\ faults' = faults + 1
    /\ processed' = IF marked[c] THEN [processed EXCEPT ![req[c].event] = req[c].packet]
                    ELSE processed
    /\ Close(c)
    /\ UNCHANGED <<approval, trail, requests, answers>>

\* A statement fails, or the server dies: Postgres rolls back and the caller gets
\* no answer.  A failing COMMIT may have committed.
Fault(c) ==
    /\ pc[c] # "idle"
    /\ faults < MaxFaults
    /\ faults' = faults + 1
    /\ \/ UNCHANGED dbVars
       \/ pc[c] = "commit" /\ Apply(c)
    /\ Close(c)
    /\ UNCHANGED <<requests, answers>>

-----------------------------------------------------------------------------
Step(c) ==
    \/ ReadEvent(c) \/ ReadOwner(c)
    \/ LockMissing(c) \/ LockBlocked(c) \/ LockPacket(c)
    \/ Update(c) \/ UpdateRepeats(c) \/ UpdateConflicts(c)
    \/ Reserve(c) \/ ReserveLost(c) \/ Winner(c) \/ Mark(c) \/ Commit(c)

Next ==
    \E c \in Calls : (\E r \in Request : Start(c, r)) \/ Step(c) \/ Fault(c)

Spec == Init /\ [][Next]_vars

\* The database runs every statement that is not waiting; callers come as they like.
Fairness == \A c \in Calls : WF_vars(Step(c))
FairSpec == Spec /\ Fairness

-----------------------------------------------------------------------------
(* Properties.                                                             *)

\* Every variable holds a value of its kind.
TypeOK ==
    /\ approval \in [Packets -> Decision \cup {"PENDING"}]
    /\ trail \in [Packets -> Seq(Decision)]
    /\ processed \in [Events -> Packets \cup {NoPacket}]
    /\ lock \in [Packets -> Calls \cup {NoCall}]
    /\ pc \in [Calls -> Pc]
    /\ req \in [Calls -> Request]
    /\ wrote \in [Calls -> BOOLEAN]
    /\ marked \in [Calls -> BOOLEAN]
    /\ outcome \in [Calls -> Status]
    /\ requests \in Nat /\ faults \in Nat
    /\ answers \subseteq Answer

\* A decision and its audit entry are one: a pending packet has none, a decided
\* one has exactly the entry of the call that decided it, although calls race,
\* roll back and lose their commit's reply.
DecisionAuditedOnce ==
    /\ TypeOK
    /\ \A p \in Packets :
          trail[p] = IF approval[p] = "PENDING" THEN <<>> ELSE <<approval[p]>>

\* An answer is never taken back.  UPDATED means that the packet carries the
\* decision asked for, and that its event is processed for this packet: two calls
\* told UPDATED with one event id asked the same of one packet.  EVENT_CONFLICT is
\* only ever said of an event that belongs to another packet, also by the caller
\* whose update was rolled back.  And a packet the gatekeeper blocks is never
\* decided, nor hears its caller anything that depends on its status.
AnswersAreTrue ==
    /\ \A a \in answers : a.status = "UPDATED" =>
          /\ approval[a.request.packet] = a.request.status
          /\ a.request.event # NoEvent => processed[a.request.event] = a.request.packet
    /\ \A a \in answers : a.status = "EVENT_CONFLICT" =>
          processed[a.request.event] \notin {NoPacket, a.request.packet}
    /\ \A p \in Packets \ Cleared : approval[p] = "PENDING"
    /\ \A a \in answers : a.status \in {"UPDATED", "IDEMPOTENT", "CONFLICT"} =>
          a.request.packet \in Cleared

\* Transactions implement the atomic promise.
Atomic == INSTANCE AtomicApproval
ImplementsAtomic == Atomic!AtomicSpec

\* No transaction waits for ever: row locks come before event ids in every call,
\* so the waits have no cycle.
CallsEnd == \A c \in Calls : pc[c] # "idle" ~> pc[c] = "idle"
=============================================================================
