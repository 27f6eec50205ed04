--------------------------- MODULE ActionExecutor ---------------------------
(***************************************************************************)
(* The transactional outbox of lib/server/action-executor.ts, on the       *)
(* Postgres stores, with the packet row it audits into.                    *)
(*                                                                         *)
(* Workers are threads of a server instance: the requests of the execute   *)
(* route, and one boot sweep per instance.  A worker's step is one call to *)
(* a store (one statement or transaction, atomic) or one transport call;   *)
(* workers interleave between steps, and an instance may crash between any *)
(* two.  A store call may fail, before or after it took effect.            *)
(*                                                                         *)
(* Time is a logical clock shared by the instances (no clock skew).        *)
(***************************************************************************)
EXTENDS Naturals, Sequences, FiniteSets

CONSTANTS
    Packets,
    Actions,         \* governable actions, one per idempotency key
    PacketOf,        \* the packet an action belongs to
    Derived,         \* packet -> the sequence deriveGovernableActions returns
    Reversible,      \* actions classifyAction calls REVERSIBLE
    Instances,       \* server processes
    Requests,        \* worker threads serving the execute route
    Sweepers,        \* worker threads running the boot sweep
    HostOf,          \* the instance a worker runs on
    AutoFlags,       \* values ENABLE_REVERSIBLE_AUTO_EXECUTE may have
    Lease,           \* DEFAULT_RECONCILE_LEASE_MS, in clock ticks
    MaxDelivery,     \* longest dispatch (transport call and finalize), in ticks
    RestartDelay,    \* shortest time from a crash to the next boot, in ticks
    MaxNow,          \* bound on the clock
    MaxCrashes,      \* bound on crashes
    MaxDbFaults      \* bound on failed store calls

Workers == Requests \cup Sweepers

ASSUME ConstantsAssumption ==
    /\ Packets # {} /\ Actions # {}
    /\ PacketOf \in [Actions -> Packets]
    /\ Derived \in [Packets -> Seq(Actions)]
    /\ \A p \in Packets : \A i \in 1..Len(Derived[p]) : PacketOf[Derived[p][i]] = p
    /\ Reversible \subseteq Actions
    /\ HostOf \in [Workers -> Instances]
    /\ Requests \cap Sweepers = {}
    /\ AutoFlags \subseteq BOOLEAN
    /\ Lease \in Nat /\ MaxDelivery \in Nat /\ RestartDelay \in Nat
    /\ MaxNow \in Nat /\ MaxCrashes \in Nat /\ MaxDbFaults \in Nat

ApprovalStatus == {"PENDING", "APPROVED", "REJECTED"}
RowStatus == {"NONE", "PENDING", "SKIPPED", "DISPATCHING", "EXECUTED", "FAILED"}
Terminal == {"EXECUTED", "FAILED"}
AuditEntry == [action: Actions, status: RowStatus]

RequestPc == {"idle", "next", "deliver", "finalize", "write"}
SweeperPc == {"down", "list", "sweep", "deliver", "finalize", "off"}

VARIABLES
    approval,      \* packet row: approval_status
    trail,         \* packet row: the ACTION_EXECUTION entries of payload.auditTrail
    rowStatus,     \* executed_actions.status, "NONE" when there is no row
    requestedAt,   \* executed_actions.requested_at
    pc,            \* where each worker is
    job,           \* request: the packet it executes
    auto,          \* request: autoExecuteReversible
    cursor,        \* request: position in Derived[job]
    created,       \* request: entries for the rows this run created
    snapshot,      \* request: the packet read by updateDecisionPacket
    todo,          \* sweeper: packets not swept yet
    strands,       \* sweeper: stale rows of the packet being swept
    sweepNow,      \* sweeper: nowIso, read once per packet
    action,        \* the action a worker dispatches
    claim,         \* the requestedAt its claim wrote
    since,         \* when it took the claim
    verdict,       \* the status it will finalize
    now,           \* the clock
    up,            \* instances that are running
    downSince,     \* when an instance last crashed
    crashes,       \* crashes so far
    dbFaults,      \* failed store calls so far
    calls,         \* history: transport.deliver calls per action
    claimTimes,    \* history: the requestedAt values an action was claimed with
    returned       \* history: actions whose transport call has returned

packetVars == <<approval, trail>>
rowVars == <<rowStatus, requestedAt>>
requestVars == <<job, auto, cursor, created, snapshot>>
sweepVars == <<todo, strands, sweepNow>>
dispatchVars == <<action, claim, since, verdict>>
hostVars == <<up, downSince, crashes>>
historyVars == <<calls, claimTimes, returned>>
vars == <<packetVars, rowVars, pc, requestVars, sweepVars, dispatchVars,
          now, hostVars, dbFaults, historyVars>>

\* Values of a worker's locals while they hold nothing.
AnyPacket == CHOOSE p \in Packets : TRUE
AnyAction == CHOOSE a \in Actions : TRUE
NoSnapshot == [approval |-> "PENDING", trail |-> <<>>]

Init ==
    /\ approval = [p \in Packets |-> "PENDING"]
    /\ trail = [p \in Packets |-> <<>>]
    /\ rowStatus = [a \in Actions |-> "NONE"]
    /\ requestedAt = [a \in Actions |-> 0]
    /\ pc = [w \in Workers |-> IF w \in Sweepers THEN "off" ELSE "idle"]
    /\ job = [w \in Requests |-> AnyPacket]
    /\ auto = [w \in Requests |-> FALSE]
    /\ cursor = [w \in Requests |-> 1]
    /\ created = [w \in Requests |-> <<>>]
    /\ snapshot = [w \in Requests |-> NoSnapshot]
    /\ todo = [s \in Sweepers |-> {}]
    /\ strands = [s \in Sweepers |-> {}]
    /\ sweepNow = [s \in Sweepers |-> 0]
    /\ action = [w \in Workers |-> AnyAction]
    /\ claim = [w \in Workers |-> 0]
    /\ since = [w \in Workers |-> 0]
    /\ verdict = [w \in Workers |-> "EXECUTED"]
    /\ now = 0
    /\ up = Instances
    /\ downSince = [i \in Instances |-> 0]
    /\ crashes = 0
    /\ dbFaults = 0
    /\ calls = [a \in Actions |-> 0]
    /\ claimTimes = [a \in Actions |-> {}]
    /\ returned = {}

-----------------------------------------------------------------------------
\* The packet store's atomic PENDING -> APPROVED/REJECTED compare-and-set.
Decide(p) ==
    /\ approval[p] = "PENDING"
    /\ \E s \in ApprovalStatus \ {"PENDING"} : approval' = [approval EXCEPT ![p] = s]
    /\ UNCHANGED <<trail, rowVars, pc, requestVars, sweepVars, dispatchVars,
                   now, hostVars, dbFaults, historyVars>>

-----------------------------------------------------------------------------
(* Steps shared by the first dispatch and the recovery sweep.              *)

\* The claim is won: the worker holds a DISPATCHING row stamped `at`.
StartDispatch(w, a, at) ==
    /\ pc' = [pc EXCEPT ![w] = "deliver"]
    /\ action' = [action EXCEPT ![w] = a]
    /\ claim' = [claim EXCEPT ![w] = at]
    /\ since' = [since EXCEPT ![w] = now]
    /\ claimTimes' = [claimTimes EXCEPT ![a] = @ \cup {at}]
    /\ UNCHANGED verdict

EndDispatch(w) ==
    /\ action' = [action EXCEPT ![w] = AnyAction]
    /\ claim' = [claim EXCEPT ![w] = 0]
    /\ since' = [since EXCEPT ![w] = 0]
    /\ verdict' = [verdict EXCEPT ![w] = "EXECUTED"]

\* The request returns (or throws) and its thread is free again.
Leave(w) ==
    /\ pc' = [pc EXCEPT ![w] = "idle"]
    /\ job' = [job EXCEPT ![w] = AnyPacket]
    /\ auto' = [auto EXCEPT ![w] = FALSE]
    /\ cursor' = [cursor EXCEPT ![w] = 1]
    /\ created' = [created EXCEPT ![w] = <<>>]
    /\ snapshot' = [snapshot EXCEPT ![w] = NoSnapshot]

\* Mutants: a throw is taken for a receipt; a throw is retried in place.
DeliverSwallowsThrow(w) ==
    /\ pc[w] = "deliver"
    /\ pc' = [pc EXCEPT ![w] = "finalize"]
    /\ calls' = [calls EXCEPT ![action[w]] = @ + 1]
    /\ verdict' = [verdict EXCEPT ![w] = "EXECUTED"]
    /\ returned' \in {returned, returned \cup {action[w]}}
    /\ UNCHANGED <<packetVars, rowVars, requestVars, sweepVars, action, claim,
                   since, now, hostVars, dbFaults, claimTimes>>

DeliverRetriesThrow(w) ==
    /\ pc[w] = "deliver"
    /\ calls' = [calls EXCEPT ![action[w]] = @ + 1]
    /\ \/ /\ pc' = [pc EXCEPT ![w] = "finalize"]
          /\ returned' = returned \cup {action[w]}
       \/ UNCHANGED <<pc, returned>>
    /\ UNCHANGED <<packetVars, rowVars, requestVars, sweepVars, dispatchVars,
                   now, hostVars, dbFaults, claimTimes>>

\* transport.deliver returns a receipt, or throws (also after the provider acted).
Deliver(w) ==
    /\ pc[w] = "deliver"
    /\ pc' = [pc EXCEPT ![w] = "finalize"]
    /\ calls' = [calls EXCEPT ![action[w]] = @ + 1]
    /\ \/ /\ verdict' = [verdict EXCEPT ![w] = "EXECUTED"]
          /\ returned' = returned \cup {action[w]}
       \/ /\ verdict' = [verdict EXCEPT ![w] = "FAILED"]
          /\ UNCHANGED returned
    /\ UNCHANGED <<packetVars, rowVars, requestVars, sweepVars, action, claim,
                   since, now, hostVars, dbFaults, claimTimes>>

\* finalizeAction: an update by id, whatever the row's status is by now.
Finalize(w) ==
    /\ pc[w] = "finalize"
    /\ rowStatus' = [rowStatus EXCEPT ![action[w]] = verdict[w]]
    /\ EndDispatch(w)
    /\ \/ /\ w \in Requests
          /\ created' = [created EXCEPT ![w] =
                 Append(@, [action |-> action[w], status |-> verdict[w]])]
          /\ cursor' = [cursor EXCEPT ![w] = @ + 1]
          /\ pc' = [pc EXCEPT ![w] = "next"]
       \/ /\ w \in Sweepers
          /\ pc' = [pc EXCEPT ![w] = "sweep"]
          /\ UNCHANGED <<created, cursor>>
    /\ UNCHANGED <<packetVars, requestedAt, job, auto, snapshot, sweepVars, now,
                   hostVars, dbFaults, historyVars>>

\* The finalize call fails, before or after it took effect.  Recording EXECUTED
\* is inside the try, so its failure is finalized FAILED; a failure to record
\* FAILED leaves the request, or the sweep of this packet.
FinalizeFault(w) ==
    /\ pc[w] = "finalize"
    /\ dbFaults < MaxDbFaults
    /\ dbFaults' = dbFaults + 1
    /\ \/ UNCHANGED rowStatus
       \/ rowStatus' = [rowStatus EXCEPT ![action[w]] = verdict[w]]
    /\ \/ /\ verdict[w] = "EXECUTED"
          /\ verdict' = [verdict EXCEPT ![w] = "FAILED"]
          /\ UNCHANGED <<pc, action, claim, since, requestVars, strands>>
       \/ /\ verdict[w] = "FAILED"
          /\ EndDispatch(w)
          /\ \/ /\ w \in Requests
                /\ Leave(w)
                /\ UNCHANGED strands
             \/ /\ w \in Sweepers
                /\ strands' = [strands EXCEPT ![w] = {}]
                /\ pc' = [pc EXCEPT ![w] = "sweep"]
                /\ UNCHANGED requestVars
    /\ UNCHANGED <<packetVars, requestedAt, todo, sweepNow, now, hostVars, historyVars>>

-----------------------------------------------------------------------------
(* A request of the execute route: executeApprovedPacketActions.           *)

\* Requests are served once register(), the boot sweep, has completed.
Serving(i) ==
    /\ i \in up
    /\ \A s \in Sweepers : HostOf[s] = i => pc[s] = "off"

\* Mutant: the approval gate is missing.
ExecuteUnapproved(w, p) ==
    /\ pc[w] = "idle"
    /\ Serving(HostOf[w])
    /\ pc' = [pc EXCEPT ![w] = "next"]
    /\ job' = [job EXCEPT ![w] = p]
    /\ \E flag \in AutoFlags : auto' = [auto EXCEPT ![w] = flag]
    /\ UNCHANGED <<packetVars, rowVars, cursor, created, snapshot, sweepVars,
                   dispatchVars, now, hostVars, dbFaults, historyVars>>

\* The route's packet snapshot is APPROVED; otherwise nothing is executed.
Execute(w, p) ==
    /\ pc[w] = "idle"
    /\ Serving(HostOf[w])
    /\ approval[p] = "APPROVED"
    /\ pc' = [pc EXCEPT ![w] = "next"]
    /\ job' = [job EXCEPT ![w] = p]
    /\ \E flag \in AutoFlags : auto' = [auto EXCEPT ![w] = flag]
    /\ UNCHANGED <<packetVars, rowVars, cursor, created, snapshot, sweepVars,
                   dispatchVars, now, hostVars, dbFaults, historyVars>>

AtAction(w) == pc[w] = "next" /\ cursor[w] <= Len(Derived[job[w]])
AtEnd(w) == pc[w] = "next" /\ cursor[w] > Len(Derived[job[w]])
NextAction(w) == Derived[job[w]][cursor[w]]

\* Mutant: the flag alone decides, the taxonomy is not asked.
AutoFiresByFlag(w) == auto[w]
AutoFires(w) == NextAction(w) \in Reversible /\ auto[w]

\* Mutant: the outcome of the reservation is stored for its status.
InsertedStatusIsOutcome(w) ==
    IF AutoFires(w) THEN "RESERVED"
    ELSE IF NextAction(w) \in Reversible THEN "SKIPPED" ELSE "PENDING"

\* The status a new row of the worker's next action is inserted with.
InsertedStatus(w) ==
    IF AutoFires(w) THEN "DISPATCHING"
    ELSE IF NextAction(w) \in Reversible THEN "SKIPPED" ELSE "PENDING"

\* INSERT ... ON CONFLICT (idempotency_key) DO NOTHING, when there is no row.
InsertRow(w) ==
    /\ AtAction(w)
    /\ rowStatus[NextAction(w)] = "NONE"
    /\ rowStatus' = [rowStatus EXCEPT ![NextAction(w)] = InsertedStatus(w)]
    /\ requestedAt' = [requestedAt EXCEPT ![NextAction(w)] = now]

\* reserveAction wins the claim.
Reserve(w) ==
    /\ InsertRow(w)
    /\ AutoFires(w)
    /\ StartDispatch(w, NextAction(w), now)
    /\ UNCHANGED <<packetVars, requestVars, sweepVars, now, hostVars, dbFaults,
                   calls, returned>>

\* Mutant: reports a created row without inserting it.
RecordNothing(w) ==
    /\ AtAction(w)
    /\ rowStatus[NextAction(w)] = "NONE"
    /\ ~AutoFires(w)
    /\ created' = [created EXCEPT ![w] =
           Append(@, [action |-> NextAction(w), status |-> InsertedStatus(w)])]
    /\ cursor' = [cursor EXCEPT ![w] = @ + 1]
    /\ UNCHANGED <<packetVars, rowVars, pc, job, auto, snapshot, sweepVars,
                   dispatchVars, now, hostVars, dbFaults, historyVars>>

\* A disabled reversible action, or an outward one held for a human.
RecordNonDispatched(w) ==
    /\ InsertRow(w)
    /\ ~AutoFires(w)
    /\ created' = [created EXCEPT ![w] =
           Append(@, [action |-> NextAction(w), status |-> InsertedStatus(w)])]
    /\ cursor' = [cursor EXCEPT ![w] = @ + 1]
    /\ UNCHANGED <<packetVars, pc, job, auto, snapshot, sweepVars, dispatchVars,
                   now, hostVars, dbFaults, historyVars>>

\* Mutant: a duplicate is reported as created.
DuplicateCreated(w) ==
    /\ AtAction(w)
    /\ rowStatus[NextAction(w)] # "NONE"
    /\ created' = [created EXCEPT ![w] =
           Append(@, [action |-> NextAction(w), status |-> rowStatus[NextAction(w)]])]
    /\ cursor' = [cursor EXCEPT ![w] = @ + 1]
    /\ UNCHANGED <<packetVars, rowVars, pc, job, auto, snapshot, sweepVars,
                   dispatchVars, now, hostVars, dbFaults, historyVars>>

\* The row exists: the caller gets it back with created = false.
Duplicate(w) ==
    /\ AtAction(w)
    /\ rowStatus[NextAction(w)] # "NONE"
    /\ cursor' = [cursor EXCEPT ![w] = @ + 1]
    /\ UNCHANGED <<packetVars, rowVars, pc, job, auto, created, snapshot,
                   sweepVars, dispatchVars, now, hostVars, dbFaults, historyVars>>

\* updateDecisionPacket reads the packet without a lock ...
AuditRead(w) ==
    /\ AtEnd(w)
    /\ created[w] # <<>>
    /\ snapshot' = [snapshot EXCEPT ![w] =
           [approval |-> approval[job[w]], trail |-> trail[job[w]]]]
    /\ pc' = [pc EXCEPT ![w] = "write"]
    /\ UNCHANGED <<packetVars, rowVars, job, auto, cursor, created, sweepVars,
                   dispatchVars, now, hostVars, dbFaults, historyVars>>

\* ... and saves it whole: payload and approval_status of the snapshot.
AuditWrite(w) ==
    /\ pc[w] = "write"
    /\ approval' = [approval EXCEPT ![job[w]] = snapshot[w].approval]
    /\ trail' = [trail EXCEPT ![job[w]] = snapshot[w].trail \o created[w]]
    /\ Leave(w)
    /\ UNCHANGED <<rowVars, sweepVars, dispatchVars, now, hostVars, dbFaults,
                   historyVars>>

\* Every action was a duplicate: nothing to audit.
Finish(w) ==
    /\ AtEnd(w)
    /\ created[w] = <<>>
    /\ Leave(w)
    /\ UNCHANGED <<packetVars, rowVars, sweepVars, dispatchVars, now, hostVars,
                   dbFaults, historyVars>>

\* A store call of the request throws out of the route; an insert may have
\* taken effect first.
RequestFault(w) ==
    /\ dbFaults < MaxDbFaults
    /\ dbFaults' = dbFaults + 1
    /\ \/ pc[w] \in {"next", "write"} /\ UNCHANGED rowVars
       \/ InsertRow(w)
    /\ Leave(w)
    /\ UNCHANGED <<packetVars, sweepVars, dispatchVars, now, hostVars, historyVars>>

-----------------------------------------------------------------------------
(* The boot sweep: reconcileAllStrandedDispatches.                         *)

SweepList(s) ==
    /\ pc[s] = "list"
    /\ todo' = [todo EXCEPT ![s] = {p \in Packets : approval[p] = "APPROVED"}]
    /\ pc' = [pc EXCEPT ![s] = "sweep"]
    /\ UNCHANGED <<packetVars, rowVars, requestVars, strands, sweepNow,
                   dispatchVars, now, hostVars, dbFaults, historyVars>>

\* Mutant: any claim older than the sweep counts as stale.
StaleWithoutLease(a, t) == rowStatus[a] = "DISPATCHING" /\ requestedAt[a] < t
\* A claim strictly older than the cutoff t - Lease.
Stale(a, t) == rowStatus[a] = "DISPATCHING" /\ requestedAt[a] + Lease < t

\* A row the sweep re-drives: the packet still derives it, and it is reversible.
Redrivable(p, a) == a \in Reversible /\ \E i \in 1..Len(Derived[p]) : Derived[p][i] = a

SweepPacket(s, p) ==
    /\ pc[s] = "sweep"
    /\ strands[s] = {}
    /\ p \in todo[s]
    /\ todo' = [todo EXCEPT ![s] = @ \ {p}]
    /\ strands' = [strands EXCEPT ![s] =
           {a \in Actions : PacketOf[a] = p /\ Stale(a, now) /\ Redrivable(p, a)}]
    /\ sweepNow' = [sweepNow EXCEPT ![s] = now]
    /\ UNCHANGED <<packetVars, rowVars, pc, requestVars, dispatchVars, now,
                   hostVars, dbFaults, historyVars>>

\* Mutant: the compare-and-set leaves requestedAt alone.
ReclaimKeepsStamp(s, a) ==
    /\ pc[s] = "sweep"
    /\ a \in strands[s]
    /\ Stale(a, sweepNow[s])
    /\ strands' = [strands EXCEPT ![s] = @ \ {a}]
    /\ StartDispatch(s, a, sweepNow[s])
    /\ UNCHANGED <<packetVars, rowVars, requestVars, todo, sweepNow, now,
                   hostVars, dbFaults, calls, returned>>

\* reclaimForReconcile: the compare-and-set wins and the row is re-driven.
Reclaim(s, a) ==
    /\ pc[s] = "sweep"
    /\ a \in strands[s]
    /\ Stale(a, sweepNow[s])
    /\ requestedAt' = [requestedAt EXCEPT ![a] = sweepNow[s]]
    /\ strands' = [strands EXCEPT ![s] = @ \ {a}]
    /\ StartDispatch(s, a, sweepNow[s])
    /\ UNCHANGED <<packetVars, rowStatus, requestVars, todo, sweepNow, now,
                   hostVars, dbFaults, calls, returned>>

\* reclaimForReconcile matches no row: somebody else moved it.
ReclaimRaced(s, a) ==
    /\ pc[s] = "sweep"
    /\ a \in strands[s]
    /\ ~Stale(a, sweepNow[s])
    /\ strands' = [strands EXCEPT ![s] = @ \ {a}]
    /\ UNCHANGED <<packetVars, rowVars, pc, requestVars, todo, sweepNow,
                   dispatchVars, now, hostVars, dbFaults, historyVars>>

SweepDone(s) ==
    /\ pc[s] = "sweep"
    /\ strands[s] = {} /\ todo[s] = {}
    /\ pc' = [pc EXCEPT ![s] = "off"]
    /\ sweepNow' = [sweepNow EXCEPT ![s] = 0]
    /\ UNCHANGED <<packetVars, rowVars, requestVars, todo, strands, dispatchVars,
                   now, hostVars, dbFaults, historyVars>>

\* A store call of the sweep throws: listing the packets ends the sweep, anything
\* else the packet at hand.  A reclaim may have moved the row's lease first.
SweepFault(s) ==
    /\ dbFaults < MaxDbFaults
    /\ dbFaults' = dbFaults + 1
    /\ \/ /\ pc[s] = "list"
          /\ pc' = [pc EXCEPT ![s] = "off"]
          /\ UNCHANGED <<todo, strands, requestedAt>>
       \/ /\ pc[s] = "sweep"
          /\ strands[s] # {}
          /\ strands' = [strands EXCEPT ![s] = {}]
          /\ \/ UNCHANGED requestedAt
             \/ \E a \in strands[s] :
                   /\ Stale(a, sweepNow[s])
                   /\ requestedAt' = [requestedAt EXCEPT ![a] = sweepNow[s]]
          /\ UNCHANGED <<pc, todo>>
       \/ /\ pc[s] = "sweep"
          /\ strands[s] = {}
          /\ \E p \in todo[s] : todo' = [todo EXCEPT ![s] = @ \ {p}]
          /\ UNCHANGED <<pc, strands, requestedAt>>
    /\ UNCHANGED <<packetVars, rowStatus, requestVars, sweepNow, dispatchVars,
                   now, hostVars, historyVars>>

-----------------------------------------------------------------------------
(* The environment: the clock, and instances that crash and boot.          *)

Dispatching(w) == pc[w] \in {"deliver", "finalize"}

\* A dispatch never outlasts MaxDelivery (the transports' hard timeouts).
Tick ==
    /\ now < MaxNow
    /\ \A w \in Workers : Dispatching(w) => now < since[w] + MaxDelivery
    /\ now' = now + 1
    /\ UNCHANGED <<packetVars, rowVars, pc, requestVars, sweepVars, dispatchVars,
                   hostVars, dbFaults, historyVars>>

\* Every worker of the instance stops where it is; only the database remains.
\* No crash comes so late that the bound on the clock would forbid the reboot.
Crash(i) ==
    /\ i \in up
    /\ crashes < MaxCrashes
    /\ now + RestartDelay <= MaxNow
    /\ up' = up \ {i}
    /\ downSince' = [downSince EXCEPT ![i] = now]
    /\ crashes' = crashes + 1
    /\ LET gone(w) == HostOf[w] = i
       IN  /\ pc' = [w \in Workers |-> IF ~gone(w) THEN pc[w]
                                       ELSE IF w \in Sweepers THEN "down" ELSE "idle"]
           /\ job' = [w \in Requests |-> IF gone(w) THEN AnyPacket ELSE job[w]]
           /\ auto' = [w \in Requests |-> IF gone(w) THEN FALSE ELSE auto[w]]
           /\ cursor' = [w \in Requests |-> IF gone(w) THEN 1 ELSE cursor[w]]
           /\ created' = [w \in Requests |-> IF gone(w) THEN <<>> ELSE created[w]]
           /\ snapshot' = [w \in Requests |-> IF gone(w) THEN NoSnapshot ELSE snapshot[w]]
           /\ todo' = [w \in Sweepers |-> IF gone(w) THEN {} ELSE todo[w]]
           /\ strands' = [w \in Sweepers |-> IF gone(w) THEN {} ELSE strands[w]]
           /\ sweepNow' = [w \in Sweepers |-> IF gone(w) THEN 0 ELSE sweepNow[w]]
           /\ action' = [w \in Workers |-> IF gone(w) THEN AnyAction ELSE action[w]]
           /\ claim' = [w \in Workers |-> IF gone(w) THEN 0 ELSE claim[w]]
           /\ since' = [w \in Workers |-> IF gone(w) THEN 0 ELSE since[w]]
           /\ verdict' = [w \in Workers |-> IF gone(w) THEN "EXECUTED" ELSE verdict[w]]
    /\ UNCHANGED <<packetVars, rowVars, now, dbFaults, historyVars>>

\* Mutant: the boot path does not start the sweep.
BootWithoutSweep(i) ==
    /\ i \notin up
    /\ now >= downSince[i] + RestartDelay
    /\ up' = up \cup {i}
    /\ downSince' = [downSince EXCEPT ![i] = 0]
    /\ pc' = [w \in Workers |-> IF HostOf[w] = i /\ w \in Sweepers THEN "off" ELSE pc[w]]
    /\ UNCHANGED <<packetVars, rowVars, requestVars, sweepVars, dispatchVars, now,
                   crashes, dbFaults, historyVars>>

\* instrumentation.ts register(): the boot sweep starts.
Boot(i) ==
    /\ i \notin up
    /\ now >= downSince[i] + RestartDelay
    /\ up' = up \cup {i}
    /\ downSince' = [downSince EXCEPT ![i] = 0]
    /\ pc' = [w \in Workers |-> IF HostOf[w] = i /\ w \in Sweepers THEN "list" ELSE pc[w]]
    /\ UNCHANGED <<packetVars, rowVars, requestVars, sweepVars, dispatchVars, now,
                   crashes, dbFaults, historyVars>>

-----------------------------------------------------------------------------
RequestStep(w) ==
    \/ Reserve(w) \/ RecordNonDispatched(w) \/ Duplicate(w)
    \/ AuditRead(w) \/ AuditWrite(w) \/ Finish(w)

SweepStep(s) ==
    \/ SweepList(s) \/ SweepDone(s)
    \/ \E p \in Packets : SweepPacket(s, p)
    \/ \E a \in Actions : Reclaim(s, a) \/ ReclaimRaced(s, a)

Next ==
    \/ \E p \in Packets : Decide(p)
    \/ \E w \in Workers : Deliver(w) \/ Finalize(w) \/ FinalizeFault(w)
    \/ \E w \in Requests :
          \/ \E p \in Packets : Execute(w, p)
          \/ RequestStep(w)
          \/ RequestFault(w)
    \/ \E s \in Sweepers : SweepStep(s) \/ SweepFault(s)
    \/ Tick
    \/ \E i \in Instances : Crash(i) \/ Boot(i)

Spec == Init /\ [][Next]_vars

\* A started dispatch or sweep runs on, time passes, and a crashed instance is
\* booted again.  Nothing obliges a client to call the execute route.
Fairness ==
    /\ \A w \in Workers : WF_vars(Deliver(w)) /\ WF_vars(Finalize(w))
    /\ \A w \in Requests : WF_vars(RequestStep(w))
    /\ \A s \in Sweepers : WF_vars(SweepStep(s))
    /\ \A i \in Instances : WF_vars(Boot(i))
    /\ WF_vars(Tick)

FairSpec == Spec /\ Fairness

-----------------------------------------------------------------------------
(* Properties.                                                             *)

\* Every variable holds a value of its kind.
TypeStore ==
    /\ approval \in [Packets -> ApprovalStatus]
    /\ trail \in [Packets -> Seq(AuditEntry)]
    /\ rowStatus \in [Actions -> RowStatus]
    /\ requestedAt \in [Actions -> Nat]
TypePc ==
    /\ pc \in [Workers -> RequestPc \cup SweeperPc]
    /\ \A w \in Requests : pc[w] \in RequestPc
    /\ \A s \in Sweepers : pc[s] \in SweeperPc
TypeRequest ==
    /\ job \in [Requests -> Packets]
    /\ auto \in [Requests -> BOOLEAN]
    /\ cursor \in [Requests -> Nat \ {0}]
    /\ created \in [Requests -> Seq(AuditEntry)]
    /\ snapshot \in [Requests -> [approval: ApprovalStatus, trail: Seq(AuditEntry)]]
TypeSweep ==
    /\ todo \in [Sweepers -> SUBSET Packets]
    /\ strands \in [Sweepers -> SUBSET Actions]
    /\ sweepNow \in [Sweepers -> Nat]
TypeDispatch ==
    /\ action \in [Workers -> Actions]
    /\ claim \in [Workers -> Nat]
    /\ since \in [Workers -> Nat]
    /\ verdict \in [Workers -> Terminal]
TypeEnv ==
    /\ now \in Nat
    /\ up \subseteq Instances
    /\ downSince \in [Instances -> Nat]
    /\ crashes \in Nat
    /\ dbFaults \in Nat
TypeHistory ==
    /\ calls \in [Actions -> Nat]
    /\ claimTimes \in [Actions -> SUBSET Nat]
    /\ returned \subseteq Actions
TypeOK ==
    /\ TypeStore /\ TypePc /\ TypeRequest /\ TypeSweep
    /\ TypeDispatch /\ TypeEnv /\ TypeHistory

\* The governance moat: an outward action is never claimed nor handed to a
\* transport, whatever requests, sweeps, faults and reboots do; its row, if it
\* has one, waits for a human as PENDING (action-executor.ts:398-420, 642-659).
OutwardNeverDispatched ==
    \A a \in Actions \ Reversible :
        /\ rowStatus[a] \in {"NONE", "PENDING"}
        /\ calls[a] = 0

\* Only an approved packet's actions reach the outbox or a transport, although
\* requests and sweeps act on a packet snapshot they do not read again
\* (action-executor.ts:825-828, 595-598; the execute route:69-76).
OnlyApprovedExecutes ==
    \A a \in Actions :
        rowStatus[a] # "NONE" => approval[PacketOf[a]] = "APPROVED"

\* A human decision is final: the executor's unlocked read-modify-write of the
\* whole packet row never writes an older approval status over a newer one
\* (store.ts:332-339; the execute route:75 "there is no un-approve").
ApprovalForwardOnly ==
    [][\A p \in Packets : approval[p] # "PENDING" => approval'[p] = approval[p]]_vars

\* Each transport call of an action has a claim of its own, and two claims of
\* one row are more than a lease apart: repeated delivery needs a recovery
\* sweep, and recovery cannot come in bursts (reclaimForReconcile's
\* compare-and-set, action-executor.ts:332-350).  And a row says EXECUTED only if
\* a call of that action returned, also after retries by a sweep and failed store
\* calls.
CallsSpentClaims ==
    \A a \in Actions :
        /\ rowStatus[a] = "EXECUTED" => a \in returned
        /\ calls[a] <= Cardinality(claimTimes[a])
        /\ \A t, u \in claimTimes[a] : t < u => t + Lease < u

\* Of two workers dispatching one action, each holds a different claim, more
\* than a lease from the other's: one reservation never has two winners, and one
\* stale claim is never taken over by two sweeps.
OneDriverPerClaim ==
    \A v, w \in Workers :
        (v # w /\ Dispatching(v) /\ Dispatching(w) /\ action[v] = action[w])
            => (claim[v] + Lease < claim[w] \/ claim[w] + Lease < claim[v])

\* Over concurrent, failed and repeated execute calls, at most one run audits an
\* action on the packet's trail, once ("a re-run of an already-executed packet
\* does not duplicate audit-trail entries", action-executor.ts:881-882), and the
\* trail never speaks of an action that has no row, or of another packet's.
TrailIsSound ==
    \A p \in Packets : \A i, j \in 1..Len(trail[p]) :
        /\ trail[p][i].action = trail[p][j].action => i = j
        /\ PacketOf[trail[p][i].action] = p
        /\ rowStatus[trail[p][i].action] # "NONE"

\* The executor implements the contract of its header.
Drivers(a) == {w \in Workers : pc[w] = "deliver" /\ action[w] = a}
RecordOf(status) ==
    CASE status = "NONE" -> "none"
      [] status \in {"PENDING", "SKIPPED"} -> "held"
      [] status = "DISPATCHING" -> "claimed"
      [] status \in Terminal -> "settled"
AbstractRecord == [a \in Actions |-> RecordOf(rowStatus[a])]
OpenPermits == [a \in Actions |-> Cardinality(Drivers(a))]
Contract == INSTANCE GovernedOutbox
    WITH record <- AbstractRecord, permits <- OpenPermits
ImplementsContract == Contract!ContractSpec

\* A row left DISPATCHING with nobody dispatching it.
Stranded(a) ==
    /\ rowStatus[a] = "DISPATCHING"
    /\ \A w \in Workers : Dispatching(w) => action[w] # a

\* A stranded row is re-driven to a settled one, provided the next boot comes
\* later than a lease after the crash and the store does not fail.
StrandsRecovered == \A a \in Actions : Stranded(a) ~> ~Stranded(a)
=============================================================================
