------------------------ MODULE ActionExecutorProofs ------------------------
(***************************************************************************)
(* What holds of the executor for any packets, actions, instances,         *)
(* workers, lease and bounds, with crashes and failing stores: type        *)
(* correctness; a human decision comes first and is final, an outward      *)
(* action is never dispatched, and two workers never dispatch on one       *)
(* claim; each transport call spends a claim of its own, the packet's      *)
(* audit trail speaks of each executed action once, and the executor       *)
(* implements the contract of its header, GovernedOutbox.                  *)
(***************************************************************************)
EXTENDS ActionExecutor, FiniteSetTheorems, TLAPS

-----------------------------------------------------------------------------
(* Type correctness.                                                       *)

LEMMA AnyValuesType == AnyPacket \in Packets /\ AnyAction \in Actions
BY ConstantsAssumption DEF AnyPacket, AnyAction

LEMMA InitType == Init => TypeOK
BY AnyValuesType, ConstantsAssumption
   DEF Init, TypeOK, TypeStore, TypePc, TypeRequest, TypeSweep, TypeDispatch,
       TypeEnv, TypeHistory, Workers, NoSnapshot, ApprovalStatus, RowStatus, Terminal,
       RequestPc, SweeperPc, AuditEntry

\* A request's next action is one its packet derives, hence the packet's own.
LEMMA NextActionType ==
    ASSUME TypeOK, NEW w \in Requests, AtAction(w)
    PROVE  NextAction(w) \in Actions /\ PacketOf[NextAction(w)] = job[w]
<1>1. job[w] \in Packets /\ cursor[w] \in 1..Len(Derived[job[w]])
  BY ConstantsAssumption DEF TypeOK, TypeRequest, AtAction
<1>2. Derived[job[w]] \in Seq(Actions)
  BY <1>1, ConstantsAssumption
<1> QED
  BY <1>1, <1>2, ConstantsAssumption DEF NextAction

LEMMA EmptyType ==
    /\ <<>> \in Seq(AuditEntry)
    /\ NoSnapshot \in [approval: ApprovalStatus, trail: Seq(AuditEntry)]
BY DEF NoSnapshot, ApprovalStatus

LEMMA AppendEntryType ==
    ASSUME TypeRequest, NEW w \in Requests, NEW a \in Actions,
           NEW st \in Terminal \cup {"PENDING", "SKIPPED", "DISPATCHING"}
    PROVE  Append(created[w], [action |-> a, status |-> st]) \in Seq(AuditEntry)
<1>1. [action |-> a, status |-> st] \in AuditEntry
  BY DEF AuditEntry, RowStatus, Terminal
<1> QED
  BY <1>1 DEF TypeRequest

\* What a request leaves behind when it returns or throws is well typed.
LEMMA LeaveType ==
    ASSUME TypeRequest, NEW w \in Requests, Leave(w)
    PROVE  TypeRequest'
<1>1. /\ AnyPacket \in Packets
      /\ snapshot' = [snapshot EXCEPT ![w] = NoSnapshot]
      /\ created' = [created EXCEPT ![w] = <<>>]
  BY AnyValuesType DEF Leave
<1>2. created' \in [Requests -> Seq(AuditEntry)]
  BY <1>1, EmptyType DEF TypeRequest
<1>3. snapshot' \in [Requests -> [approval: ApprovalStatus, trail: Seq(AuditEntry)]]
  BY <1>1, EmptyType DEF TypeRequest
<1> QED
  BY <1>1, <1>2, <1>3 DEF TypeRequest, Leave

LEMMA TypeStep == TypeOK /\ [Next]_vars => TypeOK'
<1> SUFFICES ASSUME TypeOK, [Next]_vars PROVE TypeOK'
  OBVIOUS
<1>a. /\ AnyPacket \in Packets /\ AnyAction \in Actions
      /\ HostOf \in [Workers -> Instances]
      /\ Requests \cap Sweepers = {} /\ Lease \in Nat /\ AutoFlags \subseteq BOOLEAN
      /\ Requests \subseteq Workers /\ Sweepers \subseteq Workers
  BY AnyValuesType, ConstantsAssumption DEF Workers
<1> USE DEF TypeOK
<1>1. ASSUME NEW p \in Packets, Decide(p) PROVE TypeOK'
  <2>1. TypeStore'
    BY <1>1, <1>a DEF TypeStore, Decide, ApprovalStatus, packetVars, rowVars,
       requestVars, sweepVars, dispatchVars, hostVars, historyVars
  <2>2. TypePc' /\ TypeRequest' /\ TypeSweep' /\ TypeDispatch' /\ TypeEnv' /\ TypeHistory'
    BY <1>1 DEF TypePc, TypeRequest, TypeSweep, TypeDispatch, TypeEnv,
       TypeHistory, Decide, packetVars, rowVars, requestVars, sweepVars,
       dispatchVars, hostVars, historyVars
  <2> QED
    BY <2>1, <2>2 DEF TypeOK
<1>2. ASSUME NEW w \in Workers, Deliver(w) PROVE TypeOK'
  <2>1. TypePc'
    BY <1>2, <1>a DEF TypePc, Deliver, Workers, RequestPc, SweeperPc,
       packetVars, rowVars, requestVars, sweepVars, dispatchVars, hostVars,
       historyVars
  <2>2. TypeDispatch'
    BY <1>2, <1>a DEF TypeDispatch, Deliver, Terminal, packetVars, rowVars,
       requestVars, sweepVars, dispatchVars, hostVars, historyVars
  <2>3. TypeHistory'
    BY <1>2, <1>a DEF TypeHistory, TypeDispatch, Deliver, packetVars, rowVars,
       requestVars, sweepVars, dispatchVars, hostVars, historyVars
  <2>4. TypeStore' /\ TypeRequest' /\ TypeSweep' /\ TypeEnv'
    BY <1>2 DEF TypeStore, TypeRequest, TypeSweep, TypeEnv, Deliver, packetVars,
       rowVars, requestVars, sweepVars, dispatchVars, hostVars, historyVars
  <2> QED
    BY <2>1, <2>2, <2>3, <2>4 DEF TypeOK
<1>3. ASSUME NEW w \in Workers, Finalize(w) PROVE TypeOK'
  <2>1. TypeStore'
    BY <1>3, <1>a DEF TypeStore, TypeDispatch, Finalize, EndDispatch, Terminal,
       RowStatus, packetVars, rowVars, requestVars, sweepVars, dispatchVars,
       hostVars, historyVars
  <2>2. TypePc'
    BY <1>3, <1>a DEF TypePc, Finalize, EndDispatch, Workers, RequestPc,
       SweeperPc, packetVars, rowVars, requestVars, sweepVars, dispatchVars,
       hostVars, historyVars
  <2>3. TypeRequest'
    <3>1. CASE w \in Requests
      <4>1. Append(created[w], [action |-> action[w], status |-> verdict[w]])
                \in Seq(AuditEntry)
        BY <3>1, AppendEntryType DEF TypeDispatch
      <4>2. created' = [created EXCEPT ![w] =
                Append(@, [action |-> action[w], status |-> verdict[w]])]
        BY <1>3, <1>a, <3>1 DEF Finalize
      <4>3. created' \in [Requests -> Seq(AuditEntry)]
        BY <4>1, <4>2, <3>1 DEF TypeRequest
      <4>4. cursor' = [cursor EXCEPT ![w] = @ + 1] /\ UNCHANGED <<job, auto, snapshot>>
        BY <1>3, <1>a, <3>1 DEF Finalize
      <4> QED
        BY <3>1, <4>3, <4>4 DEF TypeRequest
    <3>2. CASE w \in Sweepers
      BY <1>3, <1>a, <3>2 DEF TypeRequest, Finalize
    <3> QED
      BY <3>1, <3>2 DEF Workers
  <2>4. TypeDispatch'
    BY <1>3, <1>a DEF TypeDispatch, Finalize, EndDispatch, Terminal, packetVars,
       rowVars, requestVars, sweepVars, dispatchVars, hostVars, historyVars
  <2>5. TypeSweep' /\ TypeEnv' /\ TypeHistory'
    BY <1>3 DEF TypeSweep, TypeEnv, TypeHistory, Finalize, EndDispatch,
       packetVars, rowVars, requestVars, sweepVars, dispatchVars, hostVars,
       historyVars
  <2> QED
    BY <2>1, <2>2, <2>3, <2>4, <2>5 DEF TypeOK
<1>4. ASSUME NEW w \in Workers, FinalizeFault(w) PROVE TypeOK'
  <2>1. TypeStore'
    <3>1. verdict[w] \in RowStatus
      BY DEF TypeDispatch, Terminal, RowStatus
    <3>2. \/ rowStatus' = rowStatus
          \/ rowStatus' = [rowStatus EXCEPT ![action[w]] = verdict[w]]
      BY <1>4 DEF FinalizeFault
    <3>3. rowStatus' \in [Actions -> RowStatus]
      BY <3>1, <3>2 DEF TypeStore
    <3>4. UNCHANGED <<approval, trail, requestedAt>>
      BY <1>4 DEF FinalizeFault, packetVars
    <3> QED
      BY <3>3, <3>4 DEF TypeStore
  <2>2. TypePc'
    BY <1>4, <1>a DEF TypePc, FinalizeFault, EndDispatch, Leave, Workers,
       RequestPc, SweeperPc, packetVars, rowVars, requestVars, sweepVars,
       dispatchVars, hostVars, historyVars
  <2>3. TypeRequest'
    BY <1>4, <1>a, LeaveType DEF TypeRequest, FinalizeFault, EndDispatch, Leave,
       packetVars, rowVars, requestVars, sweepVars, dispatchVars, hostVars,
       historyVars
  <2>4. TypeSweep'
    BY <1>4, <1>a DEF TypeSweep, FinalizeFault, EndDispatch, Leave, Workers,
       packetVars, rowVars, requestVars, sweepVars, dispatchVars, hostVars,
       historyVars
  <2>5. TypeDispatch'
    <3>1. CASE /\ verdict' = [verdict EXCEPT ![w] = "FAILED"]
               /\ UNCHANGED <<action, claim, since>>
      BY <3>1 DEF TypeDispatch, Terminal
    <3>2. CASE EndDispatch(w)
      BY <3>2, <1>a DEF TypeDispatch, EndDispatch, Terminal
    <3> QED
      BY <1>4, <3>1, <3>2 DEF FinalizeFault
  <2>6. TypeEnv'
    BY <1>4, <1>a DEF TypeEnv, FinalizeFault, EndDispatch, Leave, packetVars,
       rowVars, requestVars, sweepVars, dispatchVars, hostVars, historyVars
  <2>7. TypeHistory'
    BY <1>4 DEF TypeHistory, FinalizeFault, EndDispatch, Leave, packetVars,
       rowVars, requestVars, sweepVars, dispatchVars, hostVars, historyVars
  <2> QED
    BY <2>1, <2>2, <2>3, <2>4, <2>5, <2>6, <2>7 DEF TypeOK
<1>5. ASSUME NEW w \in Requests, NEW p \in Packets, Execute(w, p) PROVE TypeOK'
  <2>1. TypePc'
    BY <1>5, <1>a DEF TypePc, Execute, Workers, RequestPc, SweeperPc,
       packetVars, rowVars, requestVars, sweepVars, dispatchVars, hostVars,
       historyVars
  <2>2. TypeRequest'
    BY <1>5, <1>a DEF TypeRequest, Execute, packetVars, rowVars, requestVars,
       sweepVars, dispatchVars, hostVars, historyVars
  <2>3. TypeStore' /\ TypeSweep' /\ TypeDispatch' /\ TypeEnv' /\ TypeHistory'
    BY <1>5 DEF TypeStore, TypeSweep, TypeDispatch, TypeEnv, TypeHistory,
       Execute, packetVars, rowVars, requestVars, sweepVars, dispatchVars,
       hostVars, historyVars
  <2> QED
    BY <2>1, <2>2, <2>3 DEF TypeOK
<1>6. ASSUME NEW w \in Requests, Reserve(w) PROVE TypeOK'
  <2>1. TypeStore'
    BY <1>6, <1>a, NextActionType DEF TypeStore, TypeEnv, Reserve, InsertRow,
       InsertedStatus, StartDispatch, RowStatus, packetVars, rowVars,
       requestVars, sweepVars, dispatchVars, hostVars, historyVars
  <2>2. TypePc'
    BY <1>6, <1>a DEF TypePc, Reserve, InsertRow, InsertedStatus, StartDispatch,
       Workers, RequestPc, SweeperPc, packetVars, rowVars, requestVars,
       sweepVars, dispatchVars, hostVars, historyVars
  <2>3. TypeDispatch'
    BY <1>6, <1>a, NextActionType DEF TypeDispatch, TypeEnv, Reserve, InsertRow,
       InsertedStatus, StartDispatch, packetVars, rowVars, requestVars,
       sweepVars, dispatchVars, hostVars, historyVars
  <2>4. TypeHistory'
    BY <1>6, <1>a, NextActionType DEF TypeHistory, TypeEnv, Reserve, InsertRow,
       InsertedStatus, StartDispatch, packetVars, rowVars, requestVars,
       sweepVars, dispatchVars, hostVars, historyVars
  <2>5. TypeRequest' /\ TypeSweep' /\ TypeEnv'
    BY <1>6 DEF TypeRequest, TypeSweep, TypeEnv, Reserve, InsertRow,
       InsertedStatus, StartDispatch, packetVars, rowVars, requestVars,
       sweepVars, dispatchVars, hostVars, historyVars
  <2> QED
    BY <2>1, <2>2, <2>3, <2>4, <2>5 DEF TypeOK
<1>7. ASSUME NEW w \in Requests, RecordNonDispatched(w) PROVE TypeOK'
  <2>1. TypeStore'
    BY <1>7, <1>a, NextActionType DEF TypeStore, TypeEnv, RecordNonDispatched,
       InsertRow, InsertedStatus, RowStatus, packetVars, rowVars, requestVars,
       sweepVars, dispatchVars, hostVars, historyVars
  <2>2. TypeRequest'
    BY <1>7, <1>a, NextActionType, AppendEntryType DEF TypeRequest,
       RecordNonDispatched, InsertRow, InsertedStatus, RowStatus, packetVars,
       rowVars, requestVars, sweepVars, dispatchVars, hostVars, historyVars
  <2>3. TypePc' /\ TypeSweep' /\ TypeDispatch' /\ TypeEnv' /\ TypeHistory'
    BY <1>7 DEF TypePc, TypeSweep, TypeDispatch, TypeEnv, TypeHistory,
       RecordNonDispatched, InsertRow, InsertedStatus, packetVars, rowVars,
       requestVars, sweepVars, dispatchVars, hostVars, historyVars
  <2> QED
    BY <2>1, <2>2, <2>3 DEF TypeOK
<1>8. ASSUME NEW w \in Requests, Duplicate(w) PROVE TypeOK'
  <2>1. TypeRequest'
    BY <1>8, <1>a DEF TypeRequest, Duplicate, packetVars, rowVars, requestVars,
       sweepVars, dispatchVars, hostVars, historyVars
  <2>2. TypeStore' /\ TypePc' /\ TypeSweep' /\ TypeDispatch' /\ TypeEnv' /\ TypeHistory'
    BY <1>8 DEF TypeStore, TypePc, TypeSweep, TypeDispatch, TypeEnv,
       TypeHistory, Duplicate, packetVars, rowVars, requestVars, sweepVars,
       dispatchVars, hostVars, historyVars
  <2> QED
    BY <2>1, <2>2 DEF TypeOK
<1>9. ASSUME NEW w \in Requests, AuditRead(w) PROVE TypeOK'
  <2>1. TypePc'
    BY <1>9, <1>a DEF TypePc, AuditRead, Workers, RequestPc, SweeperPc,
       packetVars, rowVars, requestVars, sweepVars, dispatchVars, hostVars,
       historyVars
  <2>2. TypeRequest'
    BY <1>9, <1>a DEF TypeRequest, TypeStore, AuditRead, packetVars, rowVars,
       requestVars, sweepVars, dispatchVars, hostVars, historyVars
  <2>3. TypeStore' /\ TypeSweep' /\ TypeDispatch' /\ TypeEnv' /\ TypeHistory'
    BY <1>9 DEF TypeStore, TypeSweep, TypeDispatch, TypeEnv, TypeHistory,
       AuditRead, packetVars, rowVars, requestVars, sweepVars, dispatchVars,
       hostVars, historyVars
  <2> QED
    BY <2>1, <2>2, <2>3 DEF TypeOK
<1>10. ASSUME NEW w \in Requests, AuditWrite(w) PROVE TypeOK'
  <2>1. TypeStore'
    BY <1>10, <1>a DEF TypeStore, TypeRequest, AuditWrite, Leave, packetVars,
       rowVars, requestVars, sweepVars, dispatchVars, hostVars, historyVars
  <2>2. TypePc'
    BY <1>10, <1>a DEF TypePc, AuditWrite, Leave, Workers, RequestPc, SweeperPc,
       packetVars, rowVars, requestVars, sweepVars, dispatchVars, hostVars,
       historyVars
  <2>3. TypeRequest'
    BY <1>10, <1>a, LeaveType DEF TypeRequest, AuditWrite, Leave, packetVars,
       rowVars, requestVars, sweepVars, dispatchVars, hostVars, historyVars
  <2>4. TypeSweep' /\ TypeDispatch' /\ TypeEnv' /\ TypeHistory'
    BY <1>10 DEF TypeSweep, TypeDispatch, TypeEnv, TypeHistory, AuditWrite, Leave,
       packetVars, rowVars, requestVars, sweepVars, dispatchVars, hostVars,
       historyVars
  <2> QED
    BY <2>1, <2>2, <2>3, <2>4 DEF TypeOK
<1>11. ASSUME NEW w \in Requests, Finish(w) PROVE TypeOK'
  <2>1. TypePc'
    BY <1>11, <1>a DEF TypePc, Finish, Leave, Workers, RequestPc, SweeperPc,
       packetVars, rowVars, requestVars, sweepVars, dispatchVars, hostVars,
       historyVars
  <2>2. TypeRequest'
    BY <1>11, <1>a, LeaveType DEF TypeRequest, Finish, Leave, packetVars,
       rowVars, requestVars, sweepVars, dispatchVars, hostVars, historyVars
  <2>3. TypeStore' /\ TypeSweep' /\ TypeDispatch' /\ TypeEnv' /\ TypeHistory'
    BY <1>11 DEF TypeStore, TypeSweep, TypeDispatch, TypeEnv, TypeHistory,
       Finish, Leave, packetVars, rowVars, requestVars, sweepVars, dispatchVars,
       hostVars, historyVars
  <2> QED
    BY <2>1, <2>2, <2>3 DEF TypeOK
<1>12. ASSUME NEW w \in Requests, RequestFault(w) PROVE TypeOK'
  <2>1. TypeStore'
    <3>1. CASE UNCHANGED rowVars
      BY <1>12, <3>1 DEF TypeStore, RequestFault, packetVars, rowVars
    <3>2. CASE InsertRow(w)
      <4>1. NextAction(w) \in Actions /\ now \in Nat /\ InsertedStatus(w) \in RowStatus
        BY <3>2, NextActionType DEF InsertRow, TypeEnv, InsertedStatus, RowStatus
      <4>2. UNCHANGED <<approval, trail>>
        BY <1>12 DEF RequestFault, packetVars
      <4> QED
        BY <3>2, <4>1, <4>2 DEF TypeStore, InsertRow
    <3> QED
      BY <1>12, <3>1, <3>2 DEF RequestFault
  <2>2. TypePc'
    BY <1>12, <1>a DEF TypePc, RequestFault, InsertRow, InsertedStatus, Leave,
       Workers, RequestPc, SweeperPc, packetVars, rowVars, requestVars,
       sweepVars, dispatchVars, hostVars, historyVars
  <2>3. TypeRequest'
    BY <1>12, <1>a, LeaveType DEF TypeRequest, RequestFault, InsertRow,
       InsertedStatus, Leave, packetVars, rowVars, requestVars, sweepVars,
       dispatchVars, hostVars, historyVars
  <2>4. TypeEnv'
    BY <1>12, <1>a DEF TypeEnv, RequestFault, InsertRow, InsertedStatus, Leave,
       packetVars, rowVars, requestVars, sweepVars, dispatchVars, hostVars,
       historyVars
  <2>5. TypeSweep' /\ TypeDispatch' /\ TypeHistory'
    BY <1>12 DEF TypeSweep, TypeDispatch, TypeHistory, RequestFault, InsertRow,
       InsertedStatus, Leave, packetVars, rowVars, requestVars, sweepVars,
       dispatchVars, hostVars, historyVars
  <2> QED
    BY <2>1, <2>2, <2>3, <2>4, <2>5 DEF TypeOK
<1>13. ASSUME NEW s \in Sweepers, SweepList(s) PROVE TypeOK'
  <2>1. TypePc'
    BY <1>13, <1>a DEF TypePc, SweepList, Workers, RequestPc, SweeperPc,
       packetVars, rowVars, requestVars, sweepVars, dispatchVars, hostVars,
       historyVars
  <2>2. TypeSweep'
    BY <1>13, <1>a DEF TypeSweep, SweepList, packetVars, rowVars, requestVars,
       sweepVars, dispatchVars, hostVars, historyVars
  <2>3. TypeStore' /\ TypeRequest' /\ TypeDispatch' /\ TypeEnv' /\ TypeHistory'
    BY <1>13 DEF TypeStore, TypeRequest, TypeDispatch, TypeEnv, TypeHistory,
       SweepList, packetVars, rowVars, requestVars, sweepVars, dispatchVars,
       hostVars, historyVars
  <2> QED
    BY <2>1, <2>2, <2>3 DEF TypeOK
<1>14. ASSUME NEW s \in Sweepers, SweepDone(s) PROVE TypeOK'
  <2>1. TypePc'
    BY <1>14, <1>a DEF TypePc, SweepDone, Workers, RequestPc, SweeperPc,
       packetVars, rowVars, requestVars, sweepVars, dispatchVars, hostVars,
       historyVars
  <2>2. TypeSweep'
    BY <1>14, <1>a DEF TypeSweep, SweepDone, packetVars, rowVars, requestVars,
       sweepVars, dispatchVars, hostVars, historyVars
  <2>3. TypeStore' /\ TypeRequest' /\ TypeDispatch' /\ TypeEnv' /\ TypeHistory'
    BY <1>14 DEF TypeStore, TypeRequest, TypeDispatch, TypeEnv, TypeHistory,
       SweepDone, packetVars, rowVars, requestVars, sweepVars, dispatchVars,
       hostVars, historyVars
  <2> QED
    BY <2>1, <2>2, <2>3 DEF TypeOK
<1>15. ASSUME NEW s \in Sweepers, NEW p \in Packets, SweepPacket(s, p) PROVE TypeOK'
  <2>1. TypeSweep'
    BY <1>15, <1>a DEF TypeSweep, TypeEnv, SweepPacket, packetVars, rowVars,
       requestVars, sweepVars, dispatchVars, hostVars, historyVars
  <2>2. TypeStore' /\ TypePc' /\ TypeRequest' /\ TypeDispatch' /\ TypeEnv' /\ TypeHistory'
    BY <1>15 DEF TypeStore, TypePc, TypeRequest, TypeDispatch, TypeEnv,
       TypeHistory, SweepPacket, packetVars, rowVars, requestVars, sweepVars,
       dispatchVars, hostVars, historyVars
  <2> QED
    BY <2>1, <2>2 DEF TypeOK
<1>16. ASSUME NEW s \in Sweepers, NEW a \in Actions, Reclaim(s, a) PROVE TypeOK'
  <2>1. TypeStore'
    BY <1>16, <1>a DEF TypeStore, TypeSweep, Reclaim, StartDispatch, packetVars,
       rowVars, requestVars, sweepVars, dispatchVars, hostVars, historyVars
  <2>2. TypePc'
    BY <1>16, <1>a DEF TypePc, Reclaim, StartDispatch, Workers, RequestPc,
       SweeperPc, packetVars, rowVars, requestVars, sweepVars, dispatchVars,
       hostVars, historyVars
  <2>3. TypeSweep'
    BY <1>16, <1>a DEF TypeSweep, Reclaim, StartDispatch, packetVars, rowVars,
       requestVars, sweepVars, dispatchVars, hostVars, historyVars
  <2>4. TypeDispatch'
    BY <1>16, <1>a DEF TypeDispatch, TypeSweep, TypeEnv, Reclaim, StartDispatch,
       packetVars, rowVars, requestVars, sweepVars, dispatchVars, hostVars,
       historyVars
  <2>5. TypeHistory'
    BY <1>16, <1>a DEF TypeHistory, TypeSweep, Reclaim, StartDispatch,
       packetVars, rowVars, requestVars, sweepVars, dispatchVars, hostVars,
       historyVars
  <2>6. TypeRequest' /\ TypeEnv'
    BY <1>16 DEF TypeRequest, TypeEnv, Reclaim, StartDispatch, packetVars,
       rowVars, requestVars, sweepVars, dispatchVars, hostVars, historyVars
  <2> QED
    BY <2>1, <2>2, <2>3, <2>4, <2>5, <2>6 DEF TypeOK
<1>17. ASSUME NEW s \in Sweepers, NEW a \in Actions, ReclaimRaced(s, a) PROVE TypeOK'
  <2>1. TypeSweep'
    BY <1>17, <1>a DEF TypeSweep, ReclaimRaced, packetVars, rowVars,
       requestVars, sweepVars, dispatchVars, hostVars, historyVars
  <2>2. TypeStore' /\ TypePc' /\ TypeRequest' /\ TypeDispatch' /\ TypeEnv' /\ TypeHistory'
    BY <1>17 DEF TypeStore, TypePc, TypeRequest, TypeDispatch, TypeEnv,
       TypeHistory, ReclaimRaced, packetVars, rowVars, requestVars, sweepVars,
       dispatchVars, hostVars, historyVars
  <2> QED
    BY <2>1, <2>2 DEF TypeOK
<1>18. ASSUME NEW s \in Sweepers, SweepFault(s) PROVE TypeOK'
  <2>1. TypePc'
    BY <1>18, <1>a DEF TypePc, SweepFault, Workers, RequestPc, SweeperPc,
       packetVars, rowVars, requestVars, sweepVars, dispatchVars, hostVars,
       historyVars
  <2>2. TypeSweep'
    BY <1>18, <1>a DEF TypeSweep, SweepFault, packetVars, rowVars, requestVars,
       sweepVars, dispatchVars, hostVars, historyVars
  <2>3. TypeEnv'
    BY <1>18, <1>a DEF TypeEnv, SweepFault, packetVars, rowVars, requestVars,
       sweepVars, dispatchVars, hostVars, historyVars
  <2>4. TypeRequest' /\ TypeDispatch' /\ TypeHistory'
    BY <1>18 DEF TypeRequest, TypeDispatch, TypeHistory, SweepFault,
       packetVars, rowVars, requestVars, sweepVars, dispatchVars, hostVars,
       historyVars
  <2>5. TypeStore'
    <3>1. \/ requestedAt' = requestedAt
          \/ \E a \in strands[s] : requestedAt' = [requestedAt EXCEPT ![a] = sweepNow[s]]
      BY <1>18 DEF SweepFault
    <3>2. requestedAt' \in [Actions -> Nat]
      BY <3>1 DEF TypeStore, TypeSweep
    <3>3. UNCHANGED <<approval, trail, rowStatus>>
      BY <1>18 DEF SweepFault, packetVars
    <3> QED
      BY <3>2, <3>3 DEF TypeStore
  <2> QED
    BY <2>1, <2>2, <2>3, <2>4, <2>5 DEF TypeOK
<1>19. CASE Tick
  <2>1. TypeEnv'
    BY <1>19, <1>a DEF TypeEnv, Tick, packetVars, rowVars, requestVars,
       sweepVars, dispatchVars, hostVars, historyVars
  <2>2. TypeStore' /\ TypePc' /\ TypeRequest' /\ TypeSweep' /\ TypeDispatch' /\ TypeHistory'
    BY <1>19 DEF TypeStore, TypePc, TypeRequest, TypeSweep, TypeDispatch,
       TypeHistory, Tick, packetVars, rowVars, requestVars, sweepVars,
       dispatchVars, hostVars, historyVars
  <2> QED
    BY <2>1, <2>2 DEF TypeOK
<1>20. ASSUME NEW i \in Instances, Crash(i) PROVE TypeOK'
  <2>1. TypePc'
    BY <1>20, <1>a DEF TypePc, Crash, Workers, RequestPc, SweeperPc, packetVars,
       rowVars, requestVars, sweepVars, dispatchVars, hostVars, historyVars
  <2>2. TypeRequest'
    <3>1. /\ job' = [w \in Requests |-> IF HostOf[w] = i THEN AnyPacket ELSE job[w]]
          /\ auto' = [w \in Requests |-> IF HostOf[w] = i THEN FALSE ELSE auto[w]]
          /\ cursor' = [w \in Requests |-> IF HostOf[w] = i THEN 1 ELSE cursor[w]]
      BY <1>20 DEF Crash
    <3>4. job' \in [Requests -> Packets] /\ cursor' \in [Requests -> Nat \ {0}]
      BY <3>1, <1>a DEF TypeRequest
    <3>5. auto' \in [Requests -> BOOLEAN]
      BY <3>1, Zenon DEF TypeRequest
    <3>2. created' \in [Requests -> Seq(AuditEntry)]
      BY <1>20, EmptyType DEF TypeRequest, Crash
    <3>3. snapshot' \in [Requests -> [approval: ApprovalStatus, trail: Seq(AuditEntry)]]
      BY <1>20, EmptyType DEF TypeRequest, Crash
    <3> QED
      BY <3>2, <3>3, <3>4, <3>5 DEF TypeRequest
  <2>3. TypeSweep'
    BY <1>20, <1>a DEF TypeSweep, Crash, packetVars, rowVars, requestVars,
       sweepVars, dispatchVars, hostVars, historyVars
  <2>4. TypeDispatch'
    BY <1>20, <1>a DEF TypeDispatch, Crash, Terminal, packetVars, rowVars,
       requestVars, sweepVars, dispatchVars, hostVars, historyVars
  <2>5. TypeEnv'
    BY <1>20, <1>a DEF TypeEnv, Crash, packetVars, rowVars, requestVars,
       sweepVars, dispatchVars, hostVars, historyVars
  <2>6. TypeStore' /\ TypeHistory'
    BY <1>20 DEF TypeStore, TypeHistory, Crash, packetVars, rowVars,
       requestVars, sweepVars, dispatchVars, hostVars, historyVars
  <2> QED
    BY <2>1, <2>2, <2>3, <2>4, <2>5, <2>6 DEF TypeOK
<1>21. ASSUME NEW i \in Instances, Boot(i) PROVE TypeOK'
  <2>1. TypePc'
    BY <1>21, <1>a DEF TypePc, Boot, Workers, RequestPc, SweeperPc, packetVars,
       rowVars, requestVars, sweepVars, dispatchVars, hostVars, historyVars
  <2>2. TypeEnv'
    BY <1>21, <1>a DEF TypeEnv, Boot, packetVars, rowVars, requestVars,
       sweepVars, dispatchVars, hostVars, historyVars
  <2>3. TypeStore' /\ TypeRequest' /\ TypeSweep' /\ TypeDispatch' /\ TypeHistory'
    BY <1>21 DEF TypeStore, TypeRequest, TypeSweep, TypeDispatch, TypeHistory,
       Boot, packetVars, rowVars, requestVars, sweepVars, dispatchVars,
       hostVars, historyVars
  <2> QED
    BY <2>1, <2>2, <2>3 DEF TypeOK
<1>22. CASE UNCHANGED vars
  BY <1>22 DEF vars, TypeOK, TypeStore, TypePc, TypeRequest, TypeSweep,
     TypeDispatch, TypeEnv, TypeHistory, packetVars, rowVars, requestVars,
     sweepVars, dispatchVars, hostVars, historyVars
<1> QED
  BY <1>1, <1>2, <1>3, <1>4, <1>5, <1>6, <1>7, <1>8, <1>9, <1>10, <1>11, <1>12,
     <1>13, <1>14, <1>15, <1>16, <1>17, <1>18, <1>19, <1>20, <1>21, <1>22 DEF
     Next, RequestStep, SweepStep

\* Every reachable state is well typed, whatever the constants.
THEOREM TypeCorrect == Spec => []TypeOK
<1>1. Init => TypeOK
  BY InitType
<1>2. TypeOK /\ [Next]_vars => TypeOK'
  BY TypeStep
<1> QED
  BY <1>1, <1>2, PTL DEF Spec

\* Facts about the constants that the steps below use.
LEMMA WorkerFacts ==
    /\ Workers = Requests \cup Sweepers /\ Requests \cap Sweepers = {}
    /\ HostOf \in [Workers -> Instances] /\ PacketOf \in [Actions -> Packets]
    /\ Lease \in Nat
BY ConstantsAssumption DEF Workers

-----------------------------------------------------------------------------
(* A human decision comes first, and is final.                             *)
(*                                                                         *)
(* The strengthening says what a worker knows: a running request's packet  *)
(* was approved when it started and no step revokes an approval, the       *)
(* snapshot it will write back was read after that, and whoever dispatches *)
(* an action claimed a row of it.                                          *)

ApprovedInv ==
    /\ OnlyApprovedExecutes
    /\ \A w \in Requests : pc[w] # "idle" => approval[job[w]] = "APPROVED"
    /\ \A w \in Requests : pc[w] = "write" => snapshot[w].approval = "APPROVED"
    /\ \A w \in Workers : Dispatching(w) => rowStatus[action[w]] # "NONE"

\* No decided packet changes its status in this step.
Forward == \A p \in Packets : approval[p] # "PENDING" => approval'[p] = approval[p]

LEMMA ApprovedInit == Init => ApprovedInv
BY WorkerFacts DEF Init, ApprovedInv, OnlyApprovedExecutes, Dispatching

\* A step that neither decides a packet, nor adds or removes a row, nor starts a
\* request, a write or a dispatch.
LEMMA ApprovedQuiet ==
    ASSUME ApprovedInv, UNCHANGED approval,
           \A a \in Actions : rowStatus'[a] = "NONE" <=> rowStatus[a] = "NONE",
           \A w \in Workers : Dispatching(w)' =>
              Dispatching(w) /\ action'[w] = action[w] /\ action[w] \in Actions,
           \A w \in Requests :
              /\ pc'[w] # "idle" => pc[w] # "idle" /\ job'[w] = job[w]
              /\ pc'[w] = "write" => pc[w] = "write" /\ snapshot'[w] = snapshot[w]
    PROVE  ApprovedInv' /\ Forward
BY DEF ApprovedInv, OnlyApprovedExecutes, Forward

\* A step that inserts the row of a running request's next action.
LEMMA ApprovedInsert ==
    ASSUME TypeOK, ApprovedInv, NEW w \in Requests, InsertRow(w)
    PROVE  /\ approval[PacketOf[NextAction(w)]] = "APPROVED"
           /\ \A a \in Actions : rowStatus'[a] # "NONE" =>
                 rowStatus[a] # "NONE" \/ a = NextAction(w)
           /\ \A a \in Actions : rowStatus[a] # "NONE" => rowStatus'[a] # "NONE"
           /\ rowStatus'[NextAction(w)] # "NONE"
<1>1. NextAction(w) \in Actions /\ PacketOf[NextAction(w)] = job[w] /\ pc[w] = "next"
  BY NextActionType DEF InsertRow, AtAction
<1>2. InsertedStatus(w) # "NONE"
  BY DEF InsertedStatus
<1>3. rowStatus' = [rowStatus EXCEPT ![NextAction(w)] = InsertedStatus(w)]
  BY DEF InsertRow
<1> QED
  BY <1>1, <1>2, <1>3 DEF ApprovedInv, TypeOK, TypeStore

LEMMA ApprovedStep == TypeOK /\ ApprovedInv /\ [Next]_vars => ApprovedInv' /\ Forward
<1> SUFFICES ASSUME TypeOK, ApprovedInv, [Next]_vars PROVE ApprovedInv' /\ Forward
  OBVIOUS
<1>a. TypePc /\ TypeStore /\ TypeRequest /\ TypeDispatch
  BY DEF TypeOK
<1>1. ASSUME NEW p \in Packets, Decide(p) PROVE ApprovedInv' /\ Forward
  <2>1. Forward
    BY <1>1, <1>a DEF Forward, Decide, TypeStore
  <2>2. UNCHANGED <<rowStatus, pc, job, snapshot, action>>
    BY <1>1 DEF Decide, rowVars, requestVars, dispatchVars
  <2> QED
    BY <2>1, <2>2, <1>a, WorkerFacts
       DEF Forward, ApprovedInv, OnlyApprovedExecutes, TypeRequest, Dispatching
<1>2. ASSUME NEW w \in Workers, Deliver(w) PROVE ApprovedInv' /\ Forward
  <2>1. UNCHANGED <<approval, rowStatus, job, snapshot, action>>
    BY <1>2 DEF Deliver, packetVars, rowVars, requestVars
  <2>2. pc[w] = "deliver" /\ pc' = [pc EXCEPT ![w] = "finalize"]
    BY <1>2 DEF Deliver
  <2> QED
    BY <2>1, <2>2, <1>a, WorkerFacts, ApprovedQuiet DEF TypePc, TypeDispatch, Dispatching
<1>3. ASSUME NEW w \in Workers, Finalize(w) PROVE ApprovedInv' /\ Forward
  <2>1. UNCHANGED <<approval, job, snapshot>> /\ pc[w] = "finalize"
    BY <1>3 DEF Finalize, packetVars
  <2>2. \/ pc' = [pc EXCEPT ![w] = "next"]
        \/ w \in Sweepers /\ pc' = [pc EXCEPT ![w] = "sweep"]
    BY <1>3 DEF Finalize
  <2>3. action' = [action EXCEPT ![w] = AnyAction]
    BY <1>3 DEF Finalize, EndDispatch
  <2>4. rowStatus' = [rowStatus EXCEPT ![action[w]] = verdict[w]]
    BY <1>3 DEF Finalize
  <2>5. \A a \in Actions : rowStatus'[a] = "NONE" <=> rowStatus[a] = "NONE"
    BY <2>1, <2>4, <1>a
       DEF ApprovedInv, Dispatching, TypeStore, TypeDispatch, Terminal
  <2> QED
    BY <2>1, <2>2, <2>3, <2>5, <1>a, WorkerFacts, ApprovedQuiet
       DEF TypePc, TypeDispatch, Dispatching
<1>4. ASSUME NEW w \in Workers, FinalizeFault(w) PROVE ApprovedInv' /\ Forward
  <2>1. UNCHANGED approval /\ pc[w] = "finalize"
    BY <1>4 DEF FinalizeFault, packetVars
  <2>2. rowStatus' = rowStatus \/ rowStatus' = [rowStatus EXCEPT ![action[w]] = verdict[w]]
    BY <1>4 DEF FinalizeFault
  <2>3. \A a \in Actions : rowStatus'[a] = "NONE" <=> rowStatus[a] = "NONE"
    BY <2>1, <2>2, <1>a
       DEF ApprovedInv, Dispatching, TypeStore, TypeDispatch, Terminal
  <2>4. CASE UNCHANGED <<pc, action, requestVars>>
    BY <2>1, <2>3, <2>4, <1>a, WorkerFacts, ApprovedQuiet
       DEF TypeDispatch, Dispatching, requestVars
  <2>5. CASE EndDispatch(w) /\ w \in Requests /\ Leave(w)
    BY <2>1, <2>3, <2>5, <1>a, WorkerFacts, ApprovedQuiet
       DEF TypePc, TypeDispatch, TypeRequest, Dispatching, EndDispatch, Leave
  <2>6. CASE /\ EndDispatch(w) /\ w \in Sweepers
             /\ pc' = [pc EXCEPT ![w] = "sweep"] /\ UNCHANGED requestVars
    BY <2>1, <2>3, <2>6, <1>a, WorkerFacts, ApprovedQuiet
       DEF TypePc, TypeDispatch, Dispatching, EndDispatch, requestVars
  <2> QED
    BY <1>4, <2>4, <2>5, <2>6 DEF FinalizeFault
<1>5. ASSUME NEW w \in Requests, NEW p \in Packets, Execute(w, p)
      PROVE  ApprovedInv' /\ Forward
  <2>1. UNCHANGED <<approval, rowStatus, snapshot, action>>
    BY <1>5 DEF Execute, packetVars, rowVars, dispatchVars
  <2>2. /\ approval[p] = "APPROVED"
        /\ pc' = [pc EXCEPT ![w] = "next"] /\ job' = [job EXCEPT ![w] = p]
    BY <1>5 DEF Execute
  <2>3. \A v \in Requests : pc'[v] # "idle" => approval'[job'[v]] = "APPROVED"
    BY <2>1, <2>2, <1>a, WorkerFacts DEF TypePc, TypeRequest, ApprovedInv
  <2>4. \A v \in Requests : pc'[v] = "write" => snapshot'[v].approval = "APPROVED"
    BY <2>1, <2>2, <1>a, WorkerFacts DEF TypePc, ApprovedInv
  <2>5. \A v \in Workers : Dispatching(v)' => rowStatus'[action'[v]] # "NONE"
    BY <2>1, <2>2, <1>a, WorkerFacts DEF TypePc, ApprovedInv, Dispatching
  <2> QED
    BY <2>1, <2>3, <2>4, <2>5 DEF ApprovedInv, OnlyApprovedExecutes, Forward
<1>6. ASSUME NEW w \in Requests, Reserve(w) PROVE ApprovedInv' /\ Forward
  <2>1. InsertRow(w) /\ UNCHANGED <<approval, job, snapshot>>
    BY <1>6 DEF Reserve, packetVars, requestVars
  <2>2. pc' = [pc EXCEPT ![w] = "deliver"] /\ action' = [action EXCEPT ![w] = NextAction(w)]
    BY <1>6 DEF Reserve, StartDispatch
  <2>3. pc[w] = "next" /\ NextAction(w) \in Actions
    BY <2>1, NextActionType DEF InsertRow, AtAction
  <2>4. \A v \in Workers : Dispatching(v)' => rowStatus'[action'[v]] # "NONE"
    BY <2>1, <2>2, <2>3, <1>a, WorkerFacts, ApprovedInsert
       DEF ApprovedInv, Dispatching, TypePc, TypeDispatch
  <2>5. \A v \in Requests :
           /\ pc'[v] # "idle" => pc[v] # "idle"
           /\ pc'[v] = "write" => pc[v] = "write"
    BY <2>2, <2>3, <1>a, WorkerFacts DEF TypePc
  <2> QED
    BY <2>1, <2>4, <2>5, ApprovedInsert DEF ApprovedInv, OnlyApprovedExecutes, Forward
<1>7. ASSUME NEW w \in Requests, RecordNonDispatched(w) PROVE ApprovedInv' /\ Forward
  <2>1. InsertRow(w) /\ UNCHANGED <<approval, pc, job, snapshot, action>>
    BY <1>7 DEF RecordNonDispatched, packetVars, dispatchVars
  <2> QED
    BY <2>1, <1>a, ApprovedInsert
       DEF ApprovedInv, OnlyApprovedExecutes, Forward, Dispatching, TypeDispatch
<1>8. ASSUME NEW w \in Requests, Duplicate(w) PROVE ApprovedInv' /\ Forward
  <2>1. UNCHANGED <<approval, rowStatus, pc, job, snapshot, action>>
    BY <1>8 DEF Duplicate, packetVars, rowVars, dispatchVars
  <2> QED
    BY <2>1, <1>a, ApprovedQuiet DEF TypeDispatch, Dispatching
<1>9. ASSUME NEW w \in Requests, AuditRead(w) PROVE ApprovedInv' /\ Forward
  <2>1. UNCHANGED <<approval, rowStatus, job, action>>
    BY <1>9 DEF AuditRead, packetVars, rowVars, dispatchVars
  <2>2. pc[w] = "next" /\ pc' = [pc EXCEPT ![w] = "write"]
    BY <1>9 DEF AuditRead, AtEnd
  <2>3. snapshot' = [snapshot EXCEPT ![w] =
                       [approval |-> approval[job[w]], trail |-> trail[job[w]]]]
    BY <1>9 DEF AuditRead
  <2>4. \A v \in Requests : pc'[v] = "write" => snapshot'[v].approval = "APPROVED"
    BY <2>2, <2>3, <1>a, WorkerFacts DEF TypePc, TypeRequest, ApprovedInv
  <2>5. \A v \in Workers : Dispatching(v)' => Dispatching(v)
    BY <2>2, <1>a, WorkerFacts DEF TypePc, Dispatching
  <2>6. \A v \in Requests : pc'[v] # "idle" => pc[v] # "idle"
    BY <2>2, <1>a, WorkerFacts DEF TypePc
  <2> QED
    BY <2>1, <2>4, <2>5, <2>6 DEF ApprovedInv, OnlyApprovedExecutes, Forward
<1>10. ASSUME NEW w \in Requests, AuditWrite(w) PROVE ApprovedInv' /\ Forward
  <2>1. /\ approval' = [approval EXCEPT ![job[w]] = snapshot[w].approval]
        /\ pc[w] = "write"
        /\ UNCHANGED <<rowStatus, action>>
    BY <1>10 DEF AuditWrite, rowVars, dispatchVars
  <2>2. approval' = approval
    BY <2>1, <1>a DEF ApprovedInv, TypeStore
  <2>3. /\ pc' = [pc EXCEPT ![w] = "idle"] /\ job' = [job EXCEPT ![w] = AnyPacket]
        /\ snapshot' = [snapshot EXCEPT ![w] = NoSnapshot]
    BY <1>10 DEF AuditWrite, Leave
  <2> QED
    BY <2>1, <2>2, <2>3, <1>a, WorkerFacts, ApprovedQuiet
       DEF TypePc, TypeRequest, TypeDispatch, Dispatching
<1>11. ASSUME NEW w \in Requests, Finish(w) PROVE ApprovedInv' /\ Forward
  <2>1. UNCHANGED <<approval, rowStatus, action>>
    BY <1>11 DEF Finish, packetVars, rowVars, dispatchVars
  <2>2. Leave(w)
    BY <1>11 DEF Finish
  <2> QED
    BY <2>1, <2>2, <1>a, WorkerFacts, ApprovedQuiet
       DEF TypePc, TypeRequest, TypeDispatch, Dispatching, Leave
<1>12. ASSUME NEW w \in Requests, RequestFault(w) PROVE ApprovedInv' /\ Forward
  <2>1. UNCHANGED <<approval, action>> /\ Leave(w)
    BY <1>12 DEF RequestFault, packetVars, dispatchVars
  <2>2. \A v \in Requests :
           /\ pc'[v] # "idle" => pc[v] # "idle" /\ job'[v] = job[v]
           /\ pc'[v] = "write" => pc[v] = "write" /\ snapshot'[v] = snapshot[v]
    BY <2>1, <1>a, WorkerFacts DEF TypePc, TypeRequest, Leave
  <2>3. \A v \in Workers : Dispatching(v)' => Dispatching(v)
    BY <2>1, <1>a, WorkerFacts DEF TypePc, Leave, Dispatching
  <2>4. CASE UNCHANGED rowStatus
    BY <2>1, <2>2, <2>3, <2>4, <1>a, ApprovedQuiet DEF TypeDispatch
  <2>5. CASE InsertRow(w)
    BY <2>1, <2>2, <2>3, <2>5, <1>a, ApprovedInsert
       DEF ApprovedInv, OnlyApprovedExecutes, Forward, TypeDispatch
  <2> QED
    BY <1>12, <2>4, <2>5 DEF RequestFault, rowVars
<1>13. ASSUME NEW s \in Sweepers, NEW a \in Actions, Reclaim(s, a)
       PROVE  ApprovedInv' /\ Forward
  <2>1. UNCHANGED <<approval, rowStatus, job, snapshot>> /\ rowStatus[a] = "DISPATCHING"
    BY <1>13 DEF Reclaim, Stale, packetVars, requestVars
  <2>2. pc' = [pc EXCEPT ![s] = "deliver"] /\ action' = [action EXCEPT ![s] = a]
    BY <1>13 DEF Reclaim, StartDispatch
  <2>3. \A v \in Requests : pc'[v] = pc[v]
    BY <2>2, <1>a, WorkerFacts DEF TypePc
  <2>4. \A v \in Workers : Dispatching(v)' => rowStatus'[action'[v]] # "NONE"
    BY <2>1, <2>2, <1>a, WorkerFacts DEF ApprovedInv, Dispatching, TypePc, TypeDispatch
  <2> QED
    BY <2>1, <2>3, <2>4 DEF ApprovedInv, OnlyApprovedExecutes, Forward
<1>14. ASSUME NEW s \in Sweepers,
              \/ SweepList(s) \/ SweepDone(s) \/ SweepFault(s)
              \/ \E p \in Packets : SweepPacket(s, p)
              \/ \E a \in Actions : ReclaimRaced(s, a)
       PROVE  ApprovedInv' /\ Forward
  <2>1. UNCHANGED <<approval, rowStatus, job, snapshot, action>>
    BY <1>14 DEF SweepList, SweepDone, SweepFault, SweepPacket, ReclaimRaced,
       packetVars, rowVars, requestVars, dispatchVars
  <2>2. pc' = pc \/ pc' = [pc EXCEPT ![s] = "sweep"] \/ pc' = [pc EXCEPT ![s] = "off"]
    BY <1>14 DEF SweepList, SweepDone, SweepFault, SweepPacket, ReclaimRaced
  <2> QED
    BY <2>1, <2>2, <1>a, WorkerFacts, ApprovedQuiet DEF TypePc, TypeDispatch, Dispatching
<1>15. CASE Tick
  <2>1. UNCHANGED <<approval, rowStatus, pc, job, snapshot, action>>
    BY <1>15 DEF Tick, packetVars, rowVars, requestVars, dispatchVars
  <2> QED
    BY <2>1, <1>a, ApprovedQuiet DEF TypeDispatch, Dispatching
<1>16. ASSUME NEW i \in Instances, Crash(i) PROVE ApprovedInv' /\ Forward
  <2>1. UNCHANGED <<approval, rowStatus>>
    BY <1>16 DEF Crash, packetVars, rowVars
  <2>2. \A w \in Workers : Dispatching(w)' => Dispatching(w) /\ action'[w] = action[w]
    BY <1>16, <1>a, WorkerFacts DEF Crash, Dispatching, TypePc
  <2>3. \A w \in Requests :
           /\ pc'[w] # "idle" => pc[w] # "idle" /\ job'[w] = job[w]
           /\ pc'[w] = "write" => pc[w] = "write" /\ snapshot'[w] = snapshot[w]
    BY <1>16, <1>a, WorkerFacts DEF Crash, TypePc
  <2> QED
    BY <2>1, <2>2, <2>3, <1>a, ApprovedQuiet DEF TypeDispatch
<1>17. ASSUME NEW i \in Instances, Boot(i) PROVE ApprovedInv' /\ Forward
  <2>1. UNCHANGED <<approval, rowStatus, job, snapshot, action>>
    BY <1>17 DEF Boot, packetVars, rowVars, requestVars, dispatchVars
  <2>2. \A w \in Workers : pc'[w] = pc[w] \/ (w \in Sweepers /\ pc'[w] = "list")
    BY <1>17 DEF Boot
  <2> QED
    BY <2>1, <2>2, <1>a, WorkerFacts, ApprovedQuiet DEF TypeDispatch, Dispatching
<1>18. CASE UNCHANGED vars
  <2>1. UNCHANGED <<approval, rowStatus, pc, job, snapshot, action>>
    BY <1>18 DEF vars, packetVars, rowVars, requestVars, dispatchVars
  <2> QED
    BY <2>1, <1>a, ApprovedQuiet DEF TypeDispatch, Dispatching
<1> QED
  BY <1>1, <1>2, <1>3, <1>4, <1>5, <1>6, <1>7, <1>8, <1>9, <1>10, <1>11, <1>12,
     <1>13, <1>14, <1>15, <1>16, <1>17, <1>18 DEF Next, RequestStep, SweepStep

LEMMA ApprovedAlways == Spec => [](TypeOK /\ ApprovedInv)
<1>1. Init => TypeOK /\ ApprovedInv
  BY InitType, ApprovedInit
<1>2. TypeOK /\ ApprovedInv /\ [Next]_vars => (TypeOK /\ ApprovedInv)'
  BY TypeStep, ApprovedStep
<1> QED
  BY <1>1, <1>2, PTL DEF Spec

\* Whatever requests, sweeps, faults and crashes do, an action has a row only
\* when a human has approved its packet.
THEOREM ApprovalComesFirst == Spec => []OnlyApprovedExecutes
<1>1. ApprovedInv => OnlyApprovedExecutes
  BY DEF ApprovedInv
<1> QED
  BY <1>1, ApprovedAlways, PTL

\* The executor's unlocked read-modify-write never undoes a decision.
THEOREM DecisionIsFinal == Spec => ApprovalForwardOnly
<1>1. TypeOK /\ ApprovedInv /\ [Next]_vars => [Forward]_vars
  BY ApprovedStep
<1>2. [Forward]_vars =>
        [\A p \in Packets : approval[p] # "PENDING" => approval'[p] = approval[p]]_vars
  BY DEF Forward
<1> QED
  BY <1>1, <1>2, ApprovedAlways, PTL DEF Spec, ApprovalForwardOnly

-----------------------------------------------------------------------------
(* Outward actions are never dispatched, and a claim has one driver.       *)
(*                                                                         *)
(* The strengthening ties each dispatching worker to the row it claimed:   *)
(* the action is reversible, its row left "PENDING" behind, and the        *)
(* worker's claim is not newer than the row's requestedAt.  A recovery     *)
(* moves requestedAt by more than a lease, past every older claim.         *)

DriverInv ==
    /\ OutwardNeverDispatched
    /\ OneDriverPerClaim
    /\ \A w \in Workers : Dispatching(w) =>
          /\ action[w] \in Reversible
          /\ rowStatus[action[w]] \in Terminal \cup {"DISPATCHING"}
          /\ claim[w] <= requestedAt[action[w]]

LEMMA DriverInit == Init => DriverInv
BY WorkerFacts DEF Init, DriverInv, OutwardNeverDispatched, OneDriverPerClaim, Dispatching

\* A step that changes no row and no call count, and starts no dispatch.
LEMMA DriverQuiet ==
    ASSUME DriverInv, UNCHANGED <<rowStatus, requestedAt, calls>>,
           \A w \in Workers : Dispatching(w)' =>
              Dispatching(w) /\ action'[w] = action[w] /\ claim'[w] = claim[w]
    PROVE  DriverInv'
<1>1. OutwardNeverDispatched'
  BY DEF DriverInv, OutwardNeverDispatched
<1>2. OneDriverPerClaim'
  BY DEF DriverInv, OneDriverPerClaim
<1> QED
  BY <1>1, <1>2 DEF DriverInv

\* A step that moves the rows of dispatched actions to a terminal status, and
\* starts no dispatch.
LEMMA DriverSettles ==
    ASSUME TypeOK, DriverInv, UNCHANGED <<requestedAt, calls>>,
           NEW w \in Workers, Dispatching(w),
           \/ rowStatus' = rowStatus
           \/ rowStatus' = [rowStatus EXCEPT ![action[w]] = verdict[w]],
           \A v \in Workers : Dispatching(v)' =>
              Dispatching(v) /\ action'[v] = action[v] /\ claim'[v] = claim[v]
    PROVE  DriverInv'
<1>1. /\ action \in [Workers -> Actions] /\ verdict[w] \in Terminal
      /\ rowStatus \in [Actions -> RowStatus]
  BY DEF TypeOK, TypeDispatch, TypeStore
<1>2. \A a \in Actions : rowStatus'[a] = rowStatus[a] \/ (a = action[w] /\ rowStatus'[a] \in Terminal)
  BY <1>1
<1>3. OutwardNeverDispatched'
  BY <1>2 DEF DriverInv, OutwardNeverDispatched
<1>4. OneDriverPerClaim'
  BY DEF DriverInv, OneDriverPerClaim
<1> QED
  BY <1>1, <1>2, <1>3, <1>4 DEF DriverInv

\* A step that inserts a row that is nobody's to dispatch.
LEMMA DriverInsert ==
    ASSUME TypeOK, DriverInv, NEW w \in Requests, InsertRow(w), UNCHANGED calls,
           \A v \in Workers : Dispatching(v)' =>
              Dispatching(v) /\ action'[v] = action[v] /\ claim'[v] = claim[v]
    PROVE  DriverInv'
<1>1. /\ NextAction(w) \in Actions /\ rowStatus[NextAction(w)] = "NONE"
      /\ rowStatus' = [rowStatus EXCEPT ![NextAction(w)] = InsertedStatus(w)]
      /\ requestedAt' = [requestedAt EXCEPT ![NextAction(w)] = now]
  BY NextActionType DEF InsertRow
<1>2. NextAction(w) \notin Reversible => InsertedStatus(w) = "PENDING"
  BY DEF InsertedStatus, AutoFires
<1>3. OutwardNeverDispatched'
  BY <1>1, <1>2 DEF DriverInv, OutwardNeverDispatched, TypeOK, TypeStore
<1>4. OneDriverPerClaim'
  BY DEF DriverInv, OneDriverPerClaim
<1>5. \A v \in Workers : Dispatching(v) => action[v] # NextAction(w)
  BY <1>1 DEF DriverInv, Terminal
<1> QED
  BY <1>1, <1>3, <1>4, <1>5 DEF DriverInv, TypeOK, TypeStore, TypeDispatch

\* A step that starts the dispatch of `a` by `w`, later than a lease after every
\* claim of it that is still being dispatched.
LEMMA DriverStarts ==
    ASSUME TypeOK, DriverInv, NEW w \in Workers, NEW a \in Reversible, NEW at \in Nat,
           StartDispatch(w, a, at), UNCHANGED calls,
           rowStatus' = [rowStatus EXCEPT ![a] = "DISPATCHING"],
           requestedAt' = [requestedAt EXCEPT ![a] = at],
           \A v \in Workers : (Dispatching(v) /\ action[v] = a) => claim[v] + Lease < at
    PROVE  DriverInv'
<1>1. /\ pc' = [pc EXCEPT ![w] = "deliver"] /\ action' = [action EXCEPT ![w] = a]
      /\ claim' = [claim EXCEPT ![w] = at]
  BY DEF StartDispatch
<1>2. a \in Actions /\ Lease \in Nat
  BY ConstantsAssumption
<1>3. /\ rowStatus \in [Actions -> RowStatus] /\ requestedAt \in [Actions -> Nat]
      /\ action \in [Workers -> Actions] /\ claim \in [Workers -> Nat]
      /\ pc \in [Workers -> RequestPc \cup SweeperPc]
  BY DEF TypeOK, TypeStore, TypeDispatch, TypePc
<1>4. \A v \in Workers \ {w} :
         /\ Dispatching(v)' <=> Dispatching(v)
         /\ action'[v] = action[v] /\ claim'[v] = claim[v]
  BY <1>1, <1>3 DEF Dispatching
<1>5. Dispatching(w)' /\ action'[w] = a /\ claim'[w] = at
  BY <1>1, <1>3 DEF Dispatching
<1>6. OutwardNeverDispatched'
  BY <1>2, <1>3 DEF DriverInv, OutwardNeverDispatched
<1>7. OneDriverPerClaim'
  BY <1>4, <1>5 DEF DriverInv, OneDriverPerClaim
<1>8. \A v \in Workers : Dispatching(v)' =>
          /\ action'[v] \in Reversible
          /\ rowStatus'[action'[v]] \in Terminal \cup {"DISPATCHING"}
          /\ claim'[v] <= requestedAt'[action'[v]]
  <2> SUFFICES ASSUME NEW v \in Workers, Dispatching(v)'
               PROVE  /\ action'[v] \in Reversible
                      /\ rowStatus'[action'[v]] \in Terminal \cup {"DISPATCHING"}
                      /\ claim'[v] <= requestedAt'[action'[v]]
    OBVIOUS
  <2>1. CASE v = w
    BY <1>2, <1>3, <1>5, <2>1
  <2>2. CASE v # w /\ action[v] = a
    BY <1>2, <1>3, <1>4, <2>2 DEF DriverInv
  <2>3. CASE v # w /\ action[v] # a
    BY <1>2, <1>3, <1>4, <2>3 DEF DriverInv
  <2> QED
    BY <2>1, <2>2, <2>3
<1> QED
  BY <1>6, <1>7, <1>8 DEF DriverInv

LEMMA DriverStep == TypeOK /\ DriverInv /\ [Next]_vars => DriverInv'
<1> SUFFICES ASSUME TypeOK, DriverInv, [Next]_vars PROVE DriverInv'
  OBVIOUS
<1>a. TypePc /\ TypeStore /\ TypeRequest /\ TypeSweep /\ TypeDispatch /\ TypeEnv /\ TypeHistory
  BY DEF TypeOK
<1>1. ASSUME NEW w \in Workers, Deliver(w) PROVE DriverInv'
  <2>1. /\ pc[w] = "deliver" /\ pc' = [pc EXCEPT ![w] = "finalize"]
        /\ calls' = [calls EXCEPT ![action[w]] = @ + 1]
        /\ UNCHANGED <<rowStatus, requestedAt, action, claim>>
    BY <1>1 DEF Deliver, rowVars
  <2>2. \A v \in Workers : Dispatching(v)' <=> Dispatching(v)
    BY <2>1, <1>a DEF Dispatching, TypePc
  <2>3. action[w] \in Reversible
    BY <2>1 DEF DriverInv, Dispatching
  <2>4. OutwardNeverDispatched'
    BY <2>1, <2>3, <1>a DEF DriverInv, OutwardNeverDispatched, TypeHistory
  <2>5. OneDriverPerClaim'
    BY <2>1, <2>2 DEF DriverInv, OneDriverPerClaim
  <2> QED
    BY <2>1, <2>2, <2>4, <2>5 DEF DriverInv
<1>2. ASSUME NEW w \in Workers, Finalize(w) PROVE DriverInv'
  <2>1. /\ pc[w] = "finalize" /\ UNCHANGED <<requestedAt, calls>>
        /\ rowStatus' = [rowStatus EXCEPT ![action[w]] = verdict[w]]
    BY <1>2 DEF Finalize, historyVars
  <2>2. /\ pc' = [pc EXCEPT ![w] = "next"] \/ pc' = [pc EXCEPT ![w] = "sweep"]
        /\ action' = [action EXCEPT ![w] = AnyAction] /\ claim' = [claim EXCEPT ![w] = 0]
    BY <1>2 DEF Finalize, EndDispatch
  <2>3. \A v \in Workers : Dispatching(v)' =>
           Dispatching(v) /\ action'[v] = action[v] /\ claim'[v] = claim[v]
    BY <2>2, <1>a DEF Dispatching, TypePc, TypeDispatch
  <2> QED
    BY <2>1, <2>3, DriverSettles DEF Dispatching
<1>3. ASSUME NEW w \in Workers, FinalizeFault(w) PROVE DriverInv'
  <2>1. /\ pc[w] = "finalize" /\ UNCHANGED <<requestedAt, calls>>
        /\ \/ rowStatus' = rowStatus
           \/ rowStatus' = [rowStatus EXCEPT ![action[w]] = verdict[w]]
    BY <1>3 DEF FinalizeFault, historyVars
  <2>2. \/ UNCHANGED <<pc, action, claim>>
        \/ /\ pc' = [pc EXCEPT ![w] = "idle"] \/ pc' = [pc EXCEPT ![w] = "sweep"]
           /\ action' = [action EXCEPT ![w] = AnyAction]
           /\ claim' = [claim EXCEPT ![w] = 0]
    BY <1>3 DEF FinalizeFault, EndDispatch, Leave
  <2>3. \A v \in Workers : Dispatching(v)' =>
           Dispatching(v) /\ action'[v] = action[v] /\ claim'[v] = claim[v]
    BY <2>2, <1>a DEF Dispatching, TypePc, TypeDispatch
  <2> QED
    BY <2>1, <2>3, DriverSettles DEF Dispatching
<1>4. ASSUME NEW w \in Requests, Reserve(w) PROVE DriverInv'
  <2>1. /\ NextAction(w) \in Reversible /\ InsertedStatus(w) = "DISPATCHING"
        /\ rowStatus[NextAction(w)] = "NONE" /\ UNCHANGED calls
        /\ rowStatus' = [rowStatus EXCEPT ![NextAction(w)] = InsertedStatus(w)]
        /\ requestedAt' = [requestedAt EXCEPT ![NextAction(w)] = now]
        /\ StartDispatch(w, NextAction(w), now)
    BY <1>4 DEF Reserve, InsertRow, InsertedStatus, AutoFires
  <2>2. \A v \in Workers : ~(Dispatching(v) /\ action[v] = NextAction(w))
    BY <2>1 DEF DriverInv, Terminal
  <2>3. w \in Workers /\ now \in Nat
    BY <1>a, WorkerFacts DEF TypeEnv
  <2> QED
    BY <2>1, <2>2, <2>3, DriverStarts
<1>5. ASSUME NEW w \in Requests, RecordNonDispatched(w) PROVE DriverInv'
  <2>1. InsertRow(w) /\ UNCHANGED <<pc, action, claim, calls>>
    BY <1>5 DEF RecordNonDispatched, dispatchVars, historyVars
  <2> QED
    BY <2>1, DriverInsert DEF Dispatching
<1>6. ASSUME NEW w \in Requests, RequestFault(w) PROVE DriverInv'
  <2>1. /\ UNCHANGED <<action, claim, calls>>
        /\ pc' = [pc EXCEPT ![w] = "idle"]
        /\ UNCHANGED <<rowStatus, requestedAt>> \/ InsertRow(w)
    BY <1>6 DEF RequestFault, Leave, dispatchVars, historyVars, rowVars
  <2>2. \A v \in Workers : Dispatching(v)' => Dispatching(v)
    BY <2>1, <1>a DEF Dispatching, TypePc
  <2> QED
    BY <2>1, <2>2, DriverQuiet, DriverInsert
<1>7. ASSUME NEW s \in Sweepers, NEW a \in Actions, Reclaim(s, a) PROVE DriverInv'
  <2>1. /\ rowStatus[a] = "DISPATCHING" /\ requestedAt[a] + Lease < sweepNow[s]
        /\ requestedAt' = [requestedAt EXCEPT ![a] = sweepNow[s]]
        /\ StartDispatch(s, a, sweepNow[s])
        /\ UNCHANGED <<rowStatus, calls>>
    BY <1>7 DEF Reclaim, Stale
  <2>2. a \in Reversible
    BY <2>1 DEF DriverInv, OutwardNeverDispatched
  <2>3. rowStatus' = [rowStatus EXCEPT ![a] = "DISPATCHING"]
    BY <2>1, <1>a DEF TypeStore
  <2>4. \A v \in Workers : (Dispatching(v) /\ action[v] = a) => claim[v] + Lease < sweepNow[s]
    BY <2>1, <1>a, WorkerFacts DEF DriverInv, TypeStore, TypeDispatch, TypeSweep
  <2>5. s \in Workers /\ sweepNow[s] \in Nat
    BY <1>a, WorkerFacts DEF TypeSweep
  <2> QED
    BY <2>1, <2>2, <2>3, <2>4, <2>5, DriverStarts
<1>8. ASSUME NEW w \in Requests,
             \/ \E p \in Packets : Execute(w, p)
             \/ Duplicate(w) \/ AuditRead(w) \/ AuditWrite(w) \/ Finish(w)
      PROVE  DriverInv'
  <2>1. UNCHANGED <<rowStatus, requestedAt, calls, action, claim>>
    BY <1>8 DEF Execute, Duplicate, AuditRead, AuditWrite, Finish, rowVars,
       dispatchVars, historyVars
  <2>2. \/ pc' = pc
        \/ \E to \in {"next", "write", "idle"} : pc' = [pc EXCEPT ![w] = to]
    BY <1>8 DEF Execute, Duplicate, AuditRead, AuditWrite, Finish, Leave
  <2>3. \A v \in Workers : Dispatching(v)' => Dispatching(v)
    BY <2>2, <1>a DEF Dispatching, TypePc
  <2> QED
    BY <2>1, <2>3, DriverQuiet
<1>9. ASSUME NEW s \in Sweepers,
             \/ SweepList(s) \/ SweepDone(s)
             \/ \E p \in Packets : SweepPacket(s, p)
             \/ \E a \in Actions : ReclaimRaced(s, a)
      PROVE  DriverInv'
  <2>1. UNCHANGED <<rowStatus, requestedAt, calls, action, claim>>
    BY <1>9 DEF SweepList, SweepDone, SweepPacket, ReclaimRaced, rowVars,
       dispatchVars, historyVars
  <2>2. pc' = pc \/ pc' = [pc EXCEPT ![s] = "sweep"] \/ pc' = [pc EXCEPT ![s] = "off"]
    BY <1>9 DEF SweepList, SweepDone, SweepPacket, ReclaimRaced
  <2>3. \A v \in Workers : Dispatching(v)' => Dispatching(v)
    BY <2>2, <1>a DEF Dispatching, TypePc
  <2> QED
    BY <2>1, <2>3, DriverQuiet
<1>10. ASSUME NEW i \in Instances, Crash(i) PROVE DriverInv'
  <2>1. UNCHANGED <<rowStatus, requestedAt, calls>>
    BY <1>10 DEF Crash, rowVars, historyVars
  <2>2. \A w \in Workers : Dispatching(w)' =>
           Dispatching(w) /\ action'[w] = action[w] /\ claim'[w] = claim[w]
    BY <1>10, <1>a DEF Crash, Dispatching, TypePc
  <2> QED
    BY <2>1, <2>2, DriverQuiet
<1>11. ASSUME NEW i \in Instances, Boot(i) PROVE DriverInv'
  <2>1. /\ UNCHANGED <<rowStatus, requestedAt, calls, action, claim>>
        /\ \A w \in Workers : pc'[w] = pc[w] \/ pc'[w] = "list"
    BY <1>11 DEF Boot, rowVars, dispatchVars, historyVars
  <2> QED
    BY <2>1, DriverQuiet DEF Dispatching
<1>12. CASE Tick \/ (\E p \in Packets : Decide(p)) \/ UNCHANGED vars
  <2>1. UNCHANGED <<rowStatus, requestedAt, calls, pc, action, claim>>
    BY <1>12 DEF Tick, Decide, vars, rowVars, dispatchVars, historyVars
  <2> QED
    BY <2>1, DriverQuiet DEF Dispatching
<1>13. ASSUME NEW s \in Sweepers, SweepFault(s) PROVE DriverInv'
  <2>1. UNCHANGED <<rowStatus, calls, action, claim>>
    BY <1>13 DEF SweepFault, dispatchVars, historyVars
  <2>2. pc' = pc \/ pc' = [pc EXCEPT ![s] = "off"]
    BY <1>13 DEF SweepFault
  <2>3. \A v \in Workers : Dispatching(v)' => Dispatching(v)
    BY <2>2, <1>a DEF Dispatching, TypePc
  <2>4. \A a \in Actions : requestedAt[a] <= requestedAt'[a]
    <3>1. CASE requestedAt' = requestedAt
      BY <3>1, <1>a DEF TypeStore
    <3>2. CASE \E a \in strands[s] :
                  /\ Stale(a, sweepNow[s])
                  /\ requestedAt' = [requestedAt EXCEPT ![a] = sweepNow[s]]
      BY <3>2, <1>a, WorkerFacts DEF Stale, TypeStore, TypeSweep
    <3> QED
      BY <1>13, <3>1, <3>2 DEF SweepFault
  <2>5. OutwardNeverDispatched' /\ OneDriverPerClaim'
    BY <2>1, <2>3 DEF DriverInv, OutwardNeverDispatched, OneDriverPerClaim
  <2>6. requestedAt' \in [Actions -> Nat]
    BY TypeStep DEF TypeOK, TypeStore
  <2> QED
    BY <2>1, <2>3, <2>4, <2>5, <2>6, <1>a DEF DriverInv, TypeStore, TypeDispatch
<1> QED
  BY <1>1, <1>2, <1>3, <1>4, <1>5, <1>6, <1>7, <1>8, <1>9, <1>10, <1>11, <1>12, <1>13
     DEF Next, RequestStep, SweepStep

LEMMA DriverAlways == Spec => [](TypeOK /\ DriverInv)
<1>1. Init => TypeOK /\ DriverInv
  BY InitType, DriverInit
<1>2. TypeOK /\ DriverInv /\ [Next]_vars => (TypeOK /\ DriverInv)'
  BY TypeStep, DriverStep
<1> QED
  BY <1>1, <1>2, PTL DEF Spec

\* The governance moat: no interleaving of requests, sweeps, crashes and faults
\* hands an outward action to a transport.
THEOREM OutwardIsHeld == Spec => []OutwardNeverDispatched
<1>1. DriverInv => OutwardNeverDispatched
  BY DEF DriverInv
<1> QED
  BY <1>1, DriverAlways, PTL

\* Two workers never dispatch an action on one claim, nor on claims within a
\* lease of each other, for any lease.
THEOREM ClaimsHaveOneDriver == Spec => []OneDriverPerClaim
<1>1. DriverInv => OneDriverPerClaim
  BY DEF DriverInv
<1> QED
  BY <1>1, DriverAlways, PTL

-----------------------------------------------------------------------------
(* What a step may do to the rows and to the dispatches under way.         *)

\* No dispatch starts or moves on: those under way keep action and claim, and
\* their verdict, unless recording it has failed.
Kept ==
    \A w \in Workers : Dispatching(w)' =>
        /\ pc'[w] = pc[w] /\ action'[w] = action[w] /\ claim'[w] = claim[w]
        /\ verdict'[w] \in {verdict[w], "FAILED"}
Quiet == Kept /\ UNCHANGED historyVars

RowsKept ==
    /\ UNCHANGED <<approval, rowStatus>>
    /\ \A a \in Actions : requestedAt[a] <= requestedAt'[a]
DriversKept == \A a \in Actions : Drivers(a)' = Drivers(a)
RowSettled(w) ==
    /\ pc[w] = "finalize" /\ DriversKept
    /\ rowStatus' = [rowStatus EXCEPT ![action[w]] = verdict[w]]
    /\ UNCHANGED <<approval, requestedAt>>
RowInserted(w) == InsertRow(w) /\ DriversKept /\ UNCHANGED approval

LEMMA Types == TypeOK =>
    /\ approval \in [Packets -> ApprovalStatus]
    /\ rowStatus \in [Actions -> RowStatus] /\ requestedAt \in [Actions -> Nat]
    /\ pc \in [Workers -> RequestPc \cup SweeperPc]
    /\ action \in [Workers -> Actions] /\ claim \in [Workers -> Nat]
    /\ verdict \in [Workers -> Terminal] /\ sweepNow \in [Sweepers -> Nat]
    /\ calls \in [Actions -> Nat] /\ claimTimes \in [Actions -> SUBSET Nat]
    /\ now \in Nat
BY DEF TypeOK, TypeStore, TypePc, TypeDispatch, TypeSweep, TypeHistory, TypeEnv

\* The steps of a request that touch no row and start no dispatch.
LEMMA RequestQuiet ==
    ASSUME TypeOK, ApprovedInv, NEW w \in Requests,
           \/ \E p \in Packets : Execute(w, p)
           \/ Duplicate(w) \/ AuditRead(w) \/ AuditWrite(w) \/ Finish(w)
    PROVE  Quiet /\ RowsKept
<1>1. UNCHANGED <<rowStatus, requestedAt, action, claim, verdict, historyVars>>
  BY DEF Execute, Duplicate, AuditRead, AuditWrite, Finish, rowVars, dispatchVars
<1>2. approval' = approval
  <2>1. CASE AuditWrite(w)
    BY <2>1 DEF AuditWrite, ApprovedInv, TypeOK, TypeStore, TypeRequest
  <2> QED
    BY <2>1 DEF Execute, Duplicate, AuditRead, Finish, packetVars
<1>3. \/ pc' = pc
      \/ \E to \in {"next", "write", "idle"} : pc' = [pc EXCEPT ![w] = to]
  BY DEF Execute, Duplicate, AuditRead, AuditWrite, Finish, Leave
<1>4. Kept
  BY <1>1, <1>3, Types DEF Kept, Dispatching
<1> QED
  BY <1>1, <1>2, <1>4, Types DEF Quiet, RowsKept

LEMMA SweepQuiet ==
    ASSUME TypeOK, NEW s \in Sweepers,
           \/ SweepList(s) \/ SweepDone(s) \/ SweepFault(s)
           \/ \E p \in Packets : SweepPacket(s, p)
           \/ \E a \in Actions : ReclaimRaced(s, a)
    PROVE  Quiet /\ RowsKept
<1>1. UNCHANGED <<approval, rowStatus, action, claim, verdict, historyVars>>
  BY DEF SweepList, SweepDone, SweepFault, SweepPacket, ReclaimRaced, packetVars,
     rowVars, dispatchVars
<1>2. pc' = pc \/ pc' = [pc EXCEPT ![s] = "sweep"] \/ pc' = [pc EXCEPT ![s] = "off"]
  BY DEF SweepList, SweepDone, SweepFault, SweepPacket, ReclaimRaced
<1>3. Kept
  BY <1>1, <1>2, Types DEF Kept, Dispatching
<1>4. \A a \in Actions : requestedAt[a] <= requestedAt'[a]
  <2>1. CASE requestedAt' = requestedAt
    BY <2>1, Types
  <2>2. CASE \E a \in Actions :
                /\ Stale(a, sweepNow[s])
                /\ requestedAt' = [requestedAt EXCEPT ![a] = sweepNow[s]]
    BY <2>2, Types, WorkerFacts DEF Stale
  <2>3. strands[s] \subseteq Actions
    BY DEF TypeOK, TypeSweep
  <2> QED
    BY <2>1, <2>2, <2>3 DEF SweepList, SweepDone, SweepFault, SweepPacket, ReclaimRaced,
       rowVars
<1> QED
  BY <1>1, <1>3, <1>4 DEF Quiet, RowsKept

\* Every step delivers, wins a claim, or is quiet and changes the rows in one of
\* these ways.
LEMMA StepKinds ==
    ASSUME TypeOK, ApprovedInv, [Next]_vars
    PROVE  \/ \E w \in Workers : Deliver(w)
           \/ \E w \in Requests : Reserve(w)
           \/ \E s \in Sweepers, a \in Actions : Reclaim(s, a)
           \/ Quiet /\ \E p \in Packets : Decide(p)
           \/ Quiet /\ RowsKept
           \/ Quiet /\ \E w \in Workers : RowSettled(w)
           \/ Quiet /\ \E w \in Requests : RowInserted(w)
<1> DEFINE Kinds ==
      \/ Quiet /\ \E p \in Packets : Decide(p)
      \/ Quiet /\ RowsKept
      \/ Quiet /\ \E w \in Workers : RowSettled(w)
      \/ Quiet /\ \E w \in Requests : RowInserted(w)
<1>1. ASSUME NEW p \in Packets, Decide(p) PROVE Kinds
  <2>1. Quiet
    BY <1>1, Types DEF Decide, Quiet, Kept, Dispatching, dispatchVars
  <2> QED
    BY <1>1, <2>1
<1>2. ASSUME NEW w \in Workers, Finalize(w) PROVE Kinds
  <2>1. /\ pc' = [pc EXCEPT ![w] = "next"] \/ pc' = [pc EXCEPT ![w] = "sweep"]
        /\ action' = [action EXCEPT ![w] = AnyAction] /\ claim' = [claim EXCEPT ![w] = 0]
        /\ verdict' = [verdict EXCEPT ![w] = "EXECUTED"]
        /\ pc[w] = "finalize" /\ UNCHANGED historyVars
    BY <1>2 DEF Finalize, EndDispatch
  <2>2. RowSettled(w)
    <3>1. DriversKept
      BY <2>1, Types DEF DriversKept, Drivers
    <3> QED
      BY <1>2, <3>1 DEF Finalize, RowSettled, packetVars
  <2>3. Quiet
    BY <2>1, Types DEF Quiet, Kept, Dispatching
  <2> QED
    BY <2>2, <2>3
<1>3. ASSUME NEW w \in Workers, FinalizeFault(w) PROVE Kinds
  <2>2. /\ UNCHANGED historyVars /\ pc[w] = "finalize"
        /\ \/ /\ verdict' = [verdict EXCEPT ![w] = "FAILED"]
              /\ UNCHANGED <<pc, action, claim>>
           \/ /\ pc' = [pc EXCEPT ![w] = "idle"] \/ pc' = [pc EXCEPT ![w] = "sweep"]
              /\ action' = [action EXCEPT ![w] = AnyAction]
              /\ claim' = [claim EXCEPT ![w] = 0]
              /\ verdict' = [verdict EXCEPT ![w] = "EXECUTED"]
    BY <1>3 DEF FinalizeFault, EndDispatch, Leave
  <2>3. Kept /\ DriversKept
    BY <2>2, Types DEF Kept, DriversKept, Drivers, Dispatching
  <2>4. RowSettled(w) \/ UNCHANGED <<approval, rowStatus, requestedAt>>
    BY <1>3, <2>3 DEF FinalizeFault, RowSettled, packetVars
  <2>5. UNCHANGED <<approval, rowStatus, requestedAt>> => RowsKept
    BY Types DEF RowsKept
  <2> QED
    BY <2>2, <2>3, <2>4, <2>5 DEF Quiet
<1>4. ASSUME NEW w \in Requests, RecordNonDispatched(w) PROVE Kinds
  <2>1. Quiet
    BY <1>4, Types DEF RecordNonDispatched, Quiet, Kept, Dispatching, dispatchVars
  <2>2. RowInserted(w)
    BY <1>4 DEF RecordNonDispatched, RowInserted, DriversKept, Drivers, packetVars, dispatchVars
  <2> QED
    BY <2>1, <2>2
<1>5. ASSUME NEW w \in Requests, RequestFault(w) PROVE Kinds
  <2>1. /\ UNCHANGED <<approval, action, claim, verdict, historyVars>>
        /\ pc' = [pc EXCEPT ![w] = "idle"]
        /\ UNCHANGED <<rowStatus, requestedAt>> \/ InsertRow(w)
        /\ pc[w] \in {"next", "write"}
    BY <1>5 DEF RequestFault, Leave, InsertRow, AtAction, packetVars, rowVars, dispatchVars
  <2>2. Quiet /\ DriversKept
    BY <2>1, Types DEF Quiet, Kept, DriversKept, Drivers, Dispatching
  <2>3. RowsKept \/ RowInserted(w)
    BY <2>1, <2>2, Types DEF RowsKept, RowInserted
  <2> QED
    BY <2>2, <2>3
<1>6. ASSUME NEW i \in Instances, Crash(i) PROVE Kinds
  <2>1. UNCHANGED <<approval, rowStatus, requestedAt, historyVars>>
    BY <1>6 DEF Crash, packetVars, rowVars
  <2>2. Kept
    BY <1>6, Types DEF Crash, Kept, Dispatching
  <2> QED
    BY <2>1, <2>2, Types DEF Quiet, RowsKept
<1>7. ASSUME NEW i \in Instances, Boot(i) PROVE Kinds
  <2>1. /\ UNCHANGED <<approval, rowStatus, requestedAt, action, claim, verdict, historyVars>>
        /\ \A w \in Workers : pc'[w] = pc[w] \/ pc'[w] = "list"
    BY <1>7 DEF Boot, packetVars, rowVars, dispatchVars
  <2>2. Kept
    BY <2>1 DEF Kept, Dispatching
  <2> QED
    BY <2>1, <2>2, Types DEF Quiet, RowsKept
<1>8. ASSUME Tick \/ UNCHANGED vars PROVE Kinds
  <2>1. UNCHANGED <<approval, rowStatus, requestedAt, pc, action, claim, verdict, historyVars>>
    BY <1>8 DEF Tick, vars, packetVars, rowVars, dispatchVars
  <2>2. Kept
    BY <2>1 DEF Kept, Dispatching
  <2> QED
    BY <2>1, <2>2, Types DEF Quiet, RowsKept
<1> HIDE DEF Kinds
<1>9. ASSUME NEW w \in Requests,
             (\E p \in Packets : Execute(w, p)) \/ RequestStep(w) \/ RequestFault(w)
      PROVE  Reserve(w) \/ (Quiet /\ RowsKept) \/ Kinds
  <2>1. CASE \/ \E p \in Packets : Execute(w, p)
             \/ Duplicate(w) \/ AuditRead(w) \/ AuditWrite(w) \/ Finish(w)
    BY <2>1, RequestQuiet
  <2> QED
    BY <1>4, <1>5, <1>9, <2>1 DEF RequestStep
<1>10. ASSUME NEW s \in Sweepers, SweepStep(s) \/ SweepFault(s)
       PROVE  (\E a \in Actions : Reclaim(s, a)) \/ (Quiet /\ RowsKept)
  <2>1. CASE \/ SweepList(s) \/ SweepDone(s) \/ SweepFault(s)
             \/ \E p \in Packets : SweepPacket(s, p)
             \/ \E a \in Actions : ReclaimRaced(s, a)
    BY <2>1, SweepQuiet
  <2> QED
    BY <1>10, <2>1 DEF SweepStep
<1>11. \/ \E w \in Workers : Deliver(w)
       \/ \E w \in Requests : Reserve(w)
       \/ \E s \in Sweepers, a \in Actions : Reclaim(s, a)
       \/ Quiet /\ RowsKept
       \/ Kinds
  <2>1. CASE \E w \in Requests :
               (\E p \in Packets : Execute(w, p)) \/ RequestStep(w) \/ RequestFault(w)
    BY <1>9, <2>1
  <2>2. CASE \E s \in Sweepers : SweepStep(s) \/ SweepFault(s)
    BY <1>10, <2>2
  <2>3. CASE \E w \in Workers : Finalize(w) \/ FinalizeFault(w)
    BY <1>2, <1>3, <2>3
  <2>4. CASE \E i \in Instances : Crash(i) \/ Boot(i)
    BY <1>6, <1>7, <2>4
  <2> QED
    BY <1>1, <1>8, <2>1, <2>2, <2>3, <2>4 DEF Next
<1> QED
  BY <1>11 DEF Kinds

-----------------------------------------------------------------------------
(* Each transport call spends a claim of its own.                          *)
(*                                                                         *)
(* The strengthening counts the claims nobody holds any more: every call   *)
(* was made by a worker that gave its claim up for it, and a claim lost in *)
(* a crash is not called for again.  No claim is newer than the row's      *)
(* requestedAt, which a recovery moves by more than a lease.               *)

\* The claims workers still hold on an action, before its transport call.
HeldClaims(a) == {claim[w] : w \in Drivers(a)}

ClaimsKnown(a) ==
    /\ IsFiniteSet(claimTimes[a])
    /\ rowStatus[a] = "NONE" => claimTimes[a] = {}
    /\ \A t \in claimTimes[a] : t <= requestedAt[a]
    /\ \A t, u \in claimTimes[a] : t < u => t + Lease < u
    /\ calls[a] <= Cardinality(claimTimes[a] \ HeldClaims(a))

SpentInv ==
    /\ \A a \in Actions : ClaimsKnown(a)
    /\ \A w \in Workers : pc[w] = "deliver" => claim[w] \in claimTimes[action[w]]

\* A row says EXECUTED only for a call that returned.
ReturnedInv ==
    /\ \A a \in Actions : rowStatus[a] = "EXECUTED" => a \in returned
    /\ \A w \in Workers :
          (pc[w] = "finalize" /\ verdict[w] = "EXECUTED") => action[w] \in returned
    /\ \A w \in Workers : pc[w] = "finalize" => calls[action[w]] > 0

LEMMA SpentInit == Init => SpentInv /\ ReturnedInv
<1> SUFFICES ASSUME Init PROVE SpentInv /\ ReturnedInv
  OBVIOUS
<1>1. \A w \in Workers : pc[w] \notin {"deliver", "finalize"}
  BY WorkerFacts DEF Init
<1>2. ASSUME NEW a \in Actions PROVE ClaimsKnown(a)
  <2>1. claimTimes[a] = {} /\ calls[a] = 0 /\ claimTimes[a] \ HeldClaims(a) = {}
    BY DEF Init
  <2>2. IsFiniteSet({}) /\ Cardinality({}) = 0
    BY FS_EmptySet
  <2>3. IsFiniteSet(claimTimes[a]) /\ Cardinality(claimTimes[a] \ HeldClaims(a)) = 0
    BY <2>1, <2>2, Zenon
  <2> QED
    BY <2>1, <2>3 DEF ClaimsKnown
<1> QED
  BY <1>1, <1>2 DEF Init, SpentInv, ReturnedInv

\* Claims that no step adds to stay spent: fewer of them may be held.
LEMMA ClaimsKept ==
    ASSUME TypeOK, NEW a \in Actions, ClaimsKnown(a), UNCHANGED <<calls, claimTimes>>,
           rowStatus'[a] = "NONE" => rowStatus[a] = "NONE",
           rowStatus[a] # "NONE" => requestedAt[a] <= requestedAt'[a],
           requestedAt'[a] \in Nat, HeldClaims(a)' \subseteq HeldClaims(a)
    PROVE  ClaimsKnown(a)'
<1> DEFINE free == claimTimes[a] \ HeldClaims(a)
           now_free == claimTimes[a] \ HeldClaims(a)'
<1>1. IsFiniteSet(claimTimes[a]) /\ calls[a] <= Cardinality(free)
  BY DEF ClaimsKnown
<1>2. IsFiniteSet(now_free) /\ free \subseteq now_free
  BY <1>1, FS_Difference
<1>3. Cardinality(free) <= Cardinality(now_free)
      /\ Cardinality(free) \in Nat /\ Cardinality(now_free) \in Nat
  BY <1>2, FS_Subset, FS_CardinalityType
<1>4. calls[a] \in Nat /\ requestedAt[a] \in Nat /\ claimTimes[a] \subseteq Nat
  BY Types
<1>5. calls[a]' <= Cardinality(claimTimes[a]' \ HeldClaims(a)')
  <2> HIDE DEF free
  <2>1. calls[a] <= Cardinality(now_free)
    BY <1>1, <1>3, <1>4
  <2> QED
    BY <2>1
<1>6. \A t \in claimTimes[a] : t <= requestedAt'[a]
  BY <1>4 DEF ClaimsKnown
<1> QED
  BY <1>5, <1>6 DEF ClaimsKnown

\* A quiet step gives up claims, and calls for none.
LEMMA SpentQuiet ==
    ASSUME TypeOK, TypeOK', SpentInv, Quiet,
           \A a \in Actions :
              /\ rowStatus'[a] = "NONE" => rowStatus[a] = "NONE"
              /\ rowStatus[a] # "NONE" => requestedAt[a] <= requestedAt'[a]
    PROVE  SpentInv'
<1>1. UNCHANGED <<calls, claimTimes>>
  BY DEF Quiet, historyVars
<1>2. ASSUME NEW w \in Workers, pc'[w] = "deliver"
      PROVE  pc[w] = "deliver" /\ action'[w] = action[w] /\ claim'[w] = claim[w]
  BY <1>2 DEF Quiet, Kept, Dispatching
<1>3. ASSUME NEW a \in Actions PROVE ClaimsKnown(a)'
  <2>1. HeldClaims(a)' \subseteq HeldClaims(a)
    BY <1>2 DEF HeldClaims, Drivers
  <2>2. requestedAt'[a] \in Nat
    BY DEF TypeOK, TypeStore
  <2> QED
    BY <1>1, <2>1, <2>2, ClaimsKept DEF SpentInv
<1> QED
  BY <1>1, <1>2, <1>3 DEF SpentInv

\* The claim that a transport call spends is held by no other worker.
LEMMA SpentDeliver ==
    ASSUME TypeOK, DriverInv, SpentInv, NEW w \in Workers, Deliver(w),
           NEW b \in Actions, b = action[w]
    PROVE  SpentInv'
<1> DEFINE free == claimTimes[b] \ HeldClaims(b)
<1>1. /\ pc[w] = "deliver" /\ pc' = [pc EXCEPT ![w] = "finalize"]
      /\ calls' = [calls EXCEPT ![b] = @ + 1]
      /\ UNCHANGED <<rowStatus, requestedAt, action, claim, claimTimes>>
  BY DEF Deliver, rowVars
<1>2. \A v \in Workers : pc'[v] = "deliver" <=> (pc[v] = "deliver" /\ v # w)
  BY <1>1, Types
<1>3. claim[w] \in claimTimes[b] /\ claim[w] \in HeldClaims(b)
  BY <1>1, Types DEF SpentInv, HeldClaims, Drivers
<1>4. \A v \in Drivers(b) \ {w} : claim[v] # claim[w]
  <2>1. \A v \in Drivers(b) : v \in Workers /\ Dispatching(v) /\ action[v] = b /\ claim[v] \in Nat
    BY Types DEF Drivers, Dispatching
  <2>2. Dispatching(w) /\ claim[w] \in Nat
    BY <1>1, Types DEF Dispatching
  <2> QED
    BY <2>1, <2>2, WorkerFacts DEF DriverInv, OneDriverPerClaim
<1>5. ASSUME NEW a \in Actions PROVE ClaimsKnown(a)'
  <2>1. CASE a # b
    <3>1. HeldClaims(a)' = HeldClaims(a)
      BY <1>1, <1>2, <2>1 DEF HeldClaims, Drivers
    <3>2. calls'[a] = calls[a]
      BY <1>1, <2>1, Types
    <3> QED
      BY <1>1, <3>1, <3>2 DEF SpentInv, ClaimsKnown
  <2>2. CASE a = b
    <3>1. HeldClaims(b)' = HeldClaims(b) \ {claim[w]}
      BY <1>1, <1>2, <1>4 DEF HeldClaims, Drivers
    <3>2. claimTimes[b] \ HeldClaims(b)' = free \cup {claim[w]} /\ claim[w] \notin free
      BY <1>3, <3>1
    <3>3. IsFiniteSet(free) /\ calls[b] <= Cardinality(free)
      BY <1>3, FS_Difference DEF SpentInv, ClaimsKnown
    <3> HIDE DEF free
    <3>4. Cardinality(free \cup {claim[w]}) = Cardinality(free) + 1 /\ Cardinality(free) \in Nat
      BY <3>2, <3>3, FS_AddElement, FS_CardinalityType
    <3>5. Cardinality(claimTimes[b] \ HeldClaims(b)') = Cardinality(free) + 1
      BY <3>2, <3>4, Zenon
    <3>6. calls'[b] = calls[b] + 1 /\ calls[b] \in Nat
      BY <1>1, <1>3, Types
    <3>7. calls'[b] <= Cardinality(claimTimes[b] \ HeldClaims(b)')
      BY <3>3, <3>4, <3>5, <3>6
    <3>8. ClaimsKnown(b)
      BY <1>3 DEF SpentInv
    <3> QED
      BY <1>1, <2>2, <3>7, <3>8 DEF ClaimsKnown
  <2> QED
    BY <2>1, <2>2
<1> QED
  BY <1>1, <1>2, <1>5 DEF SpentInv

\* A claim won is later, by more than a lease, than every one before it, and held
\* by its winner.
LEMMA SpentStart ==
    ASSUME TypeOK, SpentInv, NEW w \in Workers, pc[w] # "deliver",
           NEW b \in Actions, NEW at \in Nat,
           StartDispatch(w, b, at), UNCHANGED calls,
           rowStatus' = [rowStatus EXCEPT ![b] = "DISPATCHING"],
           requestedAt' = [requestedAt EXCEPT ![b] = at],
           \A t \in claimTimes[b] : t + Lease < at
    PROVE  SpentInv'
<1>1. /\ pc' = [pc EXCEPT ![w] = "deliver"] /\ action' = [action EXCEPT ![w] = b]
      /\ claim' = [claim EXCEPT ![w] = at]
      /\ claimTimes' = [claimTimes EXCEPT ![b] = @ \cup {at}]
  BY DEF StartDispatch
<1>2. /\ pc'[w] = "deliver" /\ action'[w] = b /\ claim'[w] = at
      /\ claimTimes'[b] = claimTimes[b] \cup {at}
      /\ rowStatus'[b] = "DISPATCHING" /\ requestedAt'[b] = at
  BY <1>1, Types
<1>3. \A v \in Workers \ {w} : pc'[v] = pc[v] /\ action'[v] = action[v] /\ claim'[v] = claim[v]
  BY <1>1, Types
<1>4. \A a \in Actions \ {b} :
         /\ claimTimes'[a] = claimTimes[a] /\ rowStatus'[a] = rowStatus[a]
         /\ requestedAt'[a] = requestedAt[a]
  BY <1>1, Types
<1>5. ASSUME NEW a \in Actions PROVE ClaimsKnown(a)'
  <2>1. CASE a # b
    <3>1. HeldClaims(a)' = HeldClaims(a)
      BY <1>2, <1>3, <2>1 DEF HeldClaims, Drivers
    <3> QED
      BY <1>4, <2>1, <3>1 DEF SpentInv, ClaimsKnown
  <2>2. CASE a = b
    <3>1. HeldClaims(b)' = HeldClaims(b) \cup {at}
      BY <1>2, <1>3 DEF HeldClaims, Drivers
    <3>2. claimTimes[b] \subseteq Nat /\ Lease \in Nat
      BY Types, WorkerFacts
    <3>3. at \notin claimTimes[b]
      BY <3>2
    <3>4. claimTimes'[b] \ HeldClaims(b)' = claimTimes[b] \ HeldClaims(b)
      BY <1>2, <3>1, <3>3
    <3>5. IsFiniteSet(claimTimes[b]) /\ calls[b] <= Cardinality(claimTimes[b] \ HeldClaims(b))
      BY DEF SpentInv, ClaimsKnown
    <3>6. calls'[b] <= Cardinality(claimTimes'[b] \ HeldClaims(b)')
      BY <3>4, <3>5, Zenon
    <3>7. IsFiniteSet(claimTimes[b] \cup {at})
      BY <3>5, FS_AddElement
    <3>8. IsFiniteSet(claimTimes'[b])
      BY <1>2, <3>7, Zenon
    <3>9. \A t \in claimTimes'[b] : t <= requestedAt'[b]
      BY <1>2, <3>2
    <3>10. \A t, u \in claimTimes[b] : t < u => t + Lease < u
      BY DEF SpentInv, ClaimsKnown
    <3>11. \A t, u \in claimTimes'[b] : t < u => t + Lease < u
      BY <1>2, <3>2, <3>10
    <3> QED
      BY <1>2, <2>2, <3>6, <3>8, <3>9, <3>11 DEF ClaimsKnown
  <2> QED
    BY <2>1, <2>2
<1>6. ASSUME NEW v \in Workers, pc'[v] = "deliver" PROVE claim'[v] \in claimTimes'[action'[v]]
  <2>1. CASE v = w
    BY <1>2, <2>1
  <2>2. CASE v # w
    <3>1. claim[v] \in claimTimes[action[v]] /\ action[v] \in Actions
      BY <1>3, <1>6, <2>2, Types DEF SpentInv
    <3> QED
      BY <1>2, <1>3, <1>4, <2>2, <3>1
  <2> QED
    BY <2>1, <2>2
<1> QED
  BY <1>5, <1>6 DEF SpentInv

\* The row of a worker's next action is new, and so inserted as nobody's outcome.
LEMMA InsertedRow ==
    ASSUME TypeOK, NEW w \in Requests, InsertRow(w)
    PROVE  /\ NextAction(w) \in Actions /\ rowStatus[NextAction(w)] = "NONE"
           /\ InsertedStatus(w) \in {"DISPATCHING", "SKIPPED", "PENDING"}
           /\ rowStatus' = [rowStatus EXCEPT ![NextAction(w)] = InsertedStatus(w)]
           /\ requestedAt' = [requestedAt EXCEPT ![NextAction(w)] = now]
           /\ pc[w] = "next"
BY NextActionType DEF InsertRow, InsertedStatus, AtAction

\* No row is ever deleted, nor is its claim's time set back.
LEMMA RowsGrow ==
    ASSUME TypeOK,
           \/ \E p \in Packets : Decide(p)
           \/ RowsKept
           \/ \E w \in Workers : RowSettled(w)
           \/ \E w \in Requests : RowInserted(w)
    PROVE  \A a \in Actions :
              /\ rowStatus'[a] = "NONE" => rowStatus[a] = "NONE"
              /\ rowStatus[a] # "NONE" => requestedAt[a] <= requestedAt'[a]
<1>1. ASSUME NEW p \in Packets, Decide(p) PROVE UNCHANGED <<rowStatus, requestedAt>>
  BY <1>1 DEF Decide, rowVars
<1>2. ASSUME NEW w \in Workers, RowSettled(w)
      PROVE  \A a \in Actions :
                /\ rowStatus'[a] = "NONE" => rowStatus[a] = "NONE"
                /\ requestedAt'[a] = requestedAt[a]
  BY <1>2, Types DEF RowSettled, Terminal
<1>3. ASSUME NEW w \in Requests, RowInserted(w)
      PROVE  \A a \in Actions :
                /\ rowStatus'[a] = "NONE" => rowStatus[a] = "NONE"
                /\ rowStatus[a] # "NONE" => requestedAt'[a] = requestedAt[a]
  BY <1>3, InsertedRow, Types DEF RowInserted
<1>4. \A a \in Actions : requestedAt[a] <= requestedAt[a]
  BY Types
<1> QED
  BY <1>1, <1>2, <1>3, <1>4 DEF RowsKept

LEMMA SpentStep ==
    ASSUME TypeOK, TypeOK', ApprovedInv, DriverInv, SpentInv, [Next]_vars
    PROVE  SpentInv'
<1>1. ASSUME NEW w \in Workers, Deliver(w) PROVE SpentInv'
  BY <1>1, SpentDeliver, Types
<1>2. ASSUME NEW w \in Requests, Reserve(w) PROVE SpentInv'
  <2> DEFINE b == NextAction(w)
  <2>1. /\ b \in Actions /\ rowStatus[b] = "NONE" /\ pc[w] = "next"
        /\ InsertedStatus(w) = "DISPATCHING"
        /\ rowStatus' = [rowStatus EXCEPT ![b] = InsertedStatus(w)]
        /\ requestedAt' = [requestedAt EXCEPT ![b] = now]
        /\ StartDispatch(w, b, now) /\ UNCHANGED calls
    BY <1>2, InsertedRow DEF Reserve, InsertedStatus
  <2>2. claimTimes[b] = {}
    BY <2>1 DEF SpentInv, ClaimsKnown
  <2>3. w \in Workers /\ now \in Nat
    BY WorkerFacts, Types
  <2> HIDE DEF b
  <2> QED
    BY <2>1, <2>2, <2>3, SpentStart
<1>3. ASSUME NEW s \in Sweepers, NEW a \in Actions, Reclaim(s, a) PROVE SpentInv'
  <2>1. /\ rowStatus[a] = "DISPATCHING" /\ requestedAt[a] + Lease < sweepNow[s]
        /\ requestedAt' = [requestedAt EXCEPT ![a] = sweepNow[s]]
        /\ StartDispatch(s, a, sweepNow[s]) /\ pc[s] = "sweep"
        /\ UNCHANGED <<rowStatus, calls>>
    BY <1>3 DEF Reclaim, Stale
  <2>2. rowStatus' = [rowStatus EXCEPT ![a] = "DISPATCHING"]
    BY <2>1, Types
  <2>3. s \in Workers /\ sweepNow[s] \in Nat
    BY WorkerFacts, Types
  <2>4. \A t \in claimTimes[a] : t \in Nat /\ t <= requestedAt[a]
    BY Types DEF SpentInv, ClaimsKnown
  <2>5. \A t \in claimTimes[a] : t + Lease < sweepNow[s]
    BY <2>1, <2>3, <2>4, WorkerFacts, Types
  <2> QED
    BY <2>1, <2>2, <2>3, <2>5, SpentStart
<1> QED
  BY <1>1, <1>2, <1>3, StepKinds, RowsGrow, SpentQuiet

LEMMA ReturnedStep ==
    ASSUME TypeOK, ApprovedInv, ReturnedInv, [Next]_vars
    PROVE  ReturnedInv'
<1>1. ASSUME NEW w \in Workers, Deliver(w) PROVE ReturnedInv'
  <2>1. /\ pc[w] = "deliver" /\ pc' = [pc EXCEPT ![w] = "finalize"]
        /\ calls' = [calls EXCEPT ![action[w]] = @ + 1]
        /\ returned \subseteq returned'
        /\ \/ verdict' = [verdict EXCEPT ![w] = "EXECUTED"] /\ action[w] \in returned'
           \/ verdict' = [verdict EXCEPT ![w] = "FAILED"]
        /\ UNCHANGED <<rowStatus, action>>
    BY <1>1 DEF Deliver, rowVars
  <2>2. \A v \in Workers : pc'[v] = "finalize" => v = w \/ pc[v] = "finalize"
    BY <2>1, Types
  <2>3. \A v \in Workers : pc'[v] = "finalize" /\ verdict'[v] = "EXECUTED"
                              => action'[v] \in returned'
    BY <2>1, <2>2, Types DEF ReturnedInv
  <2>4. \A v \in Workers : pc'[v] = "finalize" => calls'[action'[v]] > 0
    BY <2>1, <2>2, Types DEF ReturnedInv
  <2> QED
    BY <2>1, <2>3, <2>4 DEF ReturnedInv
<1>2. ASSUME NEW w \in Workers, NEW b \in Actions, NEW at, StartDispatch(w, b, at),
             UNCHANGED <<calls, returned>>,
             \A a \in Actions : rowStatus'[a] = "EXECUTED" => rowStatus[a] = "EXECUTED"
      PROVE  ReturnedInv'
  <2>1. /\ pc' = [pc EXCEPT ![w] = "deliver"] /\ action' = [action EXCEPT ![w] = b]
        /\ UNCHANGED verdict
    BY <1>2 DEF StartDispatch
  <2>2. \A v \in Workers : pc'[v] = "finalize" => pc[v] = "finalize" /\ action'[v] = action[v]
    BY <2>1, Types
  <2> QED
    BY <1>2, <2>1, <2>2 DEF ReturnedInv
<1>3. ASSUME NEW w \in Requests, Reserve(w) PROVE ReturnedInv'
  <2>1. /\ StartDispatch(w, NextAction(w), now) /\ UNCHANGED <<calls, returned>>
        /\ InsertRow(w)
    BY <1>3 DEF Reserve
  <2>2. \A a \in Actions : rowStatus'[a] = "EXECUTED" => rowStatus[a] = "EXECUTED"
    BY <2>1, InsertedRow, Types
  <2> QED
    BY <1>2, <2>1, <2>2, InsertedRow, WorkerFacts
<1>4. ASSUME NEW s \in Sweepers, NEW a \in Actions, Reclaim(s, a) PROVE ReturnedInv'
  <2>1. StartDispatch(s, a, sweepNow[s]) /\ UNCHANGED <<rowStatus, calls, returned>>
    BY <1>4 DEF Reclaim
  <2> QED
    BY <1>2, <2>1, WorkerFacts
<1>5. ASSUME Quiet,
             \A a \in Actions : rowStatus'[a] = "EXECUTED" =>
                \/ rowStatus[a] = "EXECUTED"
                \/ \E w \in Workers :
                      pc[w] = "finalize" /\ verdict[w] = "EXECUTED" /\ action[w] = a
      PROVE  ReturnedInv'
  <2>1. \A w \in Workers : pc'[w] = "finalize" =>
           /\ pc[w] = "finalize" /\ action'[w] = action[w]
           /\ verdict'[w] = "EXECUTED" => verdict[w] = "EXECUTED"
    BY <1>5 DEF Quiet, Kept, Dispatching
  <2>2. UNCHANGED <<calls, returned>>
    BY <1>5 DEF Quiet, historyVars
  <2> QED
    BY <1>5, <2>1, <2>2 DEF ReturnedInv
<1>6. ASSUME NEW w \in Workers, RowSettled(w), NEW a \in Actions, rowStatus'[a] = "EXECUTED"
      PROVE  \/ rowStatus[a] = "EXECUTED"
             \/ \E v \in Workers :
                   pc[v] = "finalize" /\ verdict[v] = "EXECUTED" /\ action[v] = a
  BY <1>6, Types DEF RowSettled
<1>7. ASSUME NEW w \in Requests, RowInserted(w), NEW a \in Actions, rowStatus'[a] = "EXECUTED"
      PROVE  rowStatus[a] = "EXECUTED"
  BY <1>7, InsertedRow, Types DEF RowInserted
<1>8. ASSUME NEW p \in Packets, Decide(p) PROVE UNCHANGED rowStatus
  BY <1>8 DEF Decide, rowVars
<1> QED
  BY <1>1, <1>3, <1>4, <1>5, <1>6, <1>7, <1>8, StepKinds DEF RowsKept

\* The claims held are some of the claims made, so the calls are not more than
\* the claims.
LEMMA SpentEnough == SpentInv /\ ReturnedInv /\ TypeOK => CallsSpentClaims
<1> SUFFICES ASSUME SpentInv, ReturnedInv, TypeOK, NEW a \in Actions
             PROVE  calls[a] <= Cardinality(claimTimes[a])
  BY DEF SpentInv, ReturnedInv, ClaimsKnown, CallsSpentClaims
<1> DEFINE free == claimTimes[a] \ HeldClaims(a)
<1>1. IsFiniteSet(claimTimes[a]) /\ calls[a] <= Cardinality(free) /\ calls[a] \in Nat
  BY Types DEF SpentInv, ClaimsKnown
<1>2. free \subseteq claimTimes[a]
  OBVIOUS
<1> HIDE DEF free
<1>3. /\ Cardinality(free) <= Cardinality(claimTimes[a])
      /\ Cardinality(free) \in Nat /\ Cardinality(claimTimes[a]) \in Nat
  BY <1>1, <1>2, FS_Subset, FS_CardinalityType
<1> QED
  BY <1>1, <1>3

LEMMA SpentAlways ==
    Spec => [](TypeOK /\ ApprovedInv /\ DriverInv /\ SpentInv /\ ReturnedInv)
<1>1. Init => SpentInv /\ ReturnedInv
  BY SpentInit
<1>2. /\ TypeOK /\ TypeOK' /\ ApprovedInv /\ DriverInv /\ SpentInv /\ ReturnedInv
      /\ [Next]_vars
      => SpentInv' /\ ReturnedInv'
  BY SpentStep, ReturnedStep
<1> QED
  BY <1>1, <1>2, ApprovedAlways, DriverAlways, PTL DEF Spec

\* Every transport call of an action spends a claim of its own, claims of one row
\* are more than a lease apart, and a row says EXECUTED only when a call returned,
\* over all crashes, sweeps and failed store calls (action-executor.ts:332-350,
\* 446-488).
THEOREM CallsAreSpentClaims == Spec => []CallsSpentClaims
BY SpentAlways, SpentEnough, PTL

-----------------------------------------------------------------------------
(* The packet's trail.                                                     *)
(*                                                                         *)
(* The trail is appended by an unlocked read-modify-write, so a later save *)
(* may drop entries; what it may not do is repeat one.  The strengthening  *)
(* follows the actions a request owes the trail: those it created a row    *)
(* for and has not audited yet.  No other request owes them, and neither a *)
(* trail nor a snapshot that somebody will write back speaks of them.      *)

Speaks(entries, a) == \E i \in 1..Len(entries) : entries[i].action = a

\* The entries speak of actions of the packet, each with a row, each once.
Sound(entries, p, rows) ==
    /\ \A i, j \in 1..Len(entries) : entries[i].action = entries[j].action => i = j
    /\ \A i \in 1..Len(entries) :
          PacketOf[entries[i].action] = p /\ rows[entries[i].action] # "NONE"

Owes(w, a) == Speaks(created[w], a) \/ (Dispatching(w) /\ action[w] = a)

Unaudited(w, a) ==
    /\ \A v \in Requests : ~Speaks(snapshot[v].trail, a)
    /\ \A v \in Requests \ {w} : ~Owes(v, a)
    /\ \A p \in Packets : ~Speaks(trail[p], a)

RunKnown(w) ==
    /\ Sound(created[w], job[w], rowStatus)
    /\ Sound(snapshot[w].trail, job[w], rowStatus)
    /\ Dispatching(w) =>
          /\ ~Speaks(created[w], action[w])
          /\ PacketOf[action[w]] = job[w] /\ rowStatus[action[w]] # "NONE"
    /\ pc[w] = "idle" => created[w] = <<>> /\ snapshot[w].trail = <<>>

TrailInv ==
    /\ \A p \in Packets : Sound(trail[p], p, rowStatus)
    /\ \A w \in Requests : RunKnown(w)
    /\ \A w \in Requests, a \in Actions : Owes(w, a) => Unaudited(w, a)

LEMMA TrailTypes == TypeOK =>
    /\ trail \in [Packets -> Seq(AuditEntry)] /\ job \in [Requests -> Packets]
    /\ created \in [Requests -> Seq(AuditEntry)]
    /\ \A w \in Requests : snapshot[w].trail \in Seq(AuditEntry)
    /\ snapshot \in [Requests -> [approval: ApprovalStatus, trail: Seq(AuditEntry)]]
    /\ \A w \in Requests : pc[w] \in RequestPc
    /\ cursor \in [Requests -> Nat \ {0}] /\ auto \in [Requests -> BOOLEAN]
BY DEF TypeOK, TypeStore, TypeRequest, TypePc

-----------------------------------------------------------------------------
(* Entries.                                                                *)

LEMMA NothingSaid ==
    /\ \A a : ~Speaks(<<>>, a)
    /\ \A p, rows : Sound(<<>>, p, rows)
BY DEF Speaks, Sound

LEMMA EntryType ==
    ASSUME NEW s \in Seq(AuditEntry), NEW i \in 1..Len(s)
    PROVE  s[i].action \in Actions
<1>1. s[i] \in AuditEntry
  OBVIOUS
<1> QED
  BY <1>1 DEF AuditEntry

\* Rows only appear.
LEMMA SoundKept ==
    ASSUME NEW s \in Seq(AuditEntry), NEW p, NEW rows, NEW rows1, Sound(s, p, rows),
           \A a \in Actions : rows1[a] = "NONE" => rows[a] = "NONE"
    PROVE  Sound(s, p, rows1)
<1>1. \A i \in 1..Len(s) : s[i].action \in Actions
  BY EntryType
<1> QED
  BY <1>1 DEF Sound

LEMMA SaidOfRows ==
    ASSUME NEW s \in Seq(AuditEntry), NEW p, NEW rows, Sound(s, p, rows),
           NEW a, Speaks(s, a)
    PROVE  a \in Actions /\ rows[a] # "NONE" /\ PacketOf[a] = p
<1>1. \A i \in 1..Len(s) : s[i].action \in Actions
  BY EntryType
<1> QED
  BY <1>1 DEF Sound, Speaks

LEMMA AppendSaid ==
    ASSUME NEW s \in Seq(AuditEntry), NEW e \in AuditEntry, NEW a
    PROVE  Speaks(Append(s, e), a) <=> Speaks(s, a) \/ e.action = a
<1>1. /\ Len(Append(s, e)) = Len(s) + 1 /\ Len(s) \in Nat
      /\ Append(s, e)[Len(s) + 1] = e
      /\ \A i \in 1..Len(s) : Append(s, e)[i] = s[i]
  OBVIOUS
<1>2. \A i \in 1..(Len(s) + 1) : i \in 1..Len(s) \/ i = Len(s) + 1
  BY <1>1
<1>3. Len(s) + 1 \in 1..(Len(s) + 1) /\ \A i \in 1..Len(s) : i \in 1..(Len(s) + 1)
  BY <1>1
<1> HIDE DEF AuditEntry
<1> QED
  BY <1>1, <1>2, <1>3 DEF Speaks

LEMMA AppendSound ==
    ASSUME NEW s \in Seq(AuditEntry), NEW e \in AuditEntry, NEW p, NEW rows,
           Sound(s, p, rows), ~Speaks(s, e.action),
           PacketOf[e.action] = p, rows[e.action] # "NONE"
    PROVE  Sound(Append(s, e), p, rows)
<1>1. /\ Len(Append(s, e)) = Len(s) + 1 /\ Len(s) \in Nat
      /\ Append(s, e)[Len(s) + 1] = e
      /\ \A i \in 1..Len(s) : Append(s, e)[i] = s[i]
  OBVIOUS
<1>2. \A i \in 1..(Len(s) + 1) : i \in 1..Len(s) \/ i = Len(s) + 1
  BY <1>1
<1> DEFINE t == Append(s, e)
<1> HIDE DEF t
<1>3. /\ Len(t) = Len(s) + 1 /\ t[Len(s) + 1] = e
      /\ \A i \in 1..Len(s) : t[i] = s[i]
  BY <1>1 DEF t
<1>4. \A i, j \in 1..Len(t) : t[i].action = t[j].action => i = j
  BY <1>2, <1>3 DEF Sound, Speaks
<1>5. \A i \in 1..Len(t) : PacketOf[t[i].action] = p /\ rows[t[i].action] # "NONE"
  BY <1>2, <1>3 DEF Sound
<1> QED
  BY <1>4, <1>5 DEF Sound, t

LEMMA ConcatPlaces ==
    ASSUME NEW s \in Seq(AuditEntry), NEW t \in Seq(AuditEntry)
    PROVE  /\ Len(s) \in Nat /\ Len(t) \in Nat /\ Len(s \o t) = Len(s) + Len(t)
           /\ \A i \in 1..Len(s \o t) :
                 \/ i \in 1..Len(s) /\ (s \o t)[i] = s[i]
                 \/ i - Len(s) \in 1..Len(t) /\ (s \o t)[i] = t[i - Len(s)]
OBVIOUS

LEMMA ConcatSaid ==
    ASSUME NEW s \in Seq(AuditEntry), NEW t \in Seq(AuditEntry), NEW a, Speaks(s \o t, a)
    PROVE  Speaks(s, a) \/ Speaks(t, a)
BY ConcatPlaces DEF Speaks

LEMMA ConcatSound ==
    ASSUME NEW s \in Seq(AuditEntry), NEW t \in Seq(AuditEntry), NEW p, NEW rows,
           Sound(s, p, rows), Sound(t, p, rows),
           \A i \in 1..Len(t) : ~Speaks(s, t[i].action)
    PROVE  Sound(s \o t, p, rows)
<1> DEFINE u == s \o t
           n == Len(s)
           m == Len(t)
<1>1. /\ n \in Nat /\ m \in Nat /\ Len(u) = n + m
      /\ \A i \in 1..Len(u) : \/ i \in 1..n /\ u[i] = s[i]
                              \/ i - n \in 1..m /\ u[i] = t[i - n]
  BY ConcatPlaces
<1> HIDE DEF u, n, m
<1>2. ASSUME NEW i \in 1..Len(u), NEW j \in 1..Len(u), u[i].action = u[j].action
      PROVE  i = j
  <2>1. CASE i \in 1..n /\ u[i] = s[i] /\ j \in 1..n /\ u[j] = s[j]
    BY <1>2, <2>1 DEF Sound, n
  <2>2. CASE i \in 1..n /\ u[i] = s[i] /\ j - n \in 1..m /\ u[j] = t[j - n]
    BY <1>2, <2>2 DEF Speaks, n, m
  <2>3. CASE i - n \in 1..m /\ u[i] = t[i - n] /\ j \in 1..n /\ u[j] = s[j]
    BY <1>2, <2>3 DEF Speaks, n, m
  <2>4. CASE i - n \in 1..m /\ u[i] = t[i - n] /\ j - n \in 1..m /\ u[j] = t[j - n]
    <3>1. i - n = j - n
      BY <1>2, <2>4 DEF Sound, m
    <3> QED
      BY <1>1, <3>1
  <2> QED
    BY <1>1, <2>1, <2>2, <2>3, <2>4
<1>3. ASSUME NEW i \in 1..Len(u)
      PROVE  PacketOf[u[i].action] = p /\ rows[u[i].action] # "NONE"
  <2>1. CASE i \in 1..n /\ u[i] = s[i]
    BY <2>1 DEF Sound, n
  <2>2. CASE i - n \in 1..m /\ u[i] = t[i - n]
    BY <2>2 DEF Sound, m
  <2> QED
    BY <1>1, <2>1, <2>2
<1> QED
  BY <1>2, <1>3 DEF Sound, u

-----------------------------------------------------------------------------
(* Steps.                                                                  *)

LEMMA TrailInit == Init => TrailInv
<1> SUFFICES ASSUME Init PROVE TrailInv
  OBVIOUS
<1>1. /\ \A p \in Packets : trail[p] = <<>>
      /\ \A w \in Requests : created[w] = <<>> /\ snapshot[w].trail = <<>>
      /\ \A w \in Requests : ~Dispatching(w)
  BY WorkerFacts DEF Init, NoSnapshot, Dispatching
<1>2. \A w \in Requests : RunKnown(w)
  BY <1>1, NothingSaid DEF RunKnown
<1> QED
  BY <1>1, <1>2, NothingSaid DEF TrailInv, Owes

\* What is owed, written or about to be written has a row.
LEMMA SpokenHasRow ==
    ASSUME TypeOK, TrailInv, NEW a
    PROVE  /\ \A w \in Requests : Owes(w, a) => a \in Actions /\ rowStatus[a] # "NONE"
           /\ \A w \in Requests : Speaks(snapshot[w].trail, a) => rowStatus[a] # "NONE"
           /\ \A p \in Packets : Speaks(trail[p], a) => rowStatus[a] # "NONE"
<1>1. ASSUME NEW w \in Requests, Owes(w, a) PROVE a \in Actions /\ rowStatus[a] # "NONE"
  <2>1. CASE Speaks(created[w], a)
    BY <2>1, TrailTypes, SaidOfRows DEF TrailInv, RunKnown
  <2>2. CASE Dispatching(w) /\ action[w] = a
    BY <2>2, Types, WorkerFacts DEF TrailInv, RunKnown
  <2> QED
    BY <1>1, <2>1, <2>2 DEF Owes
<1> QED
  BY <1>1, TrailTypes, SaidOfRows DEF TrailInv, RunKnown

\* Debts stay debts of one request: a new one is for a row there was not, a
\* snapshot is taken of a trail, and a trail grows by what its writer owed.
LEMMA OwedStep ==
    ASSUME TypeOK, TrailInv, NEW w,
           \A v \in Requests, a \in Actions : Owes(v, a)' =>
              Owes(v, a) \/ (v = w /\ rowStatus[a] = "NONE"),
           \A v \in Requests, a \in Actions : Speaks(snapshot'[v].trail, a) =>
              Speaks(snapshot[v].trail, a) \/ \E p \in Packets : Speaks(trail[p], a),
           \A p \in Packets, a \in Actions : Speaks(trail'[p], a) =>
              \/ Speaks(trail[p], a)
              \/ \E v \in Requests : Speaks(snapshot[v].trail, a)
              \/ \E v \in Requests : Owes(v, a) /\ ~Owes(v, a)'
    PROVE  \A v \in Requests, a \in Actions : Owes(v, a)' => Unaudited(v, a)'
<1> SUFFICES ASSUME NEW v \in Requests, NEW a \in Actions, Owes(v, a)'
             PROVE  Unaudited(v, a)'
  OBVIOUS
<1>1. CASE Owes(v, a)
  <2>1. /\ \A u \in Requests : ~Speaks(snapshot[u].trail, a)
        /\ \A u \in Requests \ {v} : ~Owes(u, a)
        /\ \A p \in Packets : ~Speaks(trail[p], a)
        /\ rowStatus[a] # "NONE"
    BY <1>1, SpokenHasRow DEF TrailInv, Unaudited
  <2>2. \A u \in Requests \ {v} : ~Owes(u, a)'
    BY <2>1
  <2>3. \A u \in Requests : ~Speaks(snapshot'[u].trail, a)
    BY <2>1
  <2>4. \A p \in Packets : ~Speaks(trail'[p], a)
    BY <2>1
  <2> QED
    BY <2>2, <2>3, <2>4 DEF Unaudited
<1>2. CASE v = w /\ rowStatus[a] = "NONE"
  <2>1. /\ \A u \in Requests : ~Speaks(snapshot[u].trail, a)
        /\ \A u \in Requests : ~Owes(u, a)
        /\ \A p \in Packets : ~Speaks(trail[p], a)
    BY <1>2, SpokenHasRow
  <2>2. \A u \in Requests \ {v} : ~Owes(u, a)'
    BY <1>2, <2>1
  <2>3. \A u \in Requests : ~Speaks(snapshot'[u].trail, a)
    BY <2>1
  <2>4. \A p \in Packets : ~Speaks(trail'[p], a)
    BY <2>1
  <2> QED
    BY <2>2, <2>3, <2>4 DEF Unaudited
<1> QED
  BY <1>1, <1>2

\* A request that goes on as before, one that starts, and one that is gone.
Stays(w) ==
    /\ UNCHANGED <<created[w], snapshot[w], job[w]>>
    /\ Dispatching(w)' => Dispatching(w) /\ action'[w] = action[w]
    /\ pc'[w] = "idle" => pc[w] = "idle"
Starts(w) == pc[w] = "idle" /\ pc'[w] = "next" /\ UNCHANGED <<created[w], snapshot[w]>>
Gone(w) == created'[w] = <<>> /\ snapshot'[w].trail = <<>> /\ ~Dispatching(w)'

RowsAppear == \A a \in Actions : rowStatus'[a] = "NONE" => rowStatus[a] = "NONE"

LEMMA RunKept ==
    ASSUME TypeOK, TrailInv, RowsAppear, NEW w \in Requests, Stays(w) \/ Starts(w) \/ Gone(w)
    PROVE  /\ RunKnown(w)'
           /\ \A a \in Actions : Owes(w, a)' => Owes(w, a)
           /\ \A a \in Actions : Speaks(snapshot'[w].trail, a) => Speaks(snapshot[w].trail, a)
<1>1. CASE Gone(w)
  BY <1>1, NothingSaid DEF Gone, RunKnown, Owes
<1>2. CASE Starts(w)
  <2>1. created'[w] = <<>> /\ snapshot'[w].trail = <<>> /\ ~Dispatching(w)' /\ pc'[w] # "idle"
    BY <1>2 DEF TrailInv, RunKnown, Starts, Dispatching
  <2> QED
    BY <2>1, NothingSaid DEF RunKnown, Owes
<1>3. CASE Stays(w)
  <2>1. RunKnown(w)
    BY DEF TrailInv
  <2>2. /\ created'[w] = created[w] /\ snapshot'[w] = snapshot[w] /\ job'[w] = job[w]
        /\ Dispatching(w)' => Dispatching(w) /\ action'[w] = action[w]
        /\ pc'[w] = "idle" => pc[w] = "idle"
    BY <1>3 DEF Stays
  <2>3. Sound(created[w], job[w], rowStatus') /\ Sound(snapshot[w].trail, job[w], rowStatus')
    BY <2>1, TrailTypes, SoundKept DEF RunKnown, RowsAppear
  <2>4. action[w] \in Actions
    BY Types, WorkerFacts
  <2>5. RunKnown(w)'
    BY <2>1, <2>2, <2>3, <2>4 DEF RunKnown, RowsAppear
  <2> QED
    BY <2>2, <2>5 DEF Owes
<1> QED
  BY <1>1, <1>2, <1>3

LEMMA TrailSound ==
    ASSUME TypeOK, TrailInv, RowsAppear, NEW p \in Packets, trail'[p] = trail[p]
    PROVE  Sound(trail'[p], p, rowStatus')
BY TrailTypes, SoundKept DEF TrailInv, RowsAppear

\* A step in which no request adds to what it owes or has read, nor writes.
LEMMA TrailQuiet ==
    ASSUME TypeOK, TrailInv, RowsAppear, UNCHANGED trail,
           \A w \in Requests : Stays(w) \/ Starts(w) \/ Gone(w)
    PROVE  TrailInv'
<1>1. \A w \in Requests :
         /\ RunKnown(w)'
         /\ \A a \in Actions : Owes(w, a)' => Owes(w, a)
         /\ \A a \in Actions : Speaks(snapshot'[w].trail, a) => Speaks(snapshot[w].trail, a)
  BY RunKept
<1>2. \A p \in Packets : Sound(trail'[p], p, rowStatus')
  BY TrailSound
<1>3. \A v \in Requests, a \in Actions : Owes(v, a)' => Unaudited(v, a)'
  BY <1>1, OwedStep
<1> QED
  BY <1>1, <1>2, <1>3 DEF TrailInv

\* A request comes to owe `a`, whose row is new or which it was dispatching.
LEMMA TrailOwes ==
    ASSUME TypeOK, TrailInv, RowsAppear, UNCHANGED <<trail, snapshot, job>>,
           NEW w \in Requests, NEW a \in Actions,
           rowStatus[a] = "NONE" \/ Owes(w, a),
           RunKnown(w)',
           \A b \in Actions : Owes(w, b)' => Owes(w, b) \/ b = a,
           \A v \in Requests \ {w} : Stays(v)
    PROVE  TrailInv'
<1>1. \A v \in Requests \ {w} : RunKnown(v)' /\ \A b \in Actions : Owes(v, b)' => Owes(v, b)
  BY RunKept
<1>2. \A p \in Packets : Sound(trail'[p], p, rowStatus')
  BY TrailSound
<1>3. \A v \in Requests, b \in Actions : Owes(v, b)' =>
         Owes(v, b) \/ (v = w /\ rowStatus[b] = "NONE")
  BY <1>1
<1>4. \A v \in Requests, b \in Actions : Owes(v, b)' => Unaudited(v, b)'
  BY <1>3, OwedStep
<1> QED
  BY <1>1, <1>2, <1>4 DEF TrailInv

\* A request that returns or throws leaves nothing behind; the others go on.
LEMMA LeaveGone ==
    ASSUME TypeOK, NEW w \in Requests, Leave(w), action' = action \/ EndDispatch(w)
    PROVE  \A v \in Requests : Stays(v) \/ Gone(v)
<1>1. /\ pc' = [pc EXCEPT ![w] = "idle"] /\ job' = [job EXCEPT ![w] = AnyPacket]
      /\ created' = [created EXCEPT ![w] = <<>>]
      /\ snapshot' = [snapshot EXCEPT ![w] = NoSnapshot]
  BY DEF Leave
<1>2. Gone(w)
  BY <1>1, Types, TrailTypes, WorkerFacts DEF Gone, NoSnapshot, Dispatching
<1>3. \A v \in Requests \ {w} : action'[v] = action[v]
  BY Types, WorkerFacts DEF EndDispatch
<1>4. \A v \in Requests \ {w} : Stays(v)
  BY <1>1, <1>3, Types, TrailTypes, WorkerFacts DEF Stays, Dispatching
<1> QED
  BY <1>2, <1>4

\* The steps of dispatching workers, but for a request's finalize.
LEMMA TrailDispatch ==
    ASSUME TypeOK, TrailInv, ApprovedInv, NEW w \in Workers,
           Deliver(w) \/ FinalizeFault(w) \/ (w \in Sweepers /\ Finalize(w))
    PROVE  TrailInv'
<1>1. ASSUME Deliver(w) PROVE TrailInv'
  <2>1. /\ pc[w] = "deliver" /\ pc' = [pc EXCEPT ![w] = "finalize"]
        /\ UNCHANGED <<rowStatus, trail, created, snapshot, job, action>>
    BY <1>1 DEF Deliver, packetVars, rowVars, requestVars
  <2>2. \A v \in Requests : Stays(v)
    BY <2>1, Types, WorkerFacts DEF Stays, Dispatching
  <2> QED
    BY <2>1, <2>2, TrailQuiet DEF RowsAppear
<1>2. ASSUME rowStatus' = rowStatus \/ rowStatus' = [rowStatus EXCEPT ![action[w]] = verdict[w]]
      PROVE  RowsAppear
  BY <1>2, Types DEF RowsAppear, Terminal
<1>3. ASSUME w \in Sweepers, pc' = [pc EXCEPT ![w] = "sweep"], EndDispatch(w),
             UNCHANGED <<created, snapshot, job>>
      PROVE  \A v \in Requests : Stays(v)
  <2>1. \A v \in Requests : pc'[v] = pc[v] /\ action'[v] = action[v]
    BY <1>3, Types, WorkerFacts DEF EndDispatch
  <2> QED
    BY <1>3, <2>1 DEF Stays, Dispatching
<1>4. ASSUME w \in Sweepers, Finalize(w) PROVE TrailInv'
  <2>1. /\ rowStatus' = [rowStatus EXCEPT ![action[w]] = verdict[w]]
        /\ EndDispatch(w) /\ UNCHANGED <<trail, snapshot, job>>
    BY <1>4 DEF Finalize, packetVars
  <2>2. pc' = [pc EXCEPT ![w] = "sweep"] /\ UNCHANGED created
    BY <1>4, WorkerFacts DEF Finalize
  <2> QED
    BY <1>2, <1>3, <1>4, <2>1, <2>2, TrailQuiet
<1>5. ASSUME FinalizeFault(w) PROVE TrailInv'
  <2>1. /\ rowStatus' = rowStatus \/ rowStatus' = [rowStatus EXCEPT ![action[w]] = verdict[w]]
        /\ UNCHANGED trail
    BY <1>5 DEF FinalizeFault, packetVars
  <2>2. \/ UNCHANGED <<pc, action, requestVars>>
        \/ EndDispatch(w) /\ w \in Requests /\ Leave(w)
        \/ /\ EndDispatch(w) /\ w \in Sweepers
           /\ pc' = [pc EXCEPT ![w] = "sweep"] /\ UNCHANGED requestVars
    BY <1>5 DEF FinalizeFault
  <2>3. UNCHANGED <<pc, action, requestVars>> => \A v \in Requests : Stays(v)
    BY DEF requestVars, Stays, Dispatching
  <2>4. UNCHANGED requestVars => UNCHANGED <<created, snapshot, job>>
    BY DEF requestVars
  <2>5. \A v \in Requests : Stays(v) \/ Gone(v)
    BY <1>3, <2>2, <2>3, <2>4, LeaveGone
  <2> QED
    BY <1>2, <2>1, <2>5, TrailQuiet
<1> QED
  BY <1>1, <1>4, <1>5

\* A request's finalize moves the action from its dispatch to its entries.
LEMMA TrailFinalize ==
    ASSUME TypeOK, TrailInv, NEW w \in Requests, Finalize(w)
    PROVE  TrailInv'
<1> DEFINE e == [action |-> action[w], status |-> verdict[w]]
<1>1. /\ pc[w] = "finalize" /\ pc' = [pc EXCEPT ![w] = "next"]
      /\ rowStatus' = [rowStatus EXCEPT ![action[w]] = verdict[w]]
      /\ created' = [created EXCEPT ![w] = Append(@, e)]
      /\ action' = [action EXCEPT ![w] = AnyAction]
      /\ UNCHANGED <<trail, snapshot, job>>
  BY WorkerFacts DEF Finalize, EndDispatch, packetVars
<1>2. e \in AuditEntry /\ e.action = action[w] /\ action[w] \in Actions
  BY Types, WorkerFacts DEF AuditEntry, RowStatus, Terminal
<1> HIDE DEF e
<1>3. RowsAppear /\ rowStatus'[action[w]] # "NONE"
  BY <1>1, <1>2, Types, WorkerFacts DEF RowsAppear, Terminal
<1>4. /\ Dispatching(w) /\ RunKnown(w) /\ created[w] \in Seq(AuditEntry)
      /\ created'[w] = Append(created[w], e)
      /\ snapshot[w].trail \in Seq(AuditEntry)
      /\ ~Dispatching(w)' /\ pc'[w] = "next"
  BY <1>1, Types, TrailTypes, WorkerFacts DEF Dispatching, TrailInv
<1>5. Sound(created[w], job[w], rowStatus') /\ Sound(snapshot[w].trail, job[w], rowStatus')
  BY <1>3, <1>4, SoundKept DEF RunKnown, RowsAppear
<1>6. Sound(Append(created[w], e), job[w], rowStatus')
  BY <1>2, <1>3, <1>4, <1>5, AppendSound DEF RunKnown
<1>7. RunKnown(w)'
  BY <1>1, <1>4, <1>5, <1>6 DEF RunKnown
<1>8. \A b \in Actions : Owes(w, b)' => Owes(w, b) \/ b = action[w]
  BY <1>2, <1>4, AppendSaid DEF Owes
<1>9. Owes(w, action[w])
  BY <1>4 DEF Owes
<1>10. \A v \in Requests \ {w} : Stays(v)
  <2>1. \A v \in Requests \ {w} : pc'[v] = pc[v] /\ action'[v] = action[v] /\ created'[v] = created[v]
    BY <1>1, Types, TrailTypes, WorkerFacts
  <2> QED
    BY <1>1, <2>1 DEF Stays, Dispatching
<1> QED
  BY <1>1, <1>2, <1>3, <1>7, <1>8, <1>9, <1>10, TrailOwes

\* A request that inserts a row comes to owe its action.
LEMMA TrailReserve ==
    ASSUME TypeOK, TrailInv, NEW w \in Requests, Reserve(w)
    PROVE  TrailInv'
<1> DEFINE a == NextAction(w)
<1>1. /\ a \in Actions /\ rowStatus[a] = "NONE" /\ pc[w] = "next"
      /\ rowStatus' = [rowStatus EXCEPT ![a] = InsertedStatus(w)]
      /\ InsertedStatus(w) # "NONE" /\ PacketOf[a] = job[w]
      /\ pc' = [pc EXCEPT ![w] = "deliver"] /\ action' = [action EXCEPT ![w] = a]
      /\ UNCHANGED <<trail, snapshot, job, created>>
  BY InsertedRow, NextActionType
     DEF Reserve, InsertRow, StartDispatch, packetVars, requestVars
<1> HIDE DEF a
<1>2. RowsAppear /\ rowStatus'[a] # "NONE"
  BY <1>1, Types DEF RowsAppear
<1>3. /\ RunKnown(w) /\ ~Speaks(created[w], a) /\ action'[w] = a /\ pc'[w] = "deliver"
  BY <1>1, Types, WorkerFacts, SpokenHasRow DEF TrailInv, Owes
<1>4. Sound(created[w], job[w], rowStatus') /\ Sound(snapshot[w].trail, job[w], rowStatus')
  BY <1>2, <1>3, TrailTypes, SoundKept DEF RunKnown, RowsAppear
<1>5. RunKnown(w)'
  BY <1>1, <1>2, <1>3, <1>4 DEF RunKnown
<1>6. \A b \in Actions : Owes(w, b)' => Owes(w, b) \/ b = a
  BY <1>1, <1>3 DEF Owes
<1>7. \A v \in Requests \ {w} : Stays(v)
  <2>1. \A v \in Requests \ {w} : pc'[v] = pc[v] /\ action'[v] = action[v]
    BY <1>1, Types, WorkerFacts
  <2> QED
    BY <1>1, <2>1 DEF Stays, Dispatching
<1> QED
  BY <1>1, <1>2, <1>5, <1>6, <1>7, TrailOwes

LEMMA TrailRecord ==
    ASSUME TypeOK, TrailInv, NEW w \in Requests, RecordNonDispatched(w)
    PROVE  TrailInv'
<1> DEFINE a == NextAction(w)
           e == [action |-> a, status |-> InsertedStatus(w)]
<1>1. /\ a \in Actions /\ rowStatus[a] = "NONE" /\ pc[w] = "next"
      /\ rowStatus' = [rowStatus EXCEPT ![a] = InsertedStatus(w)]
      /\ InsertedStatus(w) \in {"DISPATCHING", "SKIPPED", "PENDING"} /\ PacketOf[a] = job[w]
      /\ created' = [created EXCEPT ![w] = Append(@, e)]
      /\ UNCHANGED <<trail, snapshot, job, pc, action>>
  BY InsertedRow, NextActionType DEF RecordNonDispatched, InsertRow, packetVars, dispatchVars
<1>2. e \in AuditEntry /\ e.action = a
  BY <1>1 DEF AuditEntry, RowStatus
<1> HIDE DEF a, e
<1>3. RowsAppear /\ rowStatus'[a] # "NONE"
  BY <1>1, Types DEF RowsAppear
<1>4. /\ RunKnown(w) /\ ~Speaks(created[w], a) /\ created'[w] = Append(created[w], e)
      /\ created[w] \in Seq(AuditEntry) /\ snapshot[w].trail \in Seq(AuditEntry)
      /\ ~Dispatching(w)' /\ pc'[w] = "next"
  BY <1>1, TrailTypes, SpokenHasRow DEF TrailInv, Owes, Dispatching
<1>5. Sound(created[w], job[w], rowStatus') /\ Sound(snapshot[w].trail, job[w], rowStatus')
  BY <1>3, <1>4, SoundKept DEF RunKnown, RowsAppear
<1>6. Sound(Append(created[w], e), job[w], rowStatus')
  BY <1>1, <1>2, <1>3, <1>4, <1>5, AppendSound
<1>7. RunKnown(w)'
  BY <1>1, <1>4, <1>5, <1>6 DEF RunKnown
<1>8. \A b \in Actions : Owes(w, b)' => Owes(w, b) \/ b = a
  BY <1>2, <1>4, AppendSaid DEF Owes
<1>9. \A v \in Requests \ {w} : Stays(v)
  BY <1>1, TrailTypes DEF Stays, Dispatching
<1> QED
  BY <1>1, <1>3, <1>7, <1>8, <1>9, TrailOwes

\* The snapshot is the trail as it is.
LEMMA TrailRead ==
    ASSUME TypeOK, TrailInv, NEW w \in Requests, AuditRead(w)
    PROVE  TrailInv'
<1>1. /\ pc[w] = "next" /\ pc' = [pc EXCEPT ![w] = "write"]
      /\ snapshot' = [snapshot EXCEPT ![w] =
                        [approval |-> approval[job[w]], trail |-> trail[job[w]]]]
      /\ UNCHANGED <<trail, rowStatus, created, job, action>>
  BY DEF AuditRead, AtEnd, packetVars, rowVars, dispatchVars
<1>2. /\ job[w] \in Packets /\ snapshot'[w].trail = trail[job[w]] /\ pc'[w] = "write"
      /\ ~Dispatching(w)' /\ RunKnown(w)
  BY <1>1, Types, TrailTypes, WorkerFacts DEF TrailInv, Dispatching
<1>3. Sound(trail[job[w]], job[w], rowStatus)
  BY <1>2 DEF TrailInv
<1>4. RunKnown(w)'
  BY <1>1, <1>2, <1>3 DEF RunKnown
<1>5. RowsAppear
  BY <1>1 DEF RowsAppear
<1>6. \A v \in Requests \ {w} : Stays(v)
  <2>1. \A v \in Requests \ {w} : pc'[v] = pc[v] /\ snapshot'[v] = snapshot[v]
    BY <1>1, Types, TrailTypes, WorkerFacts
  <2> QED
    BY <1>1, <2>1 DEF Stays, Dispatching
<1>7. \A v \in Requests \ {w} :
         /\ RunKnown(v)'
         /\ \A a \in Actions : Owes(v, a)' => Owes(v, a)
         /\ \A a \in Actions : Speaks(snapshot'[v].trail, a) => Speaks(snapshot[v].trail, a)
  BY <1>5, <1>6, RunKept
<1>8. \A p \in Packets : Sound(trail'[p], p, rowStatus')
  BY <1>1, <1>5, TrailSound
<1>9. \A a \in Actions : Owes(w, a)' => Owes(w, a)
  BY <1>1, <1>2 DEF Owes
<1>10. \A v \in Requests, a \in Actions : Speaks(snapshot'[v].trail, a) =>
          Speaks(snapshot[v].trail, a) \/ \E p \in Packets : Speaks(trail[p], a)
  BY <1>2, <1>7
<1>11. \A v \in Requests, a \in Actions : Owes(v, a)' => Unaudited(v, a)'
  BY <1>1, <1>7, <1>9, <1>10, OwedStep
<1> QED
  BY <1>4, <1>7, <1>8, <1>11 DEF TrailInv

\* What the request writes was sound when it read it, and speaks of none of the
\* actions it adds.
LEMMA TrailWrite ==
    ASSUME TypeOK, TrailInv, NEW w \in Requests, AuditWrite(w)
    PROVE  TrailInv'
<1> DEFINE s == snapshot[w].trail
           t == created[w]
           q == job[w]
<1>1. /\ pc[w] = "write" /\ Leave(w)
      /\ trail' = [trail EXCEPT ![q] = s \o t]
      /\ UNCHANGED <<rowStatus, action>>
  BY DEF AuditWrite, rowVars, dispatchVars
<1>2. /\ q \in Packets /\ s \in Seq(AuditEntry) /\ t \in Seq(AuditEntry)
      /\ trail'[q] = s \o t /\ \A p \in Packets \ {q} : trail'[p] = trail[p]
      /\ ~Dispatching(w) /\ Gone(w)
  <2>1. Gone(w)
    BY <1>1, Types, TrailTypes, WorkerFacts DEF Leave, Gone, NoSnapshot, Dispatching
  <2> QED
    BY <1>1, <2>1, TrailTypes DEF Dispatching
<1>3. RunKnown(w) /\ RowsAppear
  BY <1>1 DEF TrailInv, RowsAppear
<1>4. \A i \in 1..Len(t) : t[i].action \in Actions /\ Owes(w, t[i].action)
  BY <1>2, EntryType DEF Owes, Speaks
<1>5. \A i \in 1..Len(t) : ~Speaks(s, t[i].action)
  BY <1>4 DEF TrailInv, Unaudited
<1>6. Sound(s \o t, q, rowStatus)
  BY <1>2, <1>3, <1>5, ConcatSound DEF RunKnown
<1>7. ASSUME NEW p \in Packets PROVE Sound(trail'[p], p, rowStatus')
  <2>1. CASE p = q
    BY <1>1, <1>2, <1>6, <2>1
  <2>2. CASE p # q
    BY <1>2, <1>3, <2>2, TrailSound
  <2> QED
    BY <2>1, <2>2
<1>8. \A v \in Requests : Stays(v) \/ Gone(v)
  BY <1>1, LeaveGone
<1>9. \A v \in Requests :
         /\ RunKnown(v)'
         /\ \A a \in Actions : Owes(v, a)' => Owes(v, a)
         /\ \A a \in Actions : Speaks(snapshot'[v].trail, a) => Speaks(snapshot[v].trail, a)
  BY <1>3, <1>8, RunKept
<1>10. ASSUME NEW a \in Actions PROVE ~Owes(w, a)'
  BY <1>2, NothingSaid DEF Gone, Owes
<1>11. ASSUME NEW p \in Packets, NEW a \in Actions, Speaks(trail'[p], a)
       PROVE  \/ Speaks(trail[p], a)
              \/ \E v \in Requests : Speaks(snapshot[v].trail, a)
              \/ \E v \in Requests : Owes(v, a) /\ ~Owes(v, a)'
  <2>1. CASE p # q
    BY <1>2, <1>11, <2>1
  <2>2. CASE p = q
    <3>1. Speaks(s, a) \/ Speaks(t, a)
      BY <1>2, <1>11, <2>2, ConcatSaid
    <3>2. Speaks(t, a) => Owes(w, a)
      BY DEF Owes
    <3> QED
      BY <1>10, <3>1, <3>2
  <2> QED
    BY <2>1, <2>2
<1>12. \A v \in Requests, a \in Actions : Owes(v, a)' => Unaudited(v, a)'
  BY <1>9, <1>11, OwedStep
<1> QED
  BY <1>7, <1>9, <1>12 DEF TrailInv

LEMMA TrailStep ==
    ASSUME TypeOK, ApprovedInv, TrailInv, [Next]_vars
    PROVE  TrailInv'
<1>1. ASSUME UNCHANGED <<rowStatus, trail, created, snapshot, job>>,
             \A v \in Requests : /\ Dispatching(v)' => Dispatching(v) /\ action'[v] = action[v]
                                 /\ pc'[v] = "idle" => pc[v] = "idle"
      PROVE  TrailInv'
  BY <1>1, TrailQuiet DEF Stays, RowsAppear
<1>2. ASSUME Tick \/ (\E p \in Packets : Decide(p)) \/ UNCHANGED vars PROVE TrailInv'
  <2>1. UNCHANGED <<rowStatus, trail, created, snapshot, job, pc, action>>
    BY <1>2 DEF Tick, Decide, vars, packetVars, rowVars, requestVars, dispatchVars
  <2> QED
    BY <1>1, <2>1 DEF Dispatching
<1>3. ASSUME NEW s \in Sweepers, SweepStep(s) \/ SweepFault(s) PROVE TrailInv'
  <2>1. UNCHANGED <<rowStatus, trail, created, snapshot, job>>
    BY <1>3 DEF SweepStep, SweepList, SweepDone, SweepPacket, Reclaim, ReclaimRaced,
       SweepFault, packetVars, rowVars, requestVars
  <2>2. pc' = pc \/ \E to \in {"sweep", "off", "deliver"} : pc' = [pc EXCEPT ![s] = to]
    BY <1>3 DEF SweepStep, SweepList, SweepDone, SweepPacket, Reclaim, ReclaimRaced,
       SweepFault, StartDispatch
  <2>3. action' = action \/ \E a \in Actions : action' = [action EXCEPT ![s] = a]
    BY <1>3 DEF SweepStep, SweepList, SweepDone, SweepPacket, Reclaim, ReclaimRaced,
       SweepFault, StartDispatch, dispatchVars
  <2>4. \A v \in Requests : pc'[v] = pc[v] /\ action'[v] = action[v]
    BY <2>2, <2>3, Types, WorkerFacts
  <2> QED
    BY <1>1, <2>1, <2>4 DEF Dispatching
<1>4. ASSUME NEW w \in Requests, NEW p \in Packets, Execute(w, p) PROVE TrailInv'
  <2>1. /\ pc[w] = "idle" /\ pc' = [pc EXCEPT ![w] = "next"] /\ job' = [job EXCEPT ![w] = p]
        /\ UNCHANGED <<rowStatus, trail, created, snapshot, action>>
    BY <1>4 DEF Execute, packetVars, rowVars, dispatchVars
  <2>2. Starts(w)
    BY <2>1, Types, WorkerFacts DEF Starts
  <2>3. \A v \in Requests \ {w} : Stays(v)
    BY <2>1, Types, TrailTypes, WorkerFacts DEF Stays, Dispatching
  <2> QED
    BY <2>1, <2>2, <2>3, TrailQuiet DEF RowsAppear
<1>5. ASSUME NEW w \in Requests, Duplicate(w) PROVE TrailInv'
  <2>1. UNCHANGED <<rowStatus, trail, created, snapshot, job, pc, action>>
    BY <1>5 DEF Duplicate, packetVars, rowVars, dispatchVars
  <2> QED
    BY <1>1, <2>1 DEF Dispatching
<1>6. ASSUME NEW w \in Requests, Finish(w) \/ RequestFault(w) PROVE TrailInv'
  <2>1. UNCHANGED <<trail, action>> /\ Leave(w) /\ (UNCHANGED rowStatus \/ InsertRow(w))
    BY <1>6 DEF Finish, RequestFault, packetVars, rowVars, dispatchVars
  <2>2. RowsAppear
    BY <2>1, InsertedRow, Types DEF RowsAppear
  <2> QED
    BY <2>1, <2>2, LeaveGone, TrailQuiet
<1>7. ASSUME NEW i \in Instances, Crash(i) PROVE TrailInv'
  <2>1. UNCHANGED <<rowStatus, trail>>
    BY <1>7 DEF Crash, packetVars, rowVars
  <2>2. ASSUME NEW w \in Requests PROVE Stays(w) \/ Gone(w)
    <3>1. w \in Workers /\ w \notin Sweepers
      BY WorkerFacts
    <3>2. CASE HostOf[w] = i
      <4>1. pc'[w] = "idle" /\ created'[w] = <<>> /\ snapshot'[w] = NoSnapshot
        BY <1>7, <3>1, <3>2 DEF Crash
      <4> QED
        BY <4>1 DEF Gone, Dispatching, NoSnapshot
    <3>3. CASE HostOf[w] # i
      <4>1. /\ pc'[w] = pc[w] /\ action'[w] = action[w] /\ job'[w] = job[w]
            /\ created'[w] = created[w] /\ snapshot'[w] = snapshot[w]
        BY <1>7, <3>1, <3>3 DEF Crash
      <4> QED
        BY <4>1 DEF Stays, Dispatching
    <3> QED
      BY <3>2, <3>3
  <2> QED
    BY <2>1, <2>2, TrailQuiet DEF RowsAppear
<1>8. ASSUME NEW i \in Instances, Boot(i) PROVE TrailInv'
  <2>1. /\ UNCHANGED <<rowStatus, trail, created, snapshot, job, action>>
        /\ \A w \in Requests : pc'[w] = pc[w]
    BY <1>8, WorkerFacts DEF Boot, packetVars, rowVars, requestVars, dispatchVars
  <2> QED
    BY <1>1, <2>1 DEF Dispatching
<1>9. ASSUME NEW w \in Requests, RequestStep(w) PROVE TrailInv'
  BY <1>5, <1>6, <1>9, TrailReserve, TrailRecord, TrailRead, TrailWrite DEF RequestStep
<1>10. ASSUME NEW w \in Workers, Deliver(w) \/ Finalize(w) \/ FinalizeFault(w) PROVE TrailInv'
  BY <1>10, TrailDispatch, TrailFinalize, WorkerFacts
<1> QED
  BY <1>2, <1>3, <1>4, <1>6, <1>7, <1>8, <1>9, <1>10 DEF Next

LEMMA TrailEnough == TypeOK /\ TrailInv => TrailIsSound
BY DEF TrailInv, Sound, TrailIsSound

\* Concurrent, failed and repeated execute calls put an action on a packet's trail
\* at most once, and only one of that packet that has a row, although the trail is
\* saved by an unlocked read-modify-write (action-executor.ts:881-916).
THEOREM TrailSpeaksOnce == Spec => []TrailIsSound
<1>1. Init => TrailInv
  BY TrailInit
<1>2. TypeOK /\ ApprovedInv /\ TrailInv /\ [Next]_vars => TrailInv'
  BY TrailStep
<1> QED
  BY <1>1, <1>2, ApprovedAlways, TrailEnough, PTL DEF Spec

-----------------------------------------------------------------------------
(* The executor implements the contract of its header.                     *)
(*                                                                         *)
(* A permit is a worker about to call the transport; the claims such       *)
(* workers hold are all different, so there are finitely many of them.     *)

LEMMA DriversFinite ==
    ASSUME TypeOK, DriverInv, SpentInv, NEW a \in Actions
    PROVE  IsFiniteSet(Drivers(a)) /\ Cardinality(Drivers(a)) \in Nat
<1> DEFINE f == [w \in Drivers(a) |-> claim[w]]
<1>1. \A w \in Drivers(a) : claim[w] \in claimTimes[a]
  BY DEF SpentInv, Drivers
<1>2. \A v, w \in Drivers(a) : claim[v] = claim[w] => v = w
  <2>1. \A v \in Drivers(a) : v \in Workers /\ Dispatching(v) /\ action[v] = a /\ claim[v] \in Nat
    BY Types DEF Drivers, Dispatching
  <2> QED
    BY <2>1, WorkerFacts DEF DriverInv, OneDriverPerClaim
<1>3. f \in Injection(Drivers(a), claimTimes[a])
  BY <1>1, <1>2 DEF Injection, IsInjective
<1>4. IsFiniteSet(claimTimes[a])
  BY DEF SpentInv, ClaimsKnown
<1>5. IsFiniteSet(Drivers(a))
  BY <1>3, <1>4, FS_Injection
<1> QED
  BY <1>5, FS_CardinalityType

LEMMA RecordIs ==
    /\ RecordOf("NONE") = "none" /\ RecordOf("DISPATCHING") = "claimed"
    /\ RecordOf("PENDING") = "held" /\ RecordOf("SKIPPED") = "held"
    /\ \A status \in Terminal : RecordOf(status) = "settled"
BY DEF RecordOf, Terminal

\* A row changes the record of its own action only.
LEMMA RecordMoves ==
    ASSUME TypeOK, NEW b \in Actions, NEW status,
           rowStatus' = [rowStatus EXCEPT ![b] = status]
    PROVE  AbstractRecord' = [AbstractRecord EXCEPT ![b] = RecordOf(status)]
<1>1. rowStatus'[b] = status /\ \A a \in Actions \ {b} : rowStatus'[a] = rowStatus[a]
  BY Types
<1>2. ASSUME NEW a \in Actions
      PROVE  RecordOf(rowStatus'[a]) = IF a = b THEN RecordOf(status) ELSE RecordOf(rowStatus[a])
  BY <1>1
<1>3. AbstractRecord' = [a \in Actions |-> RecordOf(rowStatus'[a])]
  BY DEF AbstractRecord
<1>4. AbstractRecord = [a \in Actions |-> RecordOf(rowStatus[a])]
  BY DEF AbstractRecord
<1> QED
  BY <1>2, <1>3, <1>4

LEMMA PermitsMove ==
    ASSUME NEW b \in Actions, NEW n, Cardinality(Drivers(b))' = n,
           \A a \in Actions \ {b} : Drivers(a)' = Drivers(a)
    PROVE  OpenPermits' = [OpenPermits EXCEPT ![b] = n]
<1>1. \A a \in Actions \ {b} : Cardinality(Drivers(a))' = Cardinality(Drivers(a))
  BY Zenon
<1> QED
  BY <1>1 DEF OpenPermits

LEMMA PermitsKept ==
    ASSUME \A a \in Actions : Drivers(a)' = Drivers(a)
    PROVE  OpenPermits' = OpenPermits
<1>1. \A a \in Actions : Cardinality(Drivers(a))' = Cardinality(Drivers(a))
  BY Zenon
<1> QED
  BY <1>1 DEF OpenPermits

\* A dispatch that settles its row has made its call.
LEMMA SettleStep ==
    ASSUME TypeOK, DriverInv, ReturnedInv, NEW w \in Workers, RowSettled(w),
           OpenPermits' = OpenPermits, UNCHANGED calls
    PROVE  Contract!Settle(action[w])
<1>1. /\ action[w] \in Actions /\ verdict[w] \in Terminal /\ calls[action[w]] > 0
      /\ rowStatus[action[w]] \in Terminal \cup {"DISPATCHING"}
      /\ rowStatus' = [rowStatus EXCEPT ![action[w]] = verdict[w]] /\ UNCHANGED approval
  BY Types DEF RowSettled, DriverInv, ReturnedInv, Dispatching
<1>2. RecordOf(verdict[w]) = "settled"
  BY <1>1, RecordIs
<1>3. AbstractRecord' = [AbstractRecord EXCEPT ![action[w]] = "settled"]
  <2>1. AbstractRecord' = [AbstractRecord EXCEPT ![action[w]] = RecordOf(verdict[w])]
    BY <1>1, RecordMoves
  <2> QED
    BY <1>2, <2>1
<1>4. AbstractRecord[action[w]] \in {"claimed", "settled"}
  BY <1>1, RecordIs DEF AbstractRecord
<1> QED
  BY <1>1, <1>3, <1>4 DEF Contract!Settle

\* Nobody dispatches an action that has no row.
LEMMA NoRowNoPermit ==
    ASSUME TypeOK, DriverInv, NEW a \in Actions, rowStatus[a] = "NONE"
    PROVE  Drivers(a) = {} /\ OpenPermits[a] = 0
<1>1. Drivers(a) = {}
  BY DEF DriverInv, Drivers, Dispatching, Terminal
<1>2. Cardinality(Drivers(a)) = 0
  BY <1>1, FS_EmptySet, Zenon
<1> QED
  BY <1>1, <1>2 DEF OpenPermits

\* The row of an approved packet's action is held, or it is claimed: with a permit
\* for the worker that goes on to dispatch it, or none if the reply was lost.
LEMMA InsertStep ==
    ASSUME TypeOK, ApprovedInv, NEW w \in Requests, InsertRow(w), UNCHANGED <<approval, calls>>,
           NEW a, a = NextAction(w)
    PROVE  /\ (~AutoFires(w) /\ OpenPermits' = OpenPermits) => Contract!Hold(a)
           /\ \A granted \in {0, 1} :
                 (AutoFires(w) /\ OpenPermits' = [OpenPermits EXCEPT ![a] = granted])
                     => Contract!Claim(a)
<1>1. /\ a \in Actions /\ rowStatus[a] = "NONE"
      /\ approval[PacketOf[a]] = "APPROVED"
      /\ AutoFires(w) => a \in Reversible
      /\ RecordOf(InsertedStatus(w)) = IF AutoFires(w) THEN "claimed" ELSE "held"
      /\ rowStatus' = [rowStatus EXCEPT ![a] = InsertedStatus(w)]
  BY InsertedRow, ApprovedInsert, RecordIs DEF InsertedStatus, AutoFires
<1>2. AbstractRecord[a] = "none"
  BY <1>1, RecordIs DEF AbstractRecord
<1>3. AbstractRecord' = [AbstractRecord EXCEPT ![a] = RecordOf(InsertedStatus(w))]
  BY <1>1, RecordMoves
<1>4. ASSUME ~AutoFires(w), OpenPermits' = OpenPermits PROVE Contract!Hold(a)
  <2>1. AbstractRecord' = [AbstractRecord EXCEPT ![a] = "held"]
    BY <1>1, <1>3, <1>4
  <2> QED
    BY <1>1, <1>2, <1>4, <2>1 DEF Contract!Hold
<1>5. ASSUME NEW granted \in {0, 1}, AutoFires(w),
             OpenPermits' = [OpenPermits EXCEPT ![a] = granted]
      PROVE  Contract!Claim(a)
  <2>1. AbstractRecord' = [AbstractRecord EXCEPT ![a] = "claimed"]
    BY <1>1, <1>3, <1>5
  <2>2. \E g \in {0, 1} : OpenPermits' = [OpenPermits EXCEPT ![a] = g]
    BY <1>5, Zenon
  <2> HIDE DEF OpenPermits, AbstractRecord
  <2> QED
    BY <1>1, <1>2, <1>5, <2>1, <2>2, Zenon DEF Contract!Claim
<1> QED
  BY <1>4, <1>5

\* No worker comes to call the transport, and some may not come to it any more.
LEMMA FewerPermits ==
    ASSUME TypeOK, DriverInv, SpentInv,
           \A a \in Actions : Drivers(a)' \subseteq Drivers(a)
    PROVE  /\ OpenPermits' \in [Actions -> Nat]
           /\ \A a \in Actions : OpenPermits'[a] <= OpenPermits[a]
<1>1. ASSUME NEW a \in Actions
      PROVE  Cardinality(Drivers(a))' \in Nat /\ Cardinality(Drivers(a))' <= Cardinality(Drivers(a))
  <2>1. IsFiniteSet(Drivers(a))
    BY DriversFinite
  <2>2. IsFiniteSet(Drivers(a)') /\ Cardinality(Drivers(a)') <= Cardinality(Drivers(a))
    BY <2>1, FS_Subset
  <2> QED
    BY <2>2, FS_CardinalityType
<1> QED
  BY <1>1 DEF OpenPermits

\* A worker more, or one less, is one permit more or less.
LEMMA PermitTaken ==
    ASSUME TypeOK, DriverInv, SpentInv, NEW b \in Actions, NEW w \in Workers, w \notin Drivers(b),
           Drivers(b)' = Drivers(b) \cup {w},
           \A a \in Actions \ {b} : Drivers(a)' = Drivers(a)
    PROVE  OpenPermits' = [OpenPermits EXCEPT ![b] = @ + 1]
<1>1. IsFiniteSet(Drivers(b))
  BY DriversFinite
<1>2. Cardinality(Drivers(b) \cup {w}) = Cardinality(Drivers(b)) + 1
  BY <1>1, FS_AddElement
<1>3. Cardinality(Drivers(b))' = Cardinality(Drivers(b)) + 1
  BY <1>2, Zenon
<1>4. OpenPermits' = [OpenPermits EXCEPT ![b] = Cardinality(Drivers(b)) + 1]
  BY <1>3, PermitsMove
<1> QED
  BY <1>4 DEF OpenPermits

LEMMA PermitSpent ==
    ASSUME TypeOK, DriverInv, SpentInv, NEW b \in Actions, NEW w \in Drivers(b),
           Drivers(b)' = Drivers(b) \ {w},
           \A a \in Actions \ {b} : Drivers(a)' = Drivers(a)
    PROVE  OpenPermits' = [OpenPermits EXCEPT ![b] = @ - 1] /\ OpenPermits[b] > 0
<1>1. IsFiniteSet(Drivers(b)) /\ Cardinality(Drivers(b)) \in Nat
  BY DriversFinite
<1>2. Cardinality(Drivers(b) \ {w}) = Cardinality(Drivers(b)) - 1
  BY <1>1, FS_RemoveElement
<1>3. Cardinality(Drivers(b)) # 0
  BY <1>1, FS_EmptySet
<1>4. Cardinality(Drivers(b))' = Cardinality(Drivers(b)) - 1
  BY <1>2, Zenon
<1>5. OpenPermits' = [OpenPermits EXCEPT ![b] = Cardinality(Drivers(b)) - 1]
  BY <1>4, PermitsMove
<1> QED
  BY <1>1, <1>3, <1>5 DEF OpenPermits

\* Each step is one of the contract, or changes nothing the contract speaks of.
LEMMA ContractStep ==
    ASSUME TypeOK, ApprovedInv, DriverInv, SpentInv, ReturnedInv, [Next]_vars
    PROVE  Contract!ContractNext \/ UNCHANGED Contract!contractVars
<1>1. ASSUME NEW w \in Workers, Deliver(w) PROVE Contract!Attempt(action[w])
  <2>1. /\ pc[w] = "deliver" /\ pc' = [pc EXCEPT ![w] = "finalize"]
        /\ calls' = [calls EXCEPT ![action[w]] = @ + 1]
        /\ UNCHANGED <<approval, rowStatus, action>> /\ action[w] \in Actions
    BY <1>1, Types DEF Deliver, packetVars, rowVars
  <2>2. w \in Drivers(action[w])
    BY <2>1 DEF Drivers
  <2>3. \A v \in Workers : pc'[v] = "deliver" <=> (pc[v] = "deliver" /\ v # w)
    BY <2>1, Types
  <2>4. ASSUME NEW b \in Actions, b = action[w] PROVE Contract!Attempt(b)
    <3>1. Drivers(b)' = Drivers(b) \ {w} /\ \A a \in Actions \ {b} : Drivers(a)' = Drivers(a)
      BY <2>1, <2>3, <2>4 DEF Drivers
    <3>2. OpenPermits' = [OpenPermits EXCEPT ![b] = @ - 1] /\ OpenPermits[b] > 0
      BY <2>2, <2>4, <3>1, PermitSpent
    <3>3. AbstractRecord' = AbstractRecord
      BY <2>1 DEF AbstractRecord
    <3> QED
      BY <2>1, <2>4, <3>2, <3>3 DEF Contract!Attempt
  <2> QED
    BY <2>1, <2>4
<1>2. ASSUME NEW w \in Workers, NEW b \in Actions, NEW at, StartDispatch(w, b, at),
             pc[w] # "deliver"
      PROVE  OpenPermits' = [OpenPermits EXCEPT ![b] = @ + 1]
  <2>1. pc' = [pc EXCEPT ![w] = "deliver"] /\ action' = [action EXCEPT ![w] = b]
    BY <1>2 DEF StartDispatch
  <2>2. w \notin Drivers(b) /\ Drivers(b)' = Drivers(b) \cup {w}
    BY <1>2, <2>1, Types DEF Drivers
  <2>3. \A a \in Actions \ {b} : Drivers(a)' = Drivers(a)
    BY <1>2, <2>1, Types DEF Drivers
  <2> QED
    BY <2>2, <2>3, PermitTaken
<1>3. ASSUME NEW w \in Requests, Reserve(w) PROVE Contract!Claim(NextAction(w))
  <2>1. /\ InsertRow(w) /\ AutoFires(w) /\ UNCHANGED <<approval, calls>>
        /\ StartDispatch(w, NextAction(w), now)
    BY <1>3 DEF Reserve, packetVars
  <2>2. ASSUME NEW b \in Actions, b = NextAction(w), rowStatus[b] = "NONE", pc[w] = "next"
        PROVE  Contract!Claim(b)
    <3>1. OpenPermits' = [OpenPermits EXCEPT ![b] = @ + 1] /\ OpenPermits[b] = 0
      BY <1>2, <2>1, <2>2, WorkerFacts, NoRowNoPermit
    <3>2. OpenPermits' = [OpenPermits EXCEPT ![b] = 1]
      BY <3>1
    <3> QED
      BY <2>1, <2>2, <3>2, InsertStep
  <2> QED
    BY <2>1, <2>2, InsertedRow
<1>4. ASSUME NEW s \in Sweepers, NEW a \in Actions, Reclaim(s, a) PROVE Contract!Reclaim(a)
  <2>1. /\ pc[s] = "sweep" /\ rowStatus[a] = "DISPATCHING"
        /\ StartDispatch(s, a, sweepNow[s]) /\ UNCHANGED <<approval, rowStatus, calls>>
    BY <1>4 DEF Reclaim, Stale, packetVars
  <2>2. OpenPermits' = [OpenPermits EXCEPT ![a] = @ + 1]
    BY <1>2, <2>1, WorkerFacts
  <2>3. AbstractRecord' = AbstractRecord /\ AbstractRecord[a] = "claimed"
    BY <2>1, RecordIs DEF AbstractRecord
  <2> QED
    BY <2>1, <2>2, <2>3 DEF Contract!Reclaim
<1>5. Quiet => UNCHANGED calls
  BY DEF Quiet, historyVars
<1>6. ASSUME NEW p \in Packets, Decide(p) PROVE Contract!Decide(p)
  <2>1. /\ UNCHANGED <<rowStatus, pc, action, calls>>
        /\ approval[p] = "PENDING"
        /\ \E status \in {"APPROVED", "REJECTED"} : approval' = [approval EXCEPT ![p] = status]
    BY <1>6 DEF Decide, ApprovalStatus, rowVars, dispatchVars, historyVars
  <2>2. OpenPermits' = OpenPermits
    BY <2>1, PermitsKept DEF Drivers
  <2>3. AbstractRecord' = AbstractRecord
    BY <2>1 DEF AbstractRecord
  <2> QED
    BY <2>1, <2>2, <2>3 DEF Contract!Decide
<1>7. ASSUME Quiet, RowsKept PROVE Contract!Forget
  <2>1. \A a \in Actions : Drivers(a)' \subseteq Drivers(a)
    BY <1>7 DEF Quiet, Kept, Drivers, Dispatching
  <2>2. AbstractRecord' = AbstractRecord /\ UNCHANGED approval
    BY <1>7 DEF AbstractRecord, RowsKept
  <2> QED
    BY <1>5, <1>7, <2>1, <2>2, FewerPermits DEF Contract!Forget
<1>8. ASSUME NEW w \in Workers, RowSettled(w), Quiet PROVE Contract!Settle(action[w])
  <2>1. OpenPermits' = OpenPermits
    BY <1>8, PermitsKept DEF RowSettled, DriversKept
  <2> QED
    BY <1>5, <1>8, <2>1, SettleStep
<1>9. ASSUME NEW w \in Requests, RowInserted(w), Quiet
      PROVE  Contract!Hold(NextAction(w)) \/ Contract!Claim(NextAction(w))
  <2>1. OpenPermits' = OpenPermits
    BY <1>9, PermitsKept DEF RowInserted, DriversKept
  <2>2. InsertRow(w) /\ UNCHANGED <<approval, calls>>
    BY <1>5, <1>9 DEF RowInserted
  <2>3. ASSUME NEW b \in Actions, b = NextAction(w), rowStatus[b] = "NONE"
        PROVE  Contract!Hold(b) \/ Contract!Claim(b)
    <3>1. OpenPermits[b] = 0
      BY <2>3, NoRowNoPermit
    <3>2. OpenPermits' = [OpenPermits EXCEPT ![b] = 0]
      BY <2>1, <2>3, <3>1 DEF OpenPermits
    <3> QED
      BY <2>1, <2>2, <2>3, <3>2, InsertStep
  <2> QED
    BY <2>2, <2>3, InsertedRow
<1>10. /\ \A w \in Workers : action[w] \in Actions
       /\ \A w \in Requests : InsertRow(w) => NextAction(w) \in Actions
  BY Types, InsertedRow
<1>11. \A w \in Requests : Reserve(w) \/ RowInserted(w) => InsertRow(w)
  BY DEF Reserve, RowInserted
<1> QED
  BY <1>1, <1>3, <1>4, <1>6, <1>7, <1>8, <1>9, <1>10, <1>11, StepKinds
     DEF Contract!ContractNext

LEMMA ContractInit == Init => Contract!Init
<1> SUFFICES ASSUME Init PROVE Contract!Init
  OBVIOUS
<1>1. \A a \in Actions : Drivers(a) = {}
  BY WorkerFacts DEF Init, Drivers
<1>2. \A a \in Actions : Cardinality(Drivers(a)) = 0
  BY <1>1, FS_EmptySet, Zenon
<1>3. OpenPermits = [a \in Actions |-> 0]
  BY <1>2 DEF OpenPermits
<1>4. AbstractRecord = [a \in Actions |-> "none"]
  BY RecordIs DEF Init, AbstractRecord
<1> QED
  BY <1>3, <1>4 DEF Init, Contract!Init

\* Every behaviour of the executor, with its threads, sweeps, leases, crashes and
\* failing store calls, keeps the contract of its header: a transport call spends a
\* permit issued with the claim of an approved packet's reversible action or with
\* its recovery, a record settles after an attempt, and what is held for a human is
\* never attempted (action-executor.ts:26-56).
THEOREM ContractImplemented == Spec => ImplementsContract
<1>1. Init => Contract!Init
  BY ContractInit
<1>2. /\ TypeOK /\ ApprovedInv /\ DriverInv /\ SpentInv /\ ReturnedInv
      /\ [Next]_vars
      => [Contract!ContractNext]_(Contract!contractVars)
  BY ContractStep
<1> QED
  BY <1>1, <1>2, SpentAlways, PTL DEF Spec, ImplementsContract, Contract!ContractSpec
=============================================================================
