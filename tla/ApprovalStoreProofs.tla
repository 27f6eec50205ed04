-------------------------- MODULE ApprovalStoreProofs --------------------------
(***************************************************************************)
(* The approval transaction, for any packets, events, callers and bounds:  *)
(* types, the audited decision, the answers, and the refinement of         *)
(* AtomicApproval.                                                         *)
(*                                                                         *)
(* None of them is inductive: they rest on what an open transaction knows. *)
(* Whoever goes past the SELECT holds the row of a cleared packet, an      *)
(* uncommitted update means that the packet is still pending and an        *)
(* uncommitted event insert that the event is still free.                  *)
(***************************************************************************)
EXTENDS ApprovalStore, TLAPS

\* The transaction is past readPacketForUpdate.
HasRow(c) == pc[c] \in {"update", "reserve", "mark", "commit"}

\* The row lock of the packet is the transaction's own.
RowLocked(c) ==
    HasRow(c) => req[c].packet \in Cleared /\ lock[req[c].packet] = c

\* Only a call with an event id reaches the statements about events.
EventKnown(c) ==
    pc[c] \in {"event", "owner", "reserve", "mark", "winner"} => req[c].event # NoEvent

\* An uncommitted status update: no other transaction has decided the packet.
UpdateKnown(c) ==
    /\ wrote[c] => /\ pc[c] \in {"reserve", "commit"}
                   /\ outcome[c] = "UPDATED"
                   /\ approval[req[c].packet] = "PENDING"
    /\ pc[c] = "reserve" => wrote[c]

\* An uncommitted event insert: no other transaction has processed the event.
InsertKnown(c) ==
    marked[c] => /\ pc[c] = "commit"
                 /\ req[c].event # NoEvent
                 /\ processed[req[c].event] = NoPacket

\* What the transaction will answer when it commits.
OutcomeKnown(c) ==
    /\ outcome[c] \in {"UPDATED", "IDEMPOTENT"}
    /\ pc[c] = "mark" => outcome[c] = "IDEMPOTENT"
    /\ outcome[c] = "IDEMPOTENT" => approval[req[c].packet] # "PENDING" /\ HasRow(c)
    /\ pc[c] = "commit" /\ outcome[c] = "UPDATED" =>
          wrote[c] /\ (req[c].event # NoEvent => marked[c])

\* What a call read about its event holds as long as it needs it.
OwnerKnown(c) ==
    /\ pc[c] = "owner" => processed[req[c].event] # NoPacket
    /\ pc[c] = "winner" => processed[req[c].event] \notin {NoPacket, req[c].packet}

CallInv(c) ==
    /\ RowLocked(c) /\ EventKnown(c) /\ UpdateKnown(c) /\ InsertKnown(c)
    /\ OutcomeKnown(c) /\ OwnerKnown(c)

\* One open transaction has inserted an event id.
InsertsDiffer ==
    \A c, d \in Calls : (c # d /\ marked[c] /\ marked[d]) => req[c].event # req[d].event

\* An event is processed for a decided packet.
EventsDecide ==
    \A e \in Events : processed[e] # NoPacket =>
        processed[e] \in Cleared /\ approval[processed[e]] # "PENDING"

TxInv ==
    /\ \A c \in Calls : CallInv(c)
    /\ InsertsDiffer
    /\ EventsDecide

-----------------------------------------------------------------------------
(* Types.                                                                  *)

LEMMA AnyRequestType == AnyRequest \in Request
<1>1. PICK p \in Packets \cup Ghosts : TRUE
  BY ApprovalAssumption
<1>2. [packet |-> p, status |-> "APPROVED", event |-> NoEvent] \in Request
  BY <1>1 DEF Request, Decision
<1> QED
  BY <1>2 DEF AnyRequest

LEMMA TypeInit == Init => TypeOK
BY AnyRequestType DEF Init, TypeOK, Pc, Status

\* The end of a transaction keeps the types of what it resets.
LEMMA CloseType ==
    ASSUME TypeOK, NEW c \in Calls, Close(c)
    PROVE  /\ lock' \in [Packets -> Calls \cup {NoCall}]
           /\ pc' \in [Calls -> Pc]
           /\ req' \in [Calls -> Request]
           /\ wrote' \in [Calls -> BOOLEAN]
           /\ marked' \in [Calls -> BOOLEAN]
           /\ outcome' \in [Calls -> Status]
BY AnyRequestType DEF TypeOK, Close, Pc, Status

LEMMA ReplyType ==
    ASSUME TypeOK, NEW c \in Calls, NEW s \in Status, Reply(c, s)
    PROVE  TypeOK'
<1>1. [request |-> req[c], status |-> s] \in Answer
  BY DEF TypeOK, Answer
<1>2. answers' \subseteq Answer
  BY <1>1 DEF Reply, Says, TypeOK
<1> QED
  BY <1>2, CloseType DEF Reply, TypeOK, dbVars, countVars

\* What a transaction that holds its row applies has the right types.
LEMMA ApplyType ==
    ASSUME TypeOK, NEW c \in Calls, Apply(c),
           req[c].packet \in Packets, marked[c] => req[c].event # NoEvent
    PROVE  /\ approval' \in [Packets -> Decision \cup {"PENDING"}]
           /\ trail' \in [Packets -> Seq(Decision)]
           /\ processed' \in [Events -> Packets \cup {NoPacket}]
<1>1. req[c] \in Request /\ req[c].status \in Decision
  BY DEF TypeOK, Request
<1>2. trail[req[c].packet] \in Seq(Decision)
  BY DEF TypeOK
<1>3. Append(trail[req[c].packet], req[c].status) \in Seq(Decision)
  BY <1>1, <1>2
<1>4. trail' \in [Packets -> Seq(Decision)]
  BY <1>3 DEF Apply, TypeOK
<1> QED
  BY <1>1, <1>4 DEF Apply, TypeOK

\* Whoever commits holds a stored packet's row.
LEMMA CommitterFacts ==
    ASSUME TypeOK, TxInv, NEW c \in Calls, pc[c] = "commit"
    PROVE  /\ req[c].packet \in Cleared /\ req[c].packet \in Packets
           /\ lock[req[c].packet] = c
           /\ marked[c] => req[c].event # NoEvent
           /\ req[c] \in Request /\ req[c].status \in Decision
           /\ req[c].event \in Events \cup {NoEvent}
BY ApprovalAssumption
   DEF TxInv, RowLocked, HasRow, CallInv, InsertKnown, TypeOK, Request

LEMMA TypeStep == TypeOK /\ TxInv /\ [Next]_vars => TypeOK'
<1> SUFFICES ASSUME TypeOK, TxInv, [Next]_vars PROVE TypeOK'
  OBVIOUS
<1>1. ASSUME NEW c \in Calls, NEW r \in Request, Start(c, r) PROVE TypeOK'
  BY <1>1 DEF Start, TypeOK, Pc, dbVars, txVars
<1>2. ASSUME NEW c \in Calls, ReadEvent(c) PROVE TypeOK'
  BY <1>2 DEF ReadEvent, TypeOK, Pc, dbVars, txVars, countVars
<1>3. ASSUME NEW c \in Calls, ReadOwner(c) \/ LockMissing(c) \/ LockBlocked(c)
                                \/ UpdateConflicts(c) \/ Winner(c)
      PROVE  TypeOK'
  <2>1. \E s \in Status : Reply(c, s)
    BY <1>3 DEF ReadOwner, LockMissing, LockBlocked, UpdateConflicts, Winner, Status
  <2> QED
    BY <2>1, ReplyType
<1>4. ASSUME NEW c \in Calls, LockPacket(c) PROVE TypeOK'
  BY <1>4 DEF LockPacket, TypeOK, Pc, dbVars, txVars, countVars
<1>5. ASSUME NEW c \in Calls, Update(c) \/ UpdateRepeats(c) PROVE TypeOK'
  BY <1>5 DEF Update, UpdateRepeats, TypeOK, Pc, Status, dbVars, countVars
<1>6. ASSUME NEW c \in Calls, Reserve(c) \/ ReserveLost(c) \/ Mark(c) PROVE TypeOK'
  BY <1>6 DEF Reserve, ReserveLost, Mark, TypeOK, Pc, dbVars, txVars, countVars
<1>7. ASSUME NEW c \in Calls, Commit(c) PROVE TypeOK'
  <2>1. pc[c] = "commit" /\ Apply(c) /\ Says(c, outcome[c]) /\ Close(c) /\ UNCHANGED countVars
    BY <1>7 DEF Commit
  <2>2. [request |-> req[c], status |-> outcome[c]] \in Answer
    BY DEF TypeOK, Answer
  <2>3. answers' \subseteq Answer
    BY <2>1, <2>2 DEF Says, TypeOK
  <2> QED
    BY <2>1, <2>3, ApplyType, CloseType, CommitterFacts DEF TypeOK, countVars
<1>8. ASSUME NEW c \in Calls, Fault(c) PROVE TypeOK'
  <2>1. Close(c) /\ faults' = faults + 1 /\ UNCHANGED <<requests, answers>>
    BY <1>8 DEF Fault
  <2>2. CASE UNCHANGED dbVars
    BY <2>1, <2>2, CloseType DEF TypeOK, dbVars
  <2>3. CASE pc[c] = "commit" /\ Apply(c)
    BY <2>1, <2>3, ApplyType, CloseType, CommitterFacts DEF TypeOK
  <2> QED
    BY <1>8, <2>2, <2>3 DEF Fault
<1>9. CASE UNCHANGED vars
  BY <1>9 DEF TypeOK, vars, dbVars, txVars, countVars
<1> QED
  BY <1>1, <1>2, <1>3, <1>4, <1>5, <1>6, <1>7, <1>8, <1>9 DEF Next, Step

-----------------------------------------------------------------------------
(* What an open transaction knows stays true.                              *)

LEMMA TxInit == Init => TxInv
BY DEF Init, TxInv, CallInv, RowLocked, HasRow, EventKnown, UpdateKnown, InsertKnown,
       OutcomeKnown, OwnerKnown, InsertsDiffer, EventsDecide

\* A step of call c leaves the other calls and their locks alone.
OnlyCall(c) ==
    /\ \A d \in Calls \ {c} :
          /\ pc'[d] = pc[d] /\ req'[d] = req[d] /\ outcome'[d] = outcome[d]
          /\ wrote'[d] = wrote[d] /\ marked'[d] = marked[d]
    /\ \A d \in Calls \ {c}, p \in Packets : lock[p] = d => lock'[p] = d

LEMMA CloseOnlyCall ==
    ASSUME TypeOK, NEW c \in Calls, Close(c)
    PROVE  OnlyCall(c)
BY ApprovalAssumption DEF Close, OnlyCall, TypeOK

\* A closed call knows nothing.
LEMMA ClosedInv ==
    ASSUME TypeOK, NEW c \in Calls, Close(c)
    PROVE  CallInv(c)' /\ ~marked'[c]
BY DEF Close, TypeOK, CallInv, RowLocked, HasRow, EventKnown, UpdateKnown, InsertKnown,
       OutcomeKnown, OwnerKnown

\* While nothing is committed, the step of one call concerns that call alone.
LEMMA OneCallStep ==
    ASSUME TypeOK, TxInv, NEW c \in Calls, OnlyCall(c), UNCHANGED dbVars,
           CallInv(c)',
           marked'[c] => \A d \in Calls \ {c} : marked[d] => req[d].event # req'[c].event
    PROVE  TxInv'
<1>1. \A d \in Calls \ {c} : CallInv(d)'
  BY ApprovalAssumption
     DEF TxInv, CallInv, RowLocked, HasRow, EventKnown, UpdateKnown, InsertKnown,
         OutcomeKnown, OwnerKnown, OnlyCall, dbVars
<1>2. InsertsDiffer'
  BY DEF TxInv, InsertsDiffer, OnlyCall
<1>3. EventsDecide'
  BY DEF TxInv, EventsDecide, dbVars
<1> QED
  BY <1>1, <1>2, <1>3 DEF TxInv

LEMMA ReplyTx ==
    ASSUME TypeOK, TxInv, NEW c \in Calls, NEW s, Reply(c, s)
    PROVE  TxInv'
BY CloseOnlyCall, ClosedInv, OneCallStep DEF Reply

\* A commit disturbs no other transaction: it has its row, and its event.
LEMMA ApplyTx ==
    ASSUME TypeOK, TxInv, NEW c \in Calls, pc[c] = "commit", Apply(c), Close(c)
    PROVE  TxInv'
<1> DEFINE p == req[c].packet
           e == req[c].event
<1>0. OnlyCall(c) /\ CallInv(c)' /\ ~marked'[c]
  BY CloseOnlyCall, ClosedInv
<1>1. /\ p \in Cleared /\ p \in Packets /\ lock[p] = c /\ req[c].status \in Decision
      /\ marked[c] => e \in Events
  BY CommitterFacts
<1>2. /\ wrote[c] => approval[p] = "PENDING" /\ approval' = [approval EXCEPT ![p] = req[c].status]
      /\ ~wrote[c] => approval' = approval /\ approval[p] # "PENDING"
  BY DEF TxInv, CallInv, UpdateKnown, OutcomeKnown, Apply
<1>3. /\ marked[c] => processed[e] = NoPacket /\ processed' = [processed EXCEPT ![e] = p]
      /\ ~marked[c] => processed' = processed
  BY DEF TxInv, CallInv, InsertKnown, Apply
<1>4. /\ \A q \in Packets : q # p => approval'[q] = approval[q]
      /\ \A q \in Packets : approval[q] # "PENDING" => approval'[q] # "PENDING"
      /\ approval'[p] # "PENDING"
  BY <1>1, <1>2 DEF TypeOK, Decision
<1>5. /\ \A f \in Events : processed[f] # NoPacket => processed'[f] = processed[f]
      /\ \A f \in Events : processed'[f] = processed[f] \/ (marked[c] /\ f = e /\ processed'[f] = p)
  BY <1>1, <1>3 DEF TypeOK
<1>6. ASSUME NEW d \in Calls \ {c} PROVE CallInv(d)'
  <2>1. /\ pc'[d] = pc[d] /\ req'[d] = req[d] /\ outcome'[d] = outcome[d]
        /\ wrote'[d] = wrote[d] /\ marked'[d] = marked[d]
        /\ CallInv(d) /\ req[d].event \in Events \cup {NoEvent}
    BY <1>0 DEF OnlyCall, TxInv, TypeOK, Request
  <2>2. HasRow(d) => req[d].packet \in Cleared /\ req[d].packet # p /\ lock'[req[d].packet] = d
    BY <1>0, <1>1, <2>1, ApprovalAssumption DEF OnlyCall, CallInv, RowLocked
  <2>3. RowLocked(d)' /\ EventKnown(d)'
    BY <2>1, <2>2 DEF CallInv, RowLocked, HasRow, EventKnown
  <2>4. UpdateKnown(d)' /\ OutcomeKnown(d)'
    BY <1>4, <2>1, <2>2, ApprovalAssumption
       DEF CallInv, UpdateKnown, OutcomeKnown, HasRow
  <2>5. InsertKnown(d)'
    BY <1>5, <2>1 DEF CallInv, InsertKnown, TxInv, InsertsDiffer
  <2>6. OwnerKnown(d)'
    BY <1>5, <2>1 DEF CallInv, OwnerKnown, EventKnown
  <2> QED
    BY <2>3, <2>4, <2>5, <2>6 DEF CallInv
<1>7. InsertsDiffer'
  BY <1>0 DEF TxInv, InsertsDiffer, OnlyCall
<1>8. EventsDecide'
  BY <1>1, <1>4, <1>5, ApprovalAssumption DEF TxInv, EventsDecide
<1> QED
  BY <1>0, <1>6, <1>7, <1>8 DEF TxInv

\* A statement that is not the last one touches its call's variables and its row.
LEMMA StatementOnlyCall ==
    ASSUME TypeOK, NEW c \in Calls,
           \/ \E r \in Request : Start(c, r)
           \/ ReadEvent(c) \/ LockPacket(c) \/ Update(c) \/ UpdateRepeats(c)
           \/ Reserve(c) \/ ReserveLost(c) \/ Mark(c)
    PROVE  OnlyCall(c) /\ UNCHANGED dbVars
<1>1. UNCHANGED dbVars
  BY DEF Start, ReadEvent, LockPacket, Update, UpdateRepeats, Reserve, ReserveLost, Mark, dbVars
<1>2. \A d \in Calls \ {c}, p \in Packets : lock[p] = d => lock'[p] = d
  BY ApprovalAssumption
     DEF TypeOK, Start, ReadEvent, LockPacket, Update, UpdateRepeats, Reserve, ReserveLost, Mark
<1>3. \A d \in Calls \ {c} :
          /\ pc'[d] = pc[d] /\ req'[d] = req[d] /\ outcome'[d] = outcome[d]
          /\ wrote'[d] = wrote[d] /\ marked'[d] = marked[d]
  BY DEF TypeOK, Start, ReadEvent, LockPacket, Update, UpdateRepeats, Reserve, ReserveLost,
         Mark, txVars
<1> QED
  BY <1>1, <1>2, <1>3 DEF OnlyCall

LEMMA TxStep == TypeOK /\ TxInv /\ [Next]_vars => TxInv'
<1> SUFFICES ASSUME TypeOK, TxInv, [Next]_vars PROVE TxInv'
  OBVIOUS
<1> USE DEF CallInv, RowLocked, HasRow, EventKnown, UpdateKnown, InsertKnown,
            OutcomeKnown, OwnerKnown
<1>1. ASSUME NEW c \in Calls, NEW r \in Request, Start(c, r) PROVE TxInv'
  <2>1. CallInv(c) /\ CallInv(c)' /\ ~marked'[c]
    BY <1>1 DEF TxInv, Start, TypeOK, txVars
  <2> QED
    BY <1>1, <2>1, StatementOnlyCall, OneCallStep
<1>2. ASSUME NEW c \in Calls, ReadEvent(c) PROVE TxInv'
  <2>1. CallInv(c)' /\ ~marked'[c]
    BY <1>2 DEF TxInv, ReadEvent, TypeOK, txVars, dbVars
  <2> QED
    BY <1>2, <2>1, StatementOnlyCall, OneCallStep
<1>3. ASSUME NEW c \in Calls, ReadOwner(c) \/ LockMissing(c) \/ LockBlocked(c)
                                \/ UpdateConflicts(c) \/ Winner(c)
      PROVE  TxInv'
  <2>1. \E s : Reply(c, s)
    BY <1>3 DEF ReadOwner, LockMissing, LockBlocked, UpdateConflicts, Winner
  <2> QED
    BY <2>1, ReplyTx
<1>4. ASSUME NEW c \in Calls, LockPacket(c) PROVE TxInv'
  <2>1. /\ pc[c] = "lock" /\ pc'[c] = "update" /\ req'[c] = req[c]
        /\ req[c].packet \in Cleared /\ lock'[req[c].packet] = c
    BY <1>4, ApprovalAssumption DEF LockPacket, TypeOK
  <2>2. UNCHANGED <<wrote, marked, outcome, approval, processed>>
    BY <1>4 DEF LockPacket, txVars, dbVars
  <2>3. CallInv(c)' /\ ~marked'[c]
    BY <2>1, <2>2 DEF TxInv
  <2> QED
    BY <1>4, <2>3, StatementOnlyCall, OneCallStep
<1>5. ASSUME NEW c \in Calls, Update(c) PROVE TxInv'
  <2>1. CallInv(c)' /\ ~marked'[c]
    BY <1>5 DEF TxInv, Update, TypeOK, dbVars
  <2> QED
    BY <1>5, <2>1, StatementOnlyCall, OneCallStep
<1>6. ASSUME NEW c \in Calls, UpdateRepeats(c) PROVE TxInv'
  <2>1. req[c].status # "PENDING"
    BY DEF TypeOK, Request, Decision
  <2>2. CallInv(c)' /\ ~marked'[c]
    BY <1>6, <2>1 DEF TxInv, UpdateRepeats, TypeOK, dbVars
  <2> QED
    BY <1>6, <2>2, StatementOnlyCall, OneCallStep
<1>7. ASSUME NEW c \in Calls, Reserve(c) PROVE TxInv'
  <2>1. CallInv(c)' /\ KeyFree(c) /\ req'[c] = req[c]
    BY <1>7 DEF TxInv, Reserve, TypeOK, dbVars
  <2> QED
    BY <1>7, <2>1, StatementOnlyCall, OneCallStep DEF KeyFree
<1>8. ASSUME NEW c \in Calls, ReserveLost(c) PROVE TxInv'
  <2>1. /\ req[c].event \in Events /\ processed[req[c].event] # NoPacket
        /\ approval[req[c].packet] = "PENDING"
    BY <1>8 DEF TxInv, ReserveLost, TypeOK, Request
  <2>2. processed[req[c].event] # req[c].packet
    BY <2>1 DEF TxInv, EventsDecide
  <2>3. CallInv(c)' /\ ~marked'[c]
    BY <1>8, <2>1, <2>2 DEF TxInv, ReserveLost, TypeOK, dbVars
  <2> QED
    BY <1>8, <2>3, StatementOnlyCall, OneCallStep
<1>9. ASSUME NEW c \in Calls, Mark(c) PROVE TxInv'
  <2>1. CallInv(c)' /\ KeyFree(c) /\ req'[c] = req[c]
    BY <1>9 DEF TxInv, Mark, TypeOK, dbVars
  <2> QED
    BY <1>9, <2>1, StatementOnlyCall, OneCallStep DEF KeyFree
<1>10. ASSUME NEW c \in Calls, Commit(c) PROVE TxInv'
  BY <1>10, ApplyTx DEF Commit
<1>11. ASSUME NEW c \in Calls, Fault(c) PROVE TxInv'
  <2>1. CASE UNCHANGED dbVars
    BY <1>11, <2>1, CloseOnlyCall, ClosedInv, OneCallStep DEF Fault
  <2>2. CASE pc[c] = "commit" /\ Apply(c)
    BY <1>11, <2>2, ApplyTx DEF Fault
  <2> QED
    BY <1>11, <2>1, <2>2 DEF Fault
<1>12. CASE UNCHANGED vars
  BY <1>12 DEF TxInv, InsertsDiffer, EventsDecide, vars, dbVars, txVars
<1> QED
  BY <1>1, <1>2, <1>3, <1>4, <1>5, <1>6, <1>7, <1>8, <1>9, <1>10, <1>11, <1>12
     DEF Next, Step

-----------------------------------------------------------------------------
(* The database changes when a transaction commits, and only then.         *)

LEMMA CommitsOnly ==
    ASSUME [Next]_vars
    PROVE  \/ UNCHANGED dbVars
           \/ \E c \in Calls : pc[c] = "commit" /\ Apply(c)
<1>1. ASSUME NEW c \in Calls, Commit(c) PROVE pc[c] = "commit" /\ Apply(c)
  BY <1>1 DEF Commit
<1>2. ASSUME NEW c \in Calls, Fault(c)
      PROVE  UNCHANGED dbVars \/ (pc[c] = "commit" /\ Apply(c))
  BY <1>2 DEF Fault
<1>3. ASSUME NEW c \in Calls, \/ \E r \in Request : Start(c, r)
                              \/ Step(c) /\ ~Commit(c)
      PROVE  UNCHANGED dbVars
  BY <1>3
     DEF Step, Start, ReadEvent, ReadOwner, LockMissing, LockBlocked, LockPacket, Update,
         UpdateRepeats, UpdateConflicts, Reserve, ReserveLost, Winner, Mark, Reply, dbVars
<1>4. UNCHANGED vars => UNCHANGED dbVars
  BY DEF vars
<1> QED
  BY <1>1, <1>2, <1>3, <1>4 DEF Next, Step

\* What a commit does: a pending packet is decided and audited, a free event is
\* processed for a decided packet, or nothing changes.
LEMMA CommitEffect ==
    ASSUME TypeOK, TxInv, NEW c \in Calls, pc[c] = "commit", Apply(c)
    PROVE  LET p == req[c].packet
               e == req[c].event
               s == req[c].status
           IN  /\ p \in Cleared /\ p \in Packets /\ s \in Decision
               /\ IF outcome[c] = "UPDATED"
                  THEN /\ approval[p] = "PENDING"
                       /\ approval' = [approval EXCEPT ![p] = s]
                       /\ trail' = [trail EXCEPT ![p] = Append(@, s)]
                  ELSE approval[p] # "PENDING" /\ UNCHANGED <<approval, trail>>
               /\ \/ /\ e \in Events /\ processed[e] = NoPacket
                     /\ processed' = [processed EXCEPT ![e] = p]
                  \/ /\ outcome[c] = "UPDATED" => e = NoEvent
                     /\ UNCHANGED processed
<1>1. /\ req[c].packet \in Cleared /\ req[c].packet \in Packets
      /\ req[c].status \in Decision /\ req[c].event \in Events \cup {NoEvent}
  BY CommitterFacts
<1>2. CallInv(c)
  BY DEF TxInv
<1>3. wrote[c] <=> outcome[c] = "UPDATED"
  BY <1>2 DEF CallInv, UpdateKnown, OutcomeKnown
<1>4. CASE marked[c]
  BY <1>1, <1>2, <1>3, <1>4
     DEF CallInv, UpdateKnown, OutcomeKnown, InsertKnown, Apply
<1>5. CASE ~marked[c]
  BY <1>1, <1>2, <1>3, <1>5
     DEF CallInv, UpdateKnown, OutcomeKnown, Apply
<1> QED
  BY <1>4, <1>5

\* Nothing that was decided or processed is ever decided or processed again.
Forward ==
    /\ \A p \in Packets : approval[p] # "PENDING" => approval'[p] = approval[p]
    /\ \A e \in Events : processed[e] # NoPacket => processed'[e] = processed[e]
    /\ \A p \in Packets \ Cleared : approval'[p] = approval[p]

LEMMA ForwardStep == TypeOK /\ TxInv /\ [Next]_vars => Forward
<1> SUFFICES ASSUME TypeOK, TxInv, [Next]_vars PROVE Forward
  OBVIOUS
<1>1. CASE UNCHANGED dbVars
  BY <1>1 DEF Forward, dbVars
<1>2. ASSUME NEW c \in Calls, pc[c] = "commit", Apply(c) PROVE Forward
  BY <1>2, CommitEffect DEF Forward, TypeOK
<1> QED
  BY <1>1, <1>2, CommitsOnly

-----------------------------------------------------------------------------
(* A decision and its audit entry are one.                                 *)

LEMMA FirstEntry == \A s : Append(<<>>, s) = <<s>>
BY SMT

LEMMA AuditInit == Init => DecisionAuditedOnce
BY TypeInit DEF Init, DecisionAuditedOnce

LEMMA AuditStep == DecisionAuditedOnce /\ TxInv /\ [Next]_vars => DecisionAuditedOnce'
<1> SUFFICES ASSUME DecisionAuditedOnce, TxInv, [Next]_vars PROVE DecisionAuditedOnce'
  OBVIOUS
<1>1. TypeOK /\ TypeOK'
  BY TypeStep DEF DecisionAuditedOnce
<1>2. CASE UNCHANGED dbVars
  BY <1>1, <1>2 DEF DecisionAuditedOnce, dbVars
<1>3. ASSUME NEW c \in Calls, pc[c] = "commit", Apply(c) PROVE DecisionAuditedOnce'
  <2> DEFINE p == req[c].packet
             s == req[c].status
  <2>1. CASE outcome[c] = "UPDATED"
    <3>1. /\ p \in Packets /\ s \in Decision /\ approval[p] = "PENDING"
          /\ approval' = [approval EXCEPT ![p] = s]
          /\ trail' = [trail EXCEPT ![p] = Append(@, s)]
      BY <1>1, <1>3, <2>1, CommitEffect
    <3>2. trail[p] = <<>> /\ Append(<<>>, s) = <<s>>
      BY <3>1, FirstEntry DEF DecisionAuditedOnce
    <3>3. approval'[p] = s /\ s # "PENDING" /\ trail'[p] = <<s>>
      BY <1>1, <3>1, <3>2 DEF TypeOK, Decision
    <3>4. \A q \in Packets : q # p => approval'[q] = approval[q] /\ trail'[q] = trail[q]
      BY <1>1, <3>1 DEF TypeOK
    <3> QED
      BY <1>1, <3>3, <3>4 DEF DecisionAuditedOnce
  <2>2. CASE outcome[c] # "UPDATED"
    <3>1. UNCHANGED <<approval, trail>>
      BY <1>1, <1>3, <2>2, CommitEffect
    <3> QED
      BY <1>1, <3>1 DEF DecisionAuditedOnce
  <2> QED
    BY <2>1, <2>2
<1> QED
  BY <1>2, <1>3, CommitsOnly

\* Every variable keeps its type, and every decided packet has exactly one audit
\* entry, its decision's: the status update and the trail are written by one
\* transaction that holds the row (store.ts:415-505).
THEOREM DecisionAuditedOnceAlways == Spec => []DecisionAuditedOnce
<1>1. Init => DecisionAuditedOnce /\ TxInv
  BY AuditInit, TxInit
<1>2. DecisionAuditedOnce /\ TxInv /\ [Next]_vars => (DecisionAuditedOnce /\ TxInv)'
  BY AuditStep, TxStep DEF DecisionAuditedOnce
<1> QED
  BY <1>1, <1>2, PTL DEF Spec

-----------------------------------------------------------------------------
(* An answer is true when it is given, and for ever.                       *)

AnswerKnown(a) ==
    /\ a.status = "UPDATED" =>
          /\ approval[a.request.packet] = a.request.status
          /\ a.request.event # NoEvent => processed[a.request.event] = a.request.packet
    /\ a.status = "EVENT_CONFLICT" =>
          /\ a.request.event \in Events
          /\ processed[a.request.event] \notin {NoPacket, a.request.packet}
    /\ a.status \in {"UPDATED", "IDEMPOTENT", "CONFLICT"} => a.request.packet \in Cleared

AnswersKnown ==
    /\ \A a \in answers : AnswerKnown(a)
    /\ \A p \in Packets \ Cleared : approval[p] = "PENDING"

LEMMA AnswersInit == Init => AnswersKnown
BY DEF Init, AnswersKnown

LEMMA AnswersEnough == AnswersKnown => AnswersAreTrue
BY DEF AnswersKnown, AnswerKnown, AnswersAreTrue

\* An answer given stays true.
LEMMA AnswerKept ==
    ASSUME TypeOK, Forward, NEW a \in Answer, AnswerKnown(a)
    PROVE  AnswerKnown(a)'
<1>1. /\ a.request.status \in Decision /\ a.request.status # "PENDING"
      /\ a.request.event \in Events \cup {NoEvent}
  BY DEF Answer, Request, Decision
<1>2. a.status = "UPDATED" => a.request.packet \in Packets
  BY ApprovalAssumption DEF AnswerKnown
<1>3. NoPacket \notin Packets
  BY ApprovalAssumption
<1>4. CASE a.status = "UPDATED"
  <2>1. approval'[a.request.packet] = a.request.status
    BY <1>1, <1>2, <1>4 DEF AnswerKnown, Forward
  <2>2. a.request.event # NoEvent => processed'[a.request.event] = a.request.packet
    BY <1>1, <1>2, <1>3, <1>4 DEF AnswerKnown, Forward
  <2> QED
    BY <1>4, <2>1, <2>2 DEF AnswerKnown
<1>5. CASE a.status # "UPDATED"
  BY <1>5 DEF AnswerKnown, Forward
<1> QED
  BY <1>4, <1>5

\* What each step says is true after it.
LEMMA NewAnswer ==
    ASSUME TypeOK, TxInv, NEW c \in Calls, NEW s, Reply(c, s),
           ReadOwner(c) \/ LockMissing(c) \/ LockBlocked(c) \/ UpdateConflicts(c) \/ Winner(c)
    PROVE  \A a \in answers' : a \in answers \/ AnswerKnown(a)'
<1> USE DEF CallInv, EventKnown, OwnerKnown, RowLocked, HasRow
<1>0. /\ CallInv(c) /\ req[c] \in Request /\ req[c].event \in Events \cup {NoEvent}
      /\ UNCHANGED <<approval, processed>>
  BY DEF TxInv, TypeOK, Request, Reply, dbVars
<1>1. SUFFICES ASSUME NEW a \in answers', a \notin answers PROVE AnswerKnown(a)'
  OBVIOUS
<1>2. CASE ReadOwner(c)
  <2>1. /\ pc[c] = "owner"
        /\ Says(c, IF processed[req[c].event] = req[c].packet
                   THEN "IDEMPOTENT" ELSE "EVENT_CONFLICT")
    BY <1>2 DEF ReadOwner, Reply
  <2>2. req[c].event \in Events /\ processed[req[c].event] \in Cleared
    BY <1>0, <2>1 DEF TxInv, EventsDecide
  <2>3. a.request = req[c] /\ a.status = IF processed[req[c].event] = req[c].packet
                                         THEN "IDEMPOTENT" ELSE "EVENT_CONFLICT"
    BY <1>1, <2>1 DEF Says
  <2> QED
    BY <1>0, <2>1, <2>2, <2>3 DEF AnswerKnown
<1>3. CASE LockMissing(c) \/ LockBlocked(c)
  <2>1. a.status \in {"NOT_FOUND", "BLOCKED"}
    BY <1>1, <1>3 DEF LockMissing, LockBlocked, Reply, Says
  <2> QED
    BY <2>1 DEF AnswerKnown
<1>4. CASE UpdateConflicts(c)
  <2>1. a.status = "CONFLICT" /\ a.request = req[c] /\ pc[c] = "update"
    BY <1>1, <1>4 DEF UpdateConflicts, Reply, Says
  <2> QED
    BY <1>0, <2>1 DEF AnswerKnown
<1>5. CASE Winner(c)
  <2>1. a.status = "EVENT_CONFLICT" /\ a.request = req[c] /\ pc[c] = "winner"
    BY <1>1, <1>5 DEF Winner, Reply, Says
  <2> QED
    BY <1>0, <2>1 DEF AnswerKnown
<1> QED
  BY <1>2, <1>3, <1>4, <1>5

LEMMA CommitAnswer ==
    ASSUME TypeOK, TxInv, NEW c \in Calls, Commit(c)
    PROVE  \A a \in answers' : a \in answers \/ AnswerKnown(a)'
<1>1. SUFFICES ASSUME NEW a \in answers', a \notin answers PROVE AnswerKnown(a)'
  OBVIOUS
<1>2. pc[c] = "commit" /\ Apply(c) /\ a.request = req[c] /\ a.status = outcome[c]
  BY <1>1 DEF Commit, Says
<1>3. outcome[c] \in {"UPDATED", "IDEMPOTENT"} /\ req[c].event \in Events \cup {NoEvent}
  BY DEF TxInv, CallInv, OutcomeKnown, TypeOK, Request
<1>4. req[c].packet \in Cleared /\ req[c].packet \in Packets
  BY <1>2, CommitterFacts
<1>5. outcome[c] = "UPDATED" => approval'[req[c].packet] = req[c].status
  BY <1>2, CommitEffect DEF TypeOK
<1>6. outcome[c] = "UPDATED" /\ req[c].event # NoEvent =>
          processed'[req[c].event] = req[c].packet
  BY <1>2, CommitEffect DEF TypeOK
<1> QED
  BY <1>2, <1>3, <1>4, <1>5, <1>6 DEF AnswerKnown

LEMMA AnswersStep == TypeOK /\ TxInv /\ AnswersKnown /\ [Next]_vars => AnswersKnown'
<1> SUFFICES ASSUME TypeOK, TxInv, AnswersKnown, [Next]_vars PROVE AnswersKnown'
  OBVIOUS
<1>1. Forward
  BY ForwardStep
<1>2. \A p \in Packets \ Cleared : approval'[p] = "PENDING"
  BY <1>1 DEF AnswersKnown, Forward
<1>3. \A a \in answers : AnswerKnown(a)'
  BY <1>1, AnswerKept DEF AnswersKnown, TypeOK
<1>4. SUFFICES \A a \in answers' : a \in answers \/ AnswerKnown(a)'
  BY <1>2, <1>3 DEF AnswersKnown
<1>5. ASSUME NEW c \in Calls, Step(c) PROVE \A a \in answers' : a \in answers \/ AnswerKnown(a)'
  <2>1. ASSUME ReadOwner(c) \/ LockMissing(c) \/ LockBlocked(c)
                  \/ UpdateConflicts(c) \/ Winner(c)
        PROVE  \E s : Reply(c, s)
    BY <2>1 DEF ReadOwner, LockMissing, LockBlocked, UpdateConflicts, Winner
  <2>2. ASSUME ReadEvent(c) \/ LockPacket(c) \/ Update(c) \/ UpdateRepeats(c)
                  \/ Reserve(c) \/ ReserveLost(c) \/ Mark(c)
        PROVE  answers' = answers
    BY <2>2 DEF ReadEvent, LockPacket, Update, UpdateRepeats, Reserve, ReserveLost, Mark
  <2> QED
    BY <1>5, <2>1, <2>2, NewAnswer, CommitAnswer DEF Step
<1>6. ASSUME NEW c \in Calls, Fault(c) \/ \E r \in Request : Start(c, r)
      PROVE  answers' = answers
  BY <1>6 DEF Fault, Start
<1>7. UNCHANGED vars => answers' = answers
  BY DEF vars
<1> QED
  BY <1>5, <1>6, <1>7 DEF Next

\* No caller is told anything that turns out false: UPDATED is the packet's status
\* and its event's owner for good, EVENT_CONFLICT means another packet's event,
\* also for the caller whose update was rolled back, and nothing that depends on
\* the status of a packet the gatekeeper blocks is said (store.ts:375-510).
THEOREM AnswersAreTrueAlways == Spec => []AnswersAreTrue
<1>1. Init => TypeOK /\ TxInv /\ AnswersKnown
  BY TypeInit, TxInit, AnswersInit
<1>2. TypeOK /\ TxInv /\ AnswersKnown /\ [Next]_vars => (TypeOK /\ TxInv /\ AnswersKnown)'
  BY TypeStep, TxStep, AnswersStep
<1> QED
  BY <1>1, <1>2, AnswersEnough, PTL DEF Spec

-----------------------------------------------------------------------------
(* Transactions implement the atomic promise.                              *)

LEMMA AtomicStep == TypeOK /\ TxInv /\ [Next]_vars => [Atomic!AtomicNext]_(Atomic!atomicVars)
<1> SUFFICES ASSUME TypeOK, TxInv, [Next]_vars
             PROVE  Atomic!AtomicNext \/ UNCHANGED Atomic!atomicVars
  OBVIOUS
<1>1. CASE UNCHANGED dbVars
  BY <1>1 DEF dbVars, Atomic!atomicVars
<1>2. ASSUME NEW c \in Calls, pc[c] = "commit", Apply(c)
      PROVE  Atomic!AtomicNext \/ UNCHANGED Atomic!atomicVars
  <2> DEFINE p == req[c].packet
  <2>1. p \in Packets
    BY <1>2, CommitEffect
  <2>2. CASE outcome[c] = "UPDATED"
    <3>1. Atomic!Decide(p)
      BY <1>2, <2>2, CommitEffect DEF Atomic!Decide, Atomic!Process, Decision
    <3> QED
      BY <2>1, <3>1 DEF Atomic!AtomicNext
  <2>3. CASE outcome[c] # "UPDATED" /\ ~UNCHANGED processed
    <3>1. Atomic!Repeat(p)
      BY <1>2, <2>3, CommitEffect DEF Atomic!Repeat, Atomic!Process
    <3> QED
      BY <2>1, <3>1 DEF Atomic!AtomicNext
  <2>4. CASE outcome[c] # "UPDATED" /\ UNCHANGED processed
    BY <1>2, <2>4, CommitEffect DEF Atomic!atomicVars
  <2> QED
    BY <2>2, <2>3, <2>4
<1> QED
  BY <1>1, <1>2, CommitsOnly

\* Every behaviour of the transactions, with their locks, races, rollbacks and lost
\* commits, is one of the atomic specification: each commit is one of its steps, and
\* every other step a stutter (store.ts:53-55, 375-385).
THEOREM AtomicImplemented == Spec => ImplementsAtomic
<1>1. Init => Atomic!Init
  BY DEF Init, Atomic!Init
<1>2. Init => TypeOK /\ TxInv
  BY TypeInit, TxInit
<1>3. TypeOK /\ TxInv /\ [Next]_vars => (TypeOK /\ TxInv)'
  BY TypeStep, TxStep
<1> QED
  BY <1>1, <1>2, <1>3, AtomicStep, PTL DEF Spec, ImplementsAtomic, Atomic!AtomicSpec
=============================================================================
