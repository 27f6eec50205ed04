----------------------------- MODULE SupplierStore -----------------------------
(***************************************************************************)
(* Uploads of supplier files and resets against the suppliers table        *)
(* (app/api/suppliers/upload/route.ts, lib/server/supplier-store.ts).      *)
(*                                                                         *)
(* An upload is one READ COMMITTED transaction that upserts its suppliers  *)
(* one by one, in the order of the file: a row, or the index entry of a    *)
(* row still to be inserted, is locked until the transaction ends.  A      *)
(* reset is one DELETE: it locks the rows it saw when it started, and      *)
(* deletes those.  Postgres aborts a transaction of a cycle of waits.      *)
(* The memory store is the case in which a whole upsert is one step.       *)
(***************************************************************************)
EXTENDS SupplierIngest

CONSTANTS
    Uploads, Resets,   \* the calls
    Requests, Sent,    \* what a caller may send, and the parts of it
    Sole,              \* the names sole-sourced on purpose
    NoCall,
    MaxFaults          \* bound: failed statements and lost commit replies

\* A file is a sequence of rows; the digest of an identity is its own.
ASSUME CallsAssumption ==
    /\ NoCall \notin Uploads \cup Resets /\ Uploads \cap Resets = {}
    /\ None \notin {400, 401, 413, 429, 500, Inherited}
    /\ MaxRows \in Nat
    /\ \A r \in Requests :
          /\ Len(Sent[r].file) \in Nat /\ DOMAIN Sent[r].file = 1..Len(Sent[r].file)
          /\ IdsOf(IngestSupplierCsv(Sent[r].file).suppliers) \subseteq DOMAIN IdRank
    /\ None \notin DOMAIN IdRank
    /\ \A a, b \in DOMAIN IdRank : IdRank[a] \in Nat /\ (IdRank[a] = IdRank[b] => a = b)

Calls == Uploads \cup Resets

VARIABLES
    table,     \* the rows: supplier id -> supplier
    lock,      \* supplier id -> the transaction that holds it
    pc,        \* call -> "idle", "open", "commit", "done"
    request,   \* upload -> what it sent
    todo,      \* call -> the ids whose row it has still to write, in order
    answer,    \* upload -> what its caller was told
    faults,    \* bound: faults so far
    log        \* history: the resets that began, the transactions that committed

vars == <<table, lock, pc, request, todo, answer, faults, log>>

Ingested == [r \in Requests |-> IngestSupplierCsv(Sent[r].file)]
Ids == UNION {IdsOf(Ingested[r].suppliers) : r \in Requests}

Init ==
    /\ table = <<>>
    /\ lock = [id \in Ids |-> NoCall]
    /\ pc = [c \in Calls |-> "idle"]
    /\ request = [u \in Uploads |-> None]
    /\ todo = [c \in Calls |-> <<>>]
    /\ answer = [u \in Uploads |-> None]
    /\ faults = 0
    /\ log = <<>>

-----------------------------------------------------------------------------
(* The route.                                                              *)

\* (mutant) the declared length is believed
RefusalByHeader(r) ==
    CASE ~Sent[r].authorized -> 401
      [] Sent[r].limited -> 429
      [] Sent[r].declared = "over" -> 413
      [] Sent[r].file = <<>> -> 400
      [] Ingested[r].thrown -> 500
      [] OTHER -> None

\* What the route refuses, in the order it looks.  A declared length is a hint;
\* the bytes that arrive are counted, before they are found to be blank.  A parse
\* that throws is caught by nobody.
Refusal(r) ==
    CASE ~Sent[r].authorized -> 401
      [] Sent[r].limited -> 429
      [] Sent[r].declared = "over" -> 413
      [] Sent[r].sent = "over" -> 413
      [] Sent[r].file = <<>> -> 400
      [] Ingested[r].thrown -> 500
      [] OTHER -> None

\* The reply of an upload whose suppliers landed: the report and the count.
Reported(r) ==
    [status |-> 200, persisted |-> Len(Ingested[r].suppliers),
     truncated |-> Ingested[r].aborted]
Refused(code) == [status |-> code, persisted |-> 0, truncated |-> FALSE]

\* A body that is refused, or has no supplier in it, never reaches the database.
Post(u, r) ==
    /\ pc[u] = "idle"
    /\ request' = [request EXCEPT ![u] = r]
    /\ LET suppliers == Ingested[r].suppliers
           reply == IF Refusal(r) # None THEN Refused(Refusal(r)) ELSE Reported(r)
       IN  IF Refusal(r) = None /\ suppliers # <<>>
             THEN /\ pc' = [pc EXCEPT ![u] = "open"]
                  /\ todo' = [todo EXCEPT ![u] = [i \in DOMAIN suppliers |-> suppliers[i].id]]
                  /\ UNCHANGED answer
             ELSE /\ pc' = [pc EXCEPT ![u] = "done"]
                  /\ answer' = [answer EXCEPT ![u] = reply]
                  /\ UNCHANGED todo
    /\ UNCHANGED <<table, lock, faults, log>>

\* The DELETE takes its snapshot; it comes to the rows in any order.
Reset(r) ==
    /\ pc[r] = "idle"
    /\ \E order \in SetToSeqs(DOMAIN table) : todo' = [todo EXCEPT ![r] = order]
    /\ pc' = [pc EXCEPT ![r] = IF DOMAIN table = {} THEN "commit" ELSE "open"]
    /\ log' = Append(log, [call |-> r, event |-> "begin"])
    /\ UNCHANGED <<table, lock, request, answer, faults>>

-----------------------------------------------------------------------------
(* The transactions.                                                       *)

Free(c, id) == lock[id] \in {c, NoCall}

\* (mutant) no transaction: every row is visible, and unlocked, when it is written
WriteAutocommitted(c) ==
    /\ pc[c] = "open"
    /\ LET id == Head(todo[c])
           new == IF c \in Uploads THEN Ingested[request[c]].suppliers ELSE <<>>
       IN  /\ Free(c, id)
           /\ table' = [i \in IF c \in Uploads THEN DOMAIN table \cup {id} ELSE DOMAIN table \ {id} |->
                          IF i = id THEN new[CHOOSE n \in DOMAIN new : new[n].id = id] ELSE table[i]]
    /\ todo' = [todo EXCEPT ![c] = Tail(@)]
    /\ pc' = [pc EXCEPT ![c] = IF Len(todo[c]) = 1 THEN "commit" ELSE "open"]
    /\ UNCHANGED <<lock, request, answer, faults, log>>

\* INSERT ... ON CONFLICT DO UPDATE of the next supplier, or the DELETE's next row:
\* it waits for the transaction that has written that id.
Write(c) ==
    /\ pc[c] = "open"
    /\ Free(c, Head(todo[c]))
    /\ lock' = [lock EXCEPT ![Head(todo[c])] = c]
    /\ todo' = [todo EXCEPT ![c] = Tail(@)]
    /\ pc' = [pc EXCEPT ![c] = IF Len(todo[c]) = 1 THEN "commit" ELSE "open"]
    /\ UNCHANGED <<table, request, answer, faults, log>>

\* Rows with the suppliers of a file over them: the last write wins.
Over(rows, suppliers) ==
    [id \in DOMAIN rows \cup IdsOf(suppliers) |->
        IF id \in IdsOf(suppliers)
          THEN suppliers[CHOOSE i \in DOMAIN suppliers : suppliers[i].id = id]
          ELSE rows[id]]

\* What c has written is seen by everybody at once.
Apply(c) ==
    /\ table' = IF c \in Uploads THEN Over(table, Ingested[request[c]].suppliers)
                ELSE [id \in {i \in DOMAIN table : lock[i] # c} |-> table[id]]
    /\ log' = Append(log, [call |-> c, event |-> "commit"])

Unlock(c) == lock' = [id \in Ids |-> IF lock[id] = c THEN NoCall ELSE lock[id]]
Answer(c, reply) ==
    /\ pc' = [pc EXCEPT ![c] = "done"]
    /\ todo' = [todo EXCEPT ![c] = <<>>]
    /\ answer' = IF c \in Uploads THEN [answer EXCEPT ![c] = reply] ELSE answer

Commit(c) ==
    /\ pc[c] = "commit"
    /\ Apply(c)
    /\ Unlock(c)
    /\ Answer(c, IF c \in Uploads THEN Reported(request[c]) ELSE None)
    /\ UNCHANGED <<request, faults>>

\* (mutant) a failed transaction is not rolled back
FaultStaysOpen(c) ==
    /\ pc[c] \in {"open", "commit"}
    /\ faults < MaxFaults
    /\ faults' = faults + 1
    /\ Answer(c, Refused(500))
    /\ UNCHANGED <<table, lock, request, log>>

\* A statement fails, or the reply of a commit that happened is lost.
Fault(c) ==
    /\ pc[c] \in {"open", "commit"}
    /\ faults < MaxFaults
    /\ faults' = faults + 1
    /\ \/ UNCHANGED <<table, log>>
       \/ pc[c] = "commit" /\ Apply(c)
    /\ Unlock(c)
    /\ Answer(c, Refused(500))
    /\ UNCHANGED request

\* The transaction c waits for, if it waits.
WaitsFor(c) == IF pc[c] = "open" /\ ~Free(c, Head(todo[c])) THEN lock[Head(todo[c])] ELSE NoCall
InCycle(c) == \E cycle \in SUBSET Calls : c \in cycle /\ {WaitsFor(d) : d \in cycle} = cycle

\* Postgres aborts a transaction of a cycle of waits.
BreakDeadlock(c) ==
    /\ InCycle(c)
    /\ Unlock(c)
    /\ Answer(c, Refused(500))
    /\ UNCHANGED <<table, request, faults, log>>

-----------------------------------------------------------------------------
Step(c) == Write(c) \/ Commit(c) \/ BreakDeadlock(c)

Next ==
    \/ \E u \in Uploads, r \in Requests : Post(u, r)
    \/ \E r \in Resets : Reset(r)
    \/ \E c \in Calls : Step(c) \/ Fault(c)

Spec == Init /\ [][Next]_vars

\* The database runs every statement that does not wait, and looks for deadlocks.
FairSpec == Spec /\ \A c \in Calls : WF_vars(Step(c))

-----------------------------------------------------------------------------
(* Properties.                                                             *)

Committed(c) == \E i \in DOMAIN log : log[i] = [call |-> c, event |-> "commit"]
Position(c, event) == CHOOSE i \in DOMAIN log : log[i] = [call |-> c, event |-> event]

\* A reset during which an upload landed.
Overlapped(r) ==
    /\ Committed(r)
    /\ \E u \in Uploads : Committed(u) /\ Position(u, "commit") \in
                             Position(r, "begin")..Position(r, "commit")

\* The table is what the uploads and resets that committed make of it one after
\* the other, in the order they committed, so that an upload is seen whole or not
\* at all, although uploads lock rows one by one, in orders of their own, wait,
\* deadlock and fail (supplier-store.ts:77-98).  Only a reset during which an
\* upload lands may spare the rows that upload inserted; also then every row is
\* that of the last upload to write it.  And a caller is told 200 only of an upload
\* that landed, with the number of its rows, and a refusal of none.
Landed(rows, entry) ==
    IF entry.event = "begin" THEN rows
    ELSE IF entry.call \in Resets THEN <<>>
    ELSE Over(rows, Ingested[request[entry.call]].suppliers)
Serial ==
    LET after[n \in 0..Len(log)] == IF n = 0 THEN <<>> ELSE Landed(after[n - 1], log[n])
    IN  after[Len(log)]
TableIsSerial ==
    /\ (\A r \in Resets : ~Overlapped(r)) => table = Serial
    /\ \A id \in DOMAIN table :
          LET writers == {u \in Uploads : Committed(u) /\ id \in IdsOf(Ingested[request[u]].suppliers)}
              last == CHOOSE u \in writers :
                         \A v \in writers : Position(v, "commit") <= Position(u, "commit")
          IN  table[id] \in ToSet(Ingested[request[last]].suppliers)
    /\ \A u \in Uploads : answer[u] # None =>
          /\ answer[u].status = 200 =>
                /\ Committed(u) \/ answer[u].persisted = 0
                /\ answer[u].persisted = Cardinality(IdsOf(Ingested[request[u]].suppliers))
          /\ Committed(u) => /\ answer[u].status \in {200, 500}
                             /\ Sent[request[u]].authorized /\ Sent[request[u]].sent # "over"

\* The report of an upload accounts for every row that was read, and for no other:
\* of the rows of one supplier the first is matched, the later ones overwrite it,
\* and the last is what is stored, in the place of the first; truncation is said
\* exactly when rows were left unread (supplier-csv.ts:248-368).  And the backups
\* of a file without duplicates do not depend on the order of its rows
\* (seed-suppliers.ts:59, "the linkage is stable across runs").
Accounts(ingest, file) ==
    LET rows == {i \in DOMAIN file : NotEmpty(file[i])}
        row(n) == file[CHOOSE i \in rows : Cardinality({j \in rows : j < i}) = n]
        header == [c \in DOMAIN row(0) |-> Sanitized(row(0)[c])]
        first(i) == \A j \in 1..(i - 1) : ingest.lines[j].id # ingest.lines[i].id
        linesOf(id) == {i \in DOMAIN ingest.lines : ingest.lines[i].id = id}
    IN  /\ ingest.totalRows = ingest.matched + ingest.overwritten + ingest.unmatched
        /\ ingest.totalRows = Len(ingest.lines) /\ ingest.totalRows <= MaxRows
        /\ ingest.aborted <=> Cardinality(rows) > ingest.totalRows + 1
        /\ Len(ingest.suppliers) = ingest.matched
        /\ \A i \in DOMAIN ingest.lines :
              /\ (ingest.lines[i].outcome = "MATCHED") <=> (ingest.lines[i].id # None /\ first(i))
              /\ (ingest.lines[i].reason = None) <=> (ingest.lines[i].id # None)
        /\ \A n \in DOMAIN ingest.suppliers :
              LET s == ingest.suppliers[n]
              IN  /\ \E last \in linesOf(s.id) :
                        s = Built(header, row(last)) /\ \A i \in linesOf(s.id) : i <= last
                  /\ \A m \in 1..(n - 1) : \E i \in linesOf(ingest.suppliers[m].id) :
                        \A j \in linesOf(s.id) : i < j
LinksIgnoreOrder(ingest, file) ==
    LET turned(order) == [i \in DOMAIN file |-> IF i = 1 THEN file[1] ELSE file[order[i]]]
        seed(order) == IngestSeed(turned(order), Len(file) - 1, Sole)
        places == 2..Len(file)
    IN  ingest.overwritten = 0 =>
            \A one, other \in Bijection(places, places) :
                /\ seed(one).thrown = seed(other).thrown
                /\ ToSet(seed(one).suppliers) = ToSet(seed(other).suppliers)
RowsAccounted ==
    \A u \in Uploads : pc[u] # "idle" /\ (\A c \in Calls \ {u} : pc[c] = "idle") =>
        /\ Accounts(Ingested[request[u]], Sent[request[u]].file)
        /\ LinksIgnoreOrder(Ingested[request[u]], Sent[request[u]].file)

\* Every upload is answered, also when it waits for others in a circle.
UploadsEnd == \A u \in Uploads : pc[u] = "open" ~> pc[u] = "done"
=============================================================================
