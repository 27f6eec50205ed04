------------------------- MODULE SupplierStoreProofs --------------------------
(***************************************************************************)
(* What the report of an upload counts, for every file, and that the table *)
(* is what the committed calls make of it one after the other, for any     *)
(* uploads, resets, files and faults.                                      *)
(***************************************************************************)
EXTENDS SupplierStore, FiniteSetTheorems, WellFoundedInduction, TLAPS

-----------------------------------------------------------------------------
(* Numbers: see RunRouteProofs.                                            *)

LEMMA LeastNumber ==
    ASSUME NEW T \in SUBSET Nat, T # {}
    PROVE  \E x \in T : \A y \in T : x <= y
<1>1. PICK x \in T : \A y \in T : ~ (<<y, x>> \in OpToRel(<, Nat))
  BY WFMin, NatLessThanWellFounded, Zenon
<1>2. \A y \in T : ~(y < x)
  BY <1>1, Zenon DEF OpToRel
<1> QED
  BY <1>2

LEMMA Induct ==
    ASSUME NEW T \in SUBSET Nat, 0 \in T, \A n \in T : n + 1 \in T
    PROVE  T = Nat
<1>1. SUFFICES ASSUME Nat \ T # {} PROVE FALSE
  OBVIOUS
<1>2. PICK x \in Nat \ T : \A y \in Nat \ T : x <= y
  BY <1>1, LeastNumber
<1>3. x - 1 \in Nat /\ x - 1 \notin Nat \ T
  BY <1>2
<1>4. (x - 1) + 1 \in T
  BY <1>3
<1> QED
  BY <1>2, <1>4

-----------------------------------------------------------------------------
(* The file: every row that is read is counted once.                       *)

IsSequence(s) == \E S : s \in Seq(S)

\* What the callback keeps is a record of its fields.
ReadShape(read) ==
    DOMAIN read = {"headerSeen", "header", "suppliers", "lines", "matched", "overwritten",
                   "unmatched", "aborted"}

\* Suppliers have ids of their own, one for each line that says MATCHED, and the
\* counters add up to the lines, of which there are never more than the cap.
Counted(read) ==
    /\ IsSequence(read.suppliers) /\ IsSequence(read.lines)
    /\ \A i, j \in DOMAIN read.suppliers :
          read.suppliers[i].id = read.suppliers[j].id => i = j
    /\ read.matched \in Nat /\ read.overwritten \in Nat /\ read.unmatched \in Nat
    /\ Len(read.suppliers) = read.matched
    /\ Len(read.lines) = read.matched + read.overwritten + read.unmatched
    /\ Len(read.lines) <= MaxRows

\* A line is MATCHED exactly when it is the first of its supplier, a reason is given
\* exactly when there is none, and the suppliers are those of the lines.
Told(lines, id) == \E i \in DOMAIN lines : lines[i].reason = None /\ lines[i].id = id
LinesTold(read) ==
    /\ \A i \in DOMAIN read.lines :
          /\ read.lines[i].outcome = "MATCHED" <=>
                /\ read.lines[i].reason = None
                /\ \A j \in 1..(i - 1) : read.lines[j].reason # None \/ read.lines[j].id # read.lines[i].id
    /\ \A id : id \in IdsOf(read.suppliers) <=> Told(read.lines, id)

LEMMA SequenceFacts ==
    ASSUME NEW s, IsSequence(s)
    PROVE  /\ Len(s) \in Nat /\ DOMAIN s = 1..Len(s)
           /\ \A e : /\ IsSequence(Append(s, e)) /\ Len(Append(s, e)) = Len(s) + 1
                     /\ Append(s, e)[Len(s) + 1] = e
                     /\ \A i \in 1..Len(s) : Append(s, e)[i] = s[i]
<1>1. PICK S : s \in Seq(S)
  BY DEF IsSequence
<1>2. Len(s) \in Nat /\ DOMAIN s = 1..Len(s)
  BY <1>1
<1>3. ASSUME NEW e
      PROVE  /\ IsSequence(Append(s, e)) /\ Len(Append(s, e)) = Len(s) + 1
             /\ Append(s, e)[Len(s) + 1] = e
             /\ \A i \in 1..Len(s) : Append(s, e)[i] = s[i]
  <2>1. s \in Seq(S \cup {e})
    BY <1>1
  <2>2. Append(s, e) \in Seq(S \cup {e})
    BY <2>1
  <2>3. IsSequence(Append(s, e))
    BY <2>2 DEF IsSequence
  <2> QED
    BY <2>1, <2>3
<1> QED
  BY <1>2, <1>3

\* A Map's set keeps the ids apart.
LEMMA PutKeeps ==
    ASSUME NEW s, NEW e, IsSequence(s),
           \A i, j \in DOMAIN s : s[i].id = s[j].id => i = j
    PROVE  LET t == Put(s, e)
           IN  /\ IsSequence(t) /\ \A i, j \in DOMAIN t : t[i].id = t[j].id => i = j
               /\ Len(t) = IF e.id \in IdsOf(s) THEN Len(s) ELSE Len(s) + 1
               /\ IdsOf(t) = IdsOf(s) \cup {e.id}
<1> DEFINE t == Put(s, e)
<1>a. Len(s) \in Nat /\ DOMAIN s = 1..Len(s)
  BY SequenceFacts
<1>1. CASE e.id \in IdsOf(s)
  <2>1. t = [i \in 1..Len(s) |-> IF s[i].id = e.id THEN e ELSE s[i]]
    BY <1>1, <1>a DEF Put
  <2>2. PICK S : s \in Seq(S)
    BY DEF IsSequence
  <2>3. t \in Seq(S \cup {e}) /\ Len(t) = Len(s)
    BY <2>1, <2>2, <1>a
  <2>4. \A i \in 1..Len(s) : t[i].id = s[i].id
    BY <2>1
  <2>5. DOMAIN t = DOMAIN s
    BY <2>1, <1>a
  <2> HIDE DEF t
  <2>6. IdsOf(t) = IdsOf(s)
    BY <2>4, <2>5, <1>a DEF IdsOf
  <2> QED
    BY <2>3, <2>4, <2>5, <2>6, <1>1, <1>a DEF IsSequence, t
<1>2. CASE e.id \notin IdsOf(s)
  <2>1. t = Append(s, e)
    BY <1>2 DEF Put
  <2>2. IsSequence(t) /\ Len(t) = Len(s) + 1 /\ t[Len(s) + 1] = e
        /\ \A i \in 1..Len(s) : t[i] = s[i]
    BY <2>1, SequenceFacts
  <2>3. DOMAIN t = 1..(Len(s) + 1)
    BY <2>2, SequenceFacts
  <2> HIDE DEF t
  <2>4. IdsOf(t) = IdsOf(s) \cup {e.id}
    BY <2>2, <2>3, <1>a DEF IdsOf
  <2>5. \A i, j \in DOMAIN t : t[i].id = t[j].id => i = j
    BY <2>2, <2>3, <1>2, <1>a DEF IdsOf
  <2> QED
    BY <2>2, <2>4, <2>5, <1>2 DEF t
<1> QED
  BY <1>1, <1>2

Reading(read) == ReadShape(read) /\ Counted(read) /\ LinesTold(read)

LEMMA UnreadReading == MaxRows \in Nat => Reading(Unread)
<1> SUFFICES ASSUME MaxRows \in Nat PROVE Reading(Unread)
  OBVIOUS
<1>1. IsSequence(<<>>)
  <2>1. <<>> \in Seq({})
    OBVIOUS
  <2> QED
    BY <2>1 DEF IsSequence
<1>2. ReadShape(Unread)
  BY DEF ReadShape, Unread
<1>3. /\ Unread.suppliers = <<>> /\ Unread.lines = <<>>
      /\ Unread.matched = 0 /\ Unread.overwritten = 0 /\ Unread.unmatched = 0
  BY DEF Unread
<1> QED
  BY <1>1, <1>2, <1>3 DEF Reading, Counted, LinesTold, IdsOf, Told

\* more is lines with e behind it.
Grown(lines, e, more) ==
    /\ IsSequence(more) /\ Len(more) = Len(lines) + 1
    /\ DOMAIN more = 1..(Len(lines) + 1) /\ DOMAIN lines = 1..Len(lines)
    /\ Len(lines) \in Nat /\ more[Len(lines) + 1] = e
    /\ \A i \in 1..Len(lines) : more[i] = lines[i]

LEMMA LineAdded ==
    ASSUME NEW lines, IsSequence(lines), NEW e
    PROVE  Grown(lines, e, Append(lines, e))
<1>1. IsSequence(Append(lines, e))
  BY SequenceFacts
<1> QED
  BY <1>1, SequenceFacts DEF Grown

LEMMA RejectReading ==
    ASSUME NEW read, Reading(read), NEW reason, reason # None,
           Len(read.lines) < MaxRows, MaxRows \in Nat
    PROVE  Reading(Reject(read, reason))
<1> DEFINE next == Reject(read, reason)
           line == [outcome |-> "UNMATCHED", reason |-> reason, id |-> None]
<1>1. /\ next.suppliers = read.suppliers /\ next.lines = Append(read.lines, line)
      /\ next.matched = read.matched /\ next.overwritten = read.overwritten
      /\ next.unmatched = read.unmatched + 1 /\ ReadShape(next)
  BY DEF Reject, Reading, ReadShape
<1>3. line.reason # None /\ line.outcome # "MATCHED"
  OBVIOUS
<1> HIDE DEF next, line
<1>2. /\ IsSequence(next.lines) /\ Len(next.lines) = Len(read.lines) + 1
      /\ DOMAIN next.lines = 1..(Len(read.lines) + 1) /\ DOMAIN read.lines = 1..Len(read.lines)
      /\ Len(read.lines) \in Nat /\ next.lines[Len(read.lines) + 1] = line
      /\ \A i \in 1..Len(read.lines) : next.lines[i] = read.lines[i]
  <2>1. IsSequence(read.lines)
    BY DEF Reading, Counted
  <2>2. Grown(read.lines, line, Append(read.lines, line))
    BY <2>1, LineAdded
  <2>3. Grown(read.lines, line, next.lines)
    BY <1>1, <2>2
  <2> QED
    BY <2>3 DEF Grown
<1>4. Counted(next)
  BY <1>1, <1>2, SMTT(30) DEF Reading, Counted
<1>5. LinesTold(next)
  <2>1. ASSUME NEW i \in DOMAIN next.lines
        PROVE  next.lines[i].outcome = "MATCHED" <=>
                  /\ next.lines[i].reason = None
                  /\ \A j \in 1..(i - 1) :
                        next.lines[j].reason # None \/ next.lines[j].id # next.lines[i].id
    <3>1. CASE i = Len(read.lines) + 1
      BY <3>1, <1>2, <1>3
    <3>2. CASE i \in 1..Len(read.lines)
      <4>1. \A j \in 1..(i - 1) : next.lines[j] = read.lines[j]
        BY <3>2, <1>2
      <4> QED
        BY <3>2, <4>1, <1>2 DEF Reading, LinesTold
    <3> QED
      BY <3>1, <3>2, <1>2
  <2>2. \A id : Told(next.lines, id) <=> Told(read.lines, id)
    <3>1. \A id : Told(read.lines, id) => Told(next.lines, id)
      BY <1>2 DEF Told
    <3>2. ASSUME NEW id, Told(next.lines, id) PROVE Told(read.lines, id)
      BY <1>2, <1>3, <3>2 DEF Told
    <3> QED
      BY <3>1, <3>2
  <2> QED
    BY <1>1, <2>1, <2>2 DEF Reading, LinesTold
<1> QED
  BY <1>1, <1>4, <1>5 DEF Reading, next

LEMMA AcceptReading ==
    ASSUME NEW read, Reading(read), NEW supplier,
           Len(read.lines) < MaxRows, MaxRows \in Nat
    PROVE  Reading(Accept(read, supplier))
<1> DEFINE next == Accept(read, supplier)
           known == supplier.id \in IdsOf(read.suppliers)
           line == [outcome |-> IF known THEN "MATCHED_OVERWRITE" ELSE "MATCHED",
                    reason |-> None, id |-> supplier.id]
<1>1. /\ next.suppliers = Put(read.suppliers, supplier)
      /\ next.lines = Append(read.lines, line)
      /\ next.matched = (IF known THEN read.matched ELSE read.matched + 1)
      /\ next.overwritten = (IF known THEN read.overwritten + 1 ELSE read.overwritten)
      /\ next.unmatched = read.unmatched /\ ReadShape(next)
  BY DEF Accept, Reading, ReadShape
<1>3. /\ line.reason = None /\ line.id = supplier.id
      /\ line.outcome = "MATCHED" <=> ~known
  OBVIOUS
<1> HIDE DEF next, line
<1>2. /\ IsSequence(next.lines) /\ Len(next.lines) = Len(read.lines) + 1
      /\ DOMAIN next.lines = 1..(Len(read.lines) + 1) /\ DOMAIN read.lines = 1..Len(read.lines)
      /\ Len(read.lines) \in Nat /\ next.lines[Len(read.lines) + 1] = line
      /\ \A i \in 1..Len(read.lines) : next.lines[i] = read.lines[i]
  <2>1. IsSequence(read.lines)
    BY DEF Reading, Counted
  <2>2. Grown(read.lines, line, Append(read.lines, line))
    BY <2>1, LineAdded
  <2>3. Grown(read.lines, line, next.lines)
    BY <1>1, <2>2
  <2> QED
    BY <2>3 DEF Grown
<1>p. /\ IsSequence(next.suppliers)
      /\ \A i, j \in DOMAIN next.suppliers : next.suppliers[i].id = next.suppliers[j].id => i = j
      /\ Len(next.suppliers) = (IF known THEN Len(read.suppliers) ELSE Len(read.suppliers) + 1)
      /\ IdsOf(next.suppliers) = IdsOf(read.suppliers) \cup {supplier.id}
  BY <1>1, PutKeeps, SMTT(30) DEF Reading, Counted
<1>4. Counted(next)
  <2>1. \/ /\ next.matched = read.matched /\ next.overwritten = read.overwritten + 1
           /\ Len(next.suppliers) = Len(read.suppliers)
        \/ /\ next.matched = read.matched + 1 /\ next.overwritten = read.overwritten
           /\ Len(next.suppliers) = Len(read.suppliers) + 1
    BY <1>1, <1>p
  <2>2. next.unmatched = read.unmatched
    BY <1>1
  <2>3. /\ read.matched \in Nat /\ read.overwritten \in Nat /\ read.unmatched \in Nat
        /\ Len(read.suppliers) = read.matched
        /\ Len(read.lines) = read.matched + read.overwritten + read.unmatched
    BY DEF Reading, Counted
  <2>4. /\ next.matched \in Nat /\ next.overwritten \in Nat /\ next.unmatched \in Nat
        /\ Len(next.suppliers) = next.matched
        /\ Len(next.lines) = next.matched + next.overwritten + next.unmatched
        /\ Len(next.lines) <= MaxRows
    <3>1. Len(next.lines) = Len(read.lines) + 1
      BY <1>2
    <3>2. next.matched \in Nat /\ next.overwritten \in Nat /\ next.unmatched \in Nat
      BY <2>1, <2>2, <2>3, SMTT(30)
    <3>3. Len(next.suppliers) = next.matched
      BY <2>1, <2>3
    <3>4. Len(next.lines) = next.matched + next.overwritten + next.unmatched
      <4>1. \A m, o, u \in Nat : (m + o + u) + 1 = (m + 1) + o + u
                                /\ (m + o + u) + 1 = m + (o + 1) + u
        OBVIOUS
      <4>2. Len(next.lines) = (read.matched + read.overwritten + read.unmatched) + 1
        BY <3>1, <2>3
      <4>3. CASE next.matched = read.matched /\ next.overwritten = read.overwritten + 1
        BY <4>1, <4>2, <4>3, <2>2, <2>3
      <4>4. CASE next.matched = read.matched + 1 /\ next.overwritten = read.overwritten
        BY <4>1, <4>2, <4>4, <2>2, <2>3
      <4> QED
        BY <2>1, <4>3, <4>4
    <3>5. Len(next.lines) <= MaxRows
      BY <3>1, <2>3
    <3> QED
      BY <3>2, <3>3, <3>4, <3>5
  <2> QED
    BY <2>4, <1>2, <1>p DEF Counted
<1>5. LinesTold(next)
  <2>0. \A id : id \in IdsOf(read.suppliers) <=> Told(read.lines, id)
    BY DEF Reading, LinesTold
  <2>1. ASSUME NEW i \in DOMAIN next.lines
        PROVE  next.lines[i].outcome = "MATCHED" <=>
                  /\ next.lines[i].reason = None
                  /\ \A j \in 1..(i - 1) :
                        next.lines[j].reason # None \/ next.lines[j].id # next.lines[i].id
    <3>1. CASE i = Len(read.lines) + 1
      <4>1. /\ next.lines[i] = line /\ i - 1 = Len(read.lines)
            /\ \A j \in 1..(i - 1) : next.lines[j] = read.lines[j]
        BY <3>1, <1>2
      <4>2. known <=> \E j \in 1..(i - 1) :
                         read.lines[j].reason = None /\ read.lines[j].id = supplier.id
        BY <2>0, <4>1, <1>2 DEF Told
      <4> QED
        BY <4>1, <4>2, <1>3
    <3>2. CASE i \in 1..Len(read.lines)
      <4>1. \A j \in 1..(i - 1) : next.lines[j] = read.lines[j]
        BY <3>2, <1>2
      <4> QED
        BY <3>2, <4>1, <1>2 DEF Reading, LinesTold
    <3> QED
      BY <3>1, <3>2, <1>2
  <2>2. \A id : Told(next.lines, id) <=> Told(read.lines, id) \/ id = supplier.id
    <3>1. Told(next.lines, supplier.id)
      BY <1>2, <1>3 DEF Told
    <3>2. \A id : Told(read.lines, id) => Told(next.lines, id)
      BY <1>2 DEF Told
    <3>3. ASSUME NEW id, Told(next.lines, id), id # supplier.id PROVE Told(read.lines, id)
      BY <1>2, <1>3, <3>3, SMTT(30) DEF Told
    <3> QED
      BY <3>1, <3>2, <3>3
  <2> QED
    BY <1>p, <2>0, <2>1, <2>2 DEF LinesTold
<1> QED
  BY <1>1, <1>4, <1>5 DEF Reading, next

LEMMA StepReading ==
    ASSUME NEW read, Reading(read), NEW row, MaxRows \in Nat
    PROVE  Reading(ParseStep(read, row))
<1>1. CASE read.aborted \/ ~NotEmpty(row)
  BY <1>1 DEF ParseStep
<1>2. CASE ~(read.aborted \/ ~NotEmpty(row)) /\ ~read.headerSeen
  <2>1. ParseStep(read, row) = ReadHeader(read, row)
    BY <1>2 DEF ParseStep
  <2> DEFINE next == ReadHeader(read, row)
  <2>2. /\ ReadShape(next)
        /\ next.suppliers = read.suppliers /\ next.lines = read.lines /\ next.matched = read.matched
        /\ next.overwritten = read.overwritten /\ next.unmatched = read.unmatched
    BY DEF ReadHeader, Reading, ReadShape
  <2> HIDE DEF next
  <2>3. Reading(next)
    BY <2>2 DEF Reading, Counted, LinesTold
  <2> QED
    BY <2>1, <2>3 DEF next
<1>3. CASE ~(read.aborted \/ ~NotEmpty(row)) /\ read.headerSeen /\ Len(read.lines) >= MaxRows
  <2> DEFINE next == [read EXCEPT !.aborted = TRUE]
  <2>1. ParseStep(read, row) = next
    BY <1>3 DEF ParseStep
  <2>2. /\ ReadShape(next)
        /\ next.suppliers = read.suppliers /\ next.lines = read.lines /\ next.matched = read.matched
        /\ next.overwritten = read.overwritten /\ next.unmatched = read.unmatched
    BY DEF Reading, ReadShape
  <2> HIDE DEF next
  <2>3. Reading(next)
    BY <2>2 DEF Reading, Counted, LinesTold
  <2> QED
    BY <2>1, <2>3
<1>4. CASE ~(read.aborted \/ ~NotEmpty(row)) /\ read.headerSeen /\ ~(Len(read.lines) >= MaxRows)
  <2>1. ParseStep(read, row) = ReadRow(read, row)
    BY <1>4 DEF ParseStep
  <2>2. Len(read.lines) < MaxRows
    BY <1>4, SequenceFacts DEF Reading, Counted
  <2> QED
    BY <2>1, <2>2, RejectReading, AcceptReading DEF ReadRow
<1> QED
  BY <1>1, <1>2, <1>3, <1>4

\* The parse of the first n rows of a file.
IsParse(f, file, n) ==
    f = [m \in 0..n |-> IF m = 0 THEN Unread ELSE ParseStep(f[m - 1], file[m])]

LEMMA ParseExists == ASSUME NEW file, NEW n \in Nat PROVE \E f : IsParse(f, file, n)
<1> DEFINE T == {k \in Nat : \E f : IsParse(f, file, k)}
<1>1. 0 \in T
  <2> DEFINE f == [m \in 0..0 |-> Unread]
  <2>1. IsParse(f, file, 0)
    BY DEF IsParse
  <2> QED
    BY <2>1
<1>2. ASSUME NEW k \in T PROVE k + 1 \in T
  <2>1. PICK f : IsParse(f, file, k)
    OBVIOUS
  <2> DEFINE g == [m \in 0..(k + 1) |-> IF m = k + 1 THEN ParseStep(f[k], file[k + 1]) ELSE f[m]]
  <2>2. ASSUME NEW m \in 0..(k + 1)
        PROVE  g[m] = IF m = 0 THEN Unread ELSE ParseStep(g[m - 1], file[m])
    <3>1. CASE m = k + 1
      BY <3>1
    <3>2. CASE m # k + 1
      <4>1. m \in 0..k /\ g[m] = f[m] /\ (m # 0 => m - 1 \in 0..(k + 1) /\ g[m - 1] = f[m - 1])
        BY <3>2
      <4>2. f[m] = IF m = 0 THEN Unread ELSE ParseStep(f[m - 1], file[m])
        BY <2>1, <4>1 DEF IsParse
      <4> QED
        BY <4>1, <4>2
    <3> QED
      BY <3>1, <3>2
  <2>3. g = [m \in 0..(k + 1) |-> g[m]]
    OBVIOUS
  <2> HIDE DEF g
  <2>4. IsParse(g, file, k + 1)
    BY <2>2, <2>3 DEF IsParse
  <2> QED
    BY <2>4
<1> HIDE DEF T
<1>3. T \in SUBSET Nat
  BY DEF T
<1>4. T = Nat
  BY <1>1, <1>2, <1>3, Induct
<1> QED
  BY <1>4 DEF T

LEMMA ParseReading ==
    ASSUME NEW file, NEW n \in Nat, NEW f, IsParse(f, file, n), MaxRows \in Nat
    PROVE  Reading(f[n])
<1> DEFINE T == {k \in Nat : k <= n => Reading(f[k])}
<1>1. 0 \in T
  BY UnreadReading DEF IsParse
<1>2. ASSUME NEW k \in T PROVE k + 1 \in T
  <2>1. CASE k + 1 <= n
    <3>1. f[k + 1] = ParseStep(f[k], file[k + 1])
      BY <2>1 DEF IsParse
    <3> QED
      BY <2>1, <3>1, StepReading
  <2> QED
    BY <2>1
<1> HIDE DEF T
<1>3. T \in SUBSET Nat
  BY DEF T
<1>4. n \in T
  BY <1>1, <1>2, <1>3, Induct
<1> QED
  BY <1>4 DEF T

\* The report of every file counts each row that was read once: a row is matched,
\* overwrites or is rejected, a line says MATCHED exactly for the first row of its
\* supplier, a supplier is stored once, and no more rows are read than the cap
\* (supplier-csv.ts:248-368).
THEOREM EveryRowIsCounted ==
    ASSUME NEW file, Len(file) \in Nat, MaxRows \in Nat
    PROVE  LET ingest == IngestSupplierCsv(file)
           IN  Counted(ingest) /\ LinesTold(ingest) /\ ingest.totalRows = Len(ingest.lines)
<1> DEFINE after == CHOOSE f : IsParse(f, file, Len(file))
<1>1. IsParse(after, file, Len(file))
  <2>1. \E f : IsParse(f, file, Len(file))
    BY ParseExists
  <2> QED
    BY <2>1
<1>2. IngestSupplierCsv(file) = Report(after[Len(file)])
  BY DEF IngestSupplierCsv, IsParse
<1> HIDE DEF after
<1>3. Reading(after[Len(file)])
  BY <1>1, ParseReading
<1> DEFINE read == after[Len(file)]
<1> HIDE DEF read
<1>4. /\ Report(read).suppliers = read.suppliers /\ Report(read).lines = read.lines
      /\ Report(read).matched = read.matched /\ Report(read).overwritten = read.overwritten
      /\ Report(read).unmatched = read.unmatched /\ Report(read).totalRows = Len(read.lines)
  BY DEF Report
<1>5. Counted(Report(read)) /\ LinesTold(Report(read))
  BY <1>3, <1>4 DEF Reading, Counted, LinesTold, read
<1> QED
  BY <1>2, <1>4, <1>5 DEF read

-----------------------------------------------------------------------------
(* The file: which row is which line, and which row is stored.             *)

IsFile(file) == Len(file) \in Nat /\ DOMAIN file = 1..Len(file)

\* The rows that come to the callback; how many of them stand before a row; the row of a
\* line, and the header, which is the row of line 0.
RowsOf(file) == {i \in DOMAIN file : NotEmpty(file[i])}
Pos(file, i) == Cardinality({j \in RowsOf(file) : j < i})
RowAt(file, n) == CHOOSE i \in RowsOf(file) : Pos(file, i) = n
RowOf(file, n) == file[RowAt(file, n)]
HeaderOf(file) == [c \in DOMAIN RowOf(file, 0) |-> Sanitized(RowOf(file, 0)[c])]

LEMMA PosStep ==
    ASSUME NEW file, IsFile(file)
    PROVE  /\ IsFiniteSet(RowsOf(file))
           /\ \A i \in Int : Pos(file, i) \in Nat /\ Pos(file, i) <= Cardinality(RowsOf(file))
           /\ Pos(file, 1) = 0
           /\ \A i \in 1..Len(file) :
                 Pos(file, i + 1) = IF i \in RowsOf(file) THEN Pos(file, i) + 1 ELSE Pos(file, i)
           /\ Pos(file, Len(file) + 1) = Cardinality(RowsOf(file))
<1> DEFINE Before(i) == {j \in RowsOf(file) : j < i}
<1>1. RowsOf(file) \in SUBSET (1..Len(file)) /\ Len(file) \in Nat
  BY DEF RowsOf, IsFile
<1>2. IsFiniteSet(1..Len(file))
  BY <1>1, FS_Interval
<1>3. IsFiniteSet(RowsOf(file))
  BY <1>1, <1>2, FS_Subset
<1>4. \A i \in Int : /\ IsFiniteSet(Before(i)) /\ Cardinality(Before(i)) \in Nat
                     /\ Cardinality(Before(i)) <= Cardinality(RowsOf(file))
  BY <1>3, FS_Subset, FS_CardinalityType
<1>5. Before(1) = {}
  BY <1>1
<1>6. ASSUME NEW i \in 1..Len(file)
      PROVE  Cardinality(Before(i + 1)) = IF i \in RowsOf(file) THEN Cardinality(Before(i)) + 1
                                          ELSE Cardinality(Before(i))
  <2>1. CASE i \in RowsOf(file)
    <3>1. Before(i + 1) = Before(i) \cup {i} /\ i \notin Before(i)
      BY <1>1, <2>1
    <3>2. IsFiniteSet(Before(i))
      BY <1>4
    <3> HIDE DEF Before
    <3>3. Cardinality(Before(i) \cup {i}) = Cardinality(Before(i)) + 1
      BY <3>1, <3>2, FS_AddElement
    <3> QED
      BY <2>1, <3>1, <3>3
  <2>2. CASE i \notin RowsOf(file)
    <3>1. Before(i + 1) = Before(i)
      BY <1>1, <2>2
    <3> QED
      BY <2>2, <3>1
  <2> QED
    BY <2>1, <2>2
<1>7. Before(Len(file) + 1) = RowsOf(file)
  BY <1>1
<1>8. \A i : Pos(file, i) = Cardinality(Before(i))
  BY DEF Pos
<1> HIDE DEF Before
<1> QED
  BY <1>3, <1>4, <1>5, <1>6, <1>7, <1>8, FS_EmptySet

LEMMA PosGrows ==
    ASSUME NEW file, IsFile(file), NEW i \in Int, NEW j \in Int, i <= j
    PROVE  Pos(file, i) <= Pos(file, j)
<1>1. IsFiniteSet({k \in RowsOf(file) : k < j})
  BY PosStep, FS_Subset
<1>2. \A k \in RowsOf(file) : k \in Int
  BY DEF RowsOf, IsFile
<1>3. {k \in RowsOf(file) : k < i} \in SUBSET {k \in RowsOf(file) : k < j}
  BY <1>2
<1> QED
  BY <1>1, <1>3, FS_Subset DEF Pos

\* A row stands at one place.
LEMMA RowAtPos ==
    ASSUME NEW file, IsFile(file), NEW i \in RowsOf(file)
    PROVE  RowAt(file, Pos(file, i)) = i
<1>1. RowsOf(file) \in SUBSET (1..Len(file)) /\ Len(file) \in Nat
  BY DEF RowsOf, IsFile
<1>2. \A j, k \in RowsOf(file) : j < k => Pos(file, j) # Pos(file, k)
  <2> TAKE j, k \in RowsOf(file)
  <2> HAVE j < k
  <2>1. /\ j \in Int /\ k \in Int /\ j \in 1..Len(file) /\ j + 1 <= k /\ j + 1 \in Int
    BY <1>1
  <2>2. Pos(file, j + 1) = Pos(file, j) + 1 /\ Pos(file, j) \in Nat /\ Pos(file, k) \in Nat
    BY <2>1, PosStep
  <2>3. Pos(file, j + 1) <= Pos(file, k)
    BY <2>1, PosGrows
  <2> QED
    BY <2>2, <2>3
<1>3. \A j \in RowsOf(file) : Pos(file, j) = Pos(file, i) => j = i
  BY <1>1, <1>2
<1>4. \E j \in RowsOf(file) : Pos(file, j) = Pos(file, i)
  OBVIOUS
<1> QED
  BY <1>3, <1>4, Zenon DEF RowAt

\* What a line says of its row.
Outcomes == {"MATCHED", "MATCHED_OVERWRITE", "UNMATCHED"}
Says(line, header, row) ==
    /\ line.reason = Rejection(header, row)
    /\ line.id = IF line.reason = None THEN Built(header, row).id ELSE None
    /\ line.outcome \in Outcomes /\ (line.outcome = "UNMATCHED" <=> line.reason # None)
LinesSay(lines, file) == \A i \in DOMAIN lines : Says(lines[i], HeaderOf(file), RowOf(file, i))

\* The counters that must be zero of a seed.
NoneWrong(read) ==
    /\ read.unmatched = 0 <=> \A i \in DOMAIN read.lines : read.lines[i].reason = None
    /\ read.overwritten = 0 <=>
          \A i \in DOMAIN read.lines : read.lines[i].outcome # "MATCHED_OVERWRITE"

\* A supplier is its last row, in the place of its first.
TellsOf(lines, id) == {i \in DOMAIN lines : lines[i].reason = None /\ lines[i].id = id}
Stored(suppliers, lines, file) ==
    \A n \in DOMAIN suppliers :
        /\ \E last \in TellsOf(lines, suppliers[n].id) :
              /\ suppliers[n] = Built(HeaderOf(file), RowOf(file, last))
              /\ \A i \in TellsOf(lines, suppliers[n].id) : i <= last
        /\ \A m \in 1..(n - 1) : \E i \in TellsOf(lines, suppliers[m].id) :
              \A j \in TellsOf(lines, suppliers[n].id) : i < j

\* Where the callback is after c of the rows that come to it.
Placed(read, file, c) ==
    \/ /\ c = 0 /\ read.headerSeen = FALSE /\ read.aborted = FALSE
       /\ read.lines = <<>> /\ read.suppliers = <<>>
    \/ /\ c > 0 /\ read.headerSeen = TRUE /\ read.header = HeaderOf(file)
       /\ \/ read.aborted = FALSE /\ Len(read.lines) = c - 1
          \/ read.aborted = TRUE /\ Len(read.lines) = MaxRows /\ c - 1 > MaxRows

ReadsFile(read, file, n) ==
    /\ Reading(read) /\ Placed(read, file, Pos(file, n + 1))
    /\ LinesSay(read.lines, file) /\ NoneWrong(read)
    /\ Stored(read.suppliers, read.lines, file)

LEMMA LinesSayMore ==
    ASSUME NEW lines, NEW line, NEW more, NEW file, Grown(lines, line, more),
           LinesSay(lines, file), Says(line, HeaderOf(file), RowOf(file, Len(lines) + 1))
    PROVE  LinesSay(more, file)
BY DEF Grown, LinesSay

LEMMA TellsMore ==
    ASSUME NEW lines, NEW line, NEW more, Grown(lines, line, more), NEW id
    PROVE  TellsOf(more, id) = IF line.reason = None /\ line.id = id
                               THEN TellsOf(lines, id) \cup {Len(lines) + 1} ELSE TellsOf(lines, id)
<1>1. DOMAIN more = DOMAIN lines \cup {Len(lines) + 1}
  BY DEF Grown
<1>2. \A i \in DOMAIN lines : more[i] = lines[i]
  BY DEF Grown
<1>3. more[Len(lines) + 1] = line
  BY DEF Grown
<1> QED
  BY <1>1, <1>2, <1>3 DEF TellsOf

LEMMA StoredStays ==
    ASSUME NEW suppliers, NEW lines, NEW line, NEW more, NEW file, Grown(lines, line, more),
           line.reason # None, Stored(suppliers, lines, file)
    PROVE  Stored(suppliers, more, file)
<1>1. \A id : TellsOf(more, id) = TellsOf(lines, id)
  BY TellsMore
<1> QED
  BY <1>1 DEF Stored

LEMMA StoredGrows ==
    ASSUME NEW suppliers, NEW lines, NEW line, NEW more, NEW file, NEW e,
           Grown(lines, line, more), IsSequence(suppliers),
           \A i, j \in DOMAIN suppliers : suppliers[i].id = suppliers[j].id => i = j,
           \A id : id \in IdsOf(suppliers) <=> Told(lines, id),
           line.reason = None, line.id = e.id,
           e = Built(HeaderOf(file), RowOf(file, Len(lines) + 1)),
           Stored(suppliers, lines, file)
    PROVE  Stored(Put(suppliers, e), more, file)
<1> DEFINE k == Len(lines) + 1
           next == Put(suppliers, e)
<1>1. /\ TellsOf(more, e.id) = TellsOf(lines, e.id) \cup {k}
      /\ \A id : id # e.id => TellsOf(more, id) = TellsOf(lines, id)
  BY TellsMore
<1>2. \A id : \A i \in TellsOf(lines, id) : i \in Nat /\ i < k
  BY DEF TellsOf, Grown
<1>3. k \in Nat
  BY DEF Grown
<1>4. DOMAIN suppliers = 1..Len(suppliers) /\ Len(suppliers) \in Nat
  BY SequenceFacts
<1> HIDE DEF k
<1>5. \A id : TellsOf(lines, id) \in SUBSET TellsOf(more, id)
  BY <1>1
<1>6. ASSUME NEW id, NEW i \in TellsOf(lines, id), NEW other, \A j \in TellsOf(lines, other) : i < j
      PROVE  \A j \in TellsOf(more, other) : i < j
  BY <1>1, <1>2, <1>6
<1>7. ASSUME NEW n \in DOMAIN suppliers, suppliers[n].id # e.id
      PROVE  \E last \in TellsOf(more, suppliers[n].id) :
                 /\ suppliers[n] = Built(HeaderOf(file), RowOf(file, last))
                 /\ \A i \in TellsOf(more, suppliers[n].id) : i <= last
  BY <1>1, <1>7 DEF Stored
<1>8. \E last \in TellsOf(more, e.id) :
          /\ e = Built(HeaderOf(file), RowOf(file, last))
          /\ \A i \in TellsOf(more, e.id) : i <= last
  <2>1. k \in TellsOf(more, e.id)
    BY <1>1
  <2>2. \A i \in TellsOf(more, e.id) : i <= k
    BY <1>1, <1>2, <1>3
  <2> QED
    BY <2>1, <2>2 DEF k
<1>9. ASSUME NEW n \in DOMAIN suppliers, NEW m \in 1..(n - 1)
      PROVE  \E i \in TellsOf(more, suppliers[m].id) : \A j \in TellsOf(more, suppliers[n].id) : i < j
  <2>1. PICK i \in TellsOf(lines, suppliers[m].id) : \A j \in TellsOf(lines, suppliers[n].id) : i < j
    BY DEF Stored
  <2>2. \A j \in TellsOf(more, suppliers[n].id) : i < j
    BY <2>1, <1>6
  <2> QED
    BY <2>2, <1>5
<1>10. CASE e.id \in IdsOf(suppliers)
  <2>1. next = [i \in DOMAIN suppliers |-> IF suppliers[i].id = e.id THEN e ELSE suppliers[i]]
    BY <1>10 DEF Put
  <2>2. DOMAIN next = DOMAIN suppliers /\ \A i \in DOMAIN suppliers :
            /\ next[i].id = suppliers[i].id
            /\ next[i] = e \/ (next[i] = suppliers[i] /\ suppliers[i].id # e.id)
    BY <2>1
  <2> HIDE DEF next
  <2>3. \A n \in DOMAIN next : \E last \in TellsOf(more, next[n].id) :
             /\ next[n] = Built(HeaderOf(file), RowOf(file, last))
             /\ \A i \in TellsOf(more, next[n].id) : i <= last
    BY <2>2, <1>7, <1>8
  <2>4. \A n \in DOMAIN next : \A m \in 1..(n - 1) : m \in DOMAIN suppliers
    BY <1>4, <2>2
  <2>5. \A n \in DOMAIN next : \A m \in 1..(n - 1) :
             \E i \in TellsOf(more, next[m].id) : \A j \in TellsOf(more, next[n].id) : i < j
    BY <1>9, <2>2, <2>4
  <2> QED
    BY <2>3, <2>5 DEF Stored, next
<1>11. CASE e.id \notin IdsOf(suppliers)
  <2>1. next = Append(suppliers, e)
    BY <1>11 DEF Put
  <2>2. IsSequence(next) /\ Len(next) = Len(suppliers) + 1 /\ next[Len(suppliers) + 1] = e
        /\ \A i \in 1..Len(suppliers) : next[i] = suppliers[i]
    <3>1. Grown(suppliers, e, next)
      BY <2>1, LineAdded, Zenon
    <3> QED
      BY <3>1 DEF Grown
  <2>3. DOMAIN next = 1..(Len(suppliers) + 1)
    BY <2>2, SequenceFacts
  <2> HIDE DEF next
  <2>4. TellsOf(more, e.id) = {k}
    <3>1. ~Told(lines, e.id)
      BY <1>11
    <3> QED
      BY <1>1, <3>1 DEF Told, TellsOf
  <2>5. \A n \in 1..Len(suppliers) : suppliers[n].id # e.id
    BY <1>4, <1>11 DEF IdsOf
  <2>6. \A n \in DOMAIN next : \E last \in TellsOf(more, next[n].id) :
             /\ next[n] = Built(HeaderOf(file), RowOf(file, last))
             /\ \A i \in TellsOf(more, next[n].id) : i <= last
    BY <1>4, <1>7, <1>8, <2>2, <2>3, <2>5
  <2>7. ASSUME NEW n \in DOMAIN next, NEW m \in 1..(n - 1)
        PROVE  \E i \in TellsOf(more, next[m].id) : \A j \in TellsOf(more, next[n].id) : i < j
    <3>1. m \in DOMAIN suppliers /\ next[m] = suppliers[m]
      BY <1>4, <2>2, <2>3
    <3>2. CASE n \in 1..Len(suppliers)
      BY <1>4, <1>9, <2>2, <3>1, <3>2
    <3>3. CASE n = Len(suppliers) + 1
      <4>1. PICK last \in TellsOf(lines, suppliers[m].id) : TRUE
        BY <3>1 DEF Stored
      <4>2. last < k /\ last \in TellsOf(more, next[m].id)
        BY <4>1, <1>2, <1>5, <3>1
      <4>3. next[n].id = e.id
        BY <3>3, <2>2
      <4> QED
        BY <4>2, <4>3, <2>4
    <3> QED
      BY <3>2, <3>3, <2>3
  <2> QED
    BY <2>6, <2>7 DEF Stored, next
<1> QED
  BY <1>10, <1>11


\* A row that is read adds its line, and a supplier where nothing is wrong with it.
LEMMA ReadRowReads ==
    ASSUME NEW read, NEW file, NEW i \in Nat, IsFile(file), MaxRows \in Nat,
           Reading(read), LinesSay(read.lines, file), NoneWrong(read),
           Stored(read.suppliers, read.lines, file),
           read.header = HeaderOf(file), Len(read.lines) < MaxRows,
           RowOf(file, Len(read.lines) + 1) = file[i]
    PROVE  LET next == ReadRow(read, file[i])
           IN  /\ LinesSay(next.lines, file) /\ NoneWrong(next)
               /\ Stored(next.suppliers, next.lines, file)
               /\ Len(next.lines) = Len(read.lines) + 1
               /\ next.headerSeen = read.headerSeen /\ next.aborted = read.aborted
               /\ next.header = read.header
<1> DEFINE row == file[i]
           reason == Rejection(read.header, row)
           next == ReadRow(read, row)
<1>1. /\ IsSequence(read.lines) /\ IsSequence(read.suppliers) /\ Len(read.lines) \in Nat
      /\ read.unmatched \in Nat /\ read.overwritten \in Nat /\ ReadShape(read)
      /\ \A j, k \in DOMAIN read.suppliers : read.suppliers[j].id = read.suppliers[k].id => j = k
      /\ \A id : id \in IdsOf(read.suppliers) <=> Told(read.lines, id)
  BY SequenceFacts DEF Reading, Counted, LinesTold
<1>2. CASE reason # None
  <2> PICK line : line = [outcome |-> "UNMATCHED", reason |-> reason, id |-> None]
    OBVIOUS
  <2>1. next = Reject(read, reason)
    BY <1>2 DEF ReadRow
  <2>2. /\ next.lines = Append(read.lines, line) /\ next.suppliers = read.suppliers
        /\ next.unmatched = read.unmatched + 1 /\ next.overwritten = read.overwritten
        /\ next.headerSeen = read.headerSeen /\ next.aborted = read.aborted
        /\ next.header = read.header
    BY <1>1, <2>1 DEF Reject, ReadShape
  <2>3. line.outcome = "UNMATCHED" /\ line.reason = reason /\ line.id = None
    OBVIOUS
  <2> HIDE DEF next
  <2>4. Grown(read.lines, line, next.lines)
    BY <1>1, <2>2, LineAdded
  <2>5. Says(line, HeaderOf(file), RowOf(file, Len(read.lines) + 1))
    BY <1>2, <2>3 DEF Says, Outcomes
  <2>6. LinesSay(next.lines, file)
    BY <2>4, <2>5, LinesSayMore
  <2>7. Stored(next.suppliers, next.lines, file)
    BY <1>2, <2>2, <2>3, <2>4, StoredStays
  <2>8. NoneWrong(next)
    <3>1. next.unmatched # 0 /\ \E j \in DOMAIN next.lines : next.lines[j].reason # None
      <4>1. Len(read.lines) + 1 \in DOMAIN next.lines /\ next.lines[Len(read.lines) + 1] = line
        BY <2>4 DEF Grown
      <4> QED
        BY <1>1, <1>2, <2>2, <2>3, <4>1, SMTT(30)
    <3>2. \A j \in DOMAIN next.lines : next.lines[j] = line \/ (j \in DOMAIN read.lines /\ next.lines[j] = read.lines[j])
      BY <2>4, SMTT(30) DEF Grown
    <3>3. \A j \in DOMAIN read.lines : j \in DOMAIN next.lines /\ next.lines[j] = read.lines[j]
      BY <2>4 DEF Grown
    <3>4. line.outcome # "MATCHED_OVERWRITE"
      BY <2>3
    <3> QED
      BY <2>2, <3>1, <3>2, <3>3, <3>4 DEF NoneWrong
  <2> QED
    BY <2>2, <2>4, <2>6, <2>7, <2>8 DEF Grown, next
<1>3. CASE reason = None
  <2> PICK e : e = Built(read.header, row)
    OBVIOUS
  <2> DEFINE known == e.id \in IdsOf(read.suppliers)
  <2> PICK line : line = [outcome |-> IF known THEN "MATCHED_OVERWRITE" ELSE "MATCHED",
                          reason |-> None, id |-> e.id]
    OBVIOUS
  <2>1. next = Accept(read, e)
    BY <1>3 DEF ReadRow
  <2>2. /\ next.lines = Append(read.lines, line) /\ next.suppliers = Put(read.suppliers, e)
        /\ next.unmatched = read.unmatched
        /\ next.overwritten = IF known THEN read.overwritten + 1 ELSE read.overwritten
        /\ next.headerSeen = read.headerSeen /\ next.aborted = read.aborted
        /\ next.header = read.header
    BY <1>1, <2>1 DEF Accept, ReadShape
  <2>3. /\ line.outcome = IF known THEN "MATCHED_OVERWRITE" ELSE "MATCHED"
        /\ line.reason = None /\ line.id = e.id
    OBVIOUS
  <2> HIDE DEF next, known
  <2>4. Grown(read.lines, line, next.lines)
    BY <1>1, <2>2, LineAdded
  <2>5. Says(line, HeaderOf(file), RowOf(file, Len(read.lines) + 1))
    BY <1>3, <2>3 DEF Says, Outcomes
  <2>6. LinesSay(next.lines, file)
    BY <2>4, <2>5, LinesSayMore
  <2>7. Stored(next.suppliers, next.lines, file)
    <3>1. e = Built(HeaderOf(file), RowOf(file, Len(read.lines) + 1))
      OBVIOUS
    <3> QED
      BY <1>1, <2>2, <2>3, <2>4, <3>1, StoredGrows, SMTT(30)
  <2>8. NoneWrong(next)
    <3>1. Len(read.lines) + 1 \in DOMAIN next.lines /\ next.lines[Len(read.lines) + 1] = line
      BY <2>4 DEF Grown
    <3>2. \A j \in DOMAIN next.lines : next.lines[j] = line \/ (j \in DOMAIN read.lines /\ next.lines[j] = read.lines[j])
      BY <2>4 DEF Grown
    <3>3. \A j \in DOMAIN read.lines : j \in DOMAIN next.lines /\ next.lines[j] = read.lines[j]
      BY <2>4 DEF Grown
    <3>4. next.unmatched = 0 <=> \A j \in DOMAIN next.lines : next.lines[j].reason = None
      BY <2>2, <2>3, <3>2, <3>3 DEF NoneWrong
    <3>5. CASE known
      <4>1. next.overwritten # 0 /\ line.outcome = "MATCHED_OVERWRITE"
        BY <1>1, <2>2, <2>3, <3>5
      <4> QED
        BY <3>1, <3>4, <4>1 DEF NoneWrong
    <3>6. CASE ~known
      <4>1. next.overwritten = read.overwritten /\ line.outcome # "MATCHED_OVERWRITE"
        BY <2>2, <2>3, <3>6
      <4> QED
        BY <3>2, <3>3, <3>4, <4>1 DEF NoneWrong
    <3> QED
      BY <3>5, <3>6
  <2> QED
    BY <2>2, <2>4, <2>6, <2>7, <2>8 DEF Grown, next
<1> QED
  BY <1>2, <1>3

LEMMA StepReads ==
    ASSUME NEW file, IsFile(file), NEW n \in Nat, n + 1 <= Len(file), MaxRows \in Nat,
           NEW read, ReadsFile(read, file, n)
    PROVE  ReadsFile(ParseStep(read, file[n + 1]), file, n + 1)
<1> PICK i : i = n + 1
  OBVIOUS
<1> PICK row : row = file[i]
  OBVIOUS
<1> PICK c : c = Pos(file, i)
  OBVIOUS
<1> PICK d : d = Pos(file, i + 1)
  OBVIOUS
<1> PICK next : next = ParseStep(read, row)
  OBVIOUS
<1>a. i \in 1..Len(file) /\ i \in Nat /\ i \in DOMAIN file
  BY DEF IsFile
<1>0. i \in 1..Len(file) /\ i \in Nat /\ i \in DOMAIN file /\ c \in Nat
      /\ d = IF i \in RowsOf(file) THEN c + 1 ELSE c
  <2>1. i \in Int
    BY <1>a
  <2>2. c \in Nat
    BY <2>1, PosStep, Zenon
  <2>3. d = IF i \in RowsOf(file) THEN c + 1 ELSE c
    BY <1>a, PosStep, Zenon
  <2> QED
    BY <1>a, <2>2, <2>3
<1>1. i \in RowsOf(file) <=> NotEmpty(row)
  BY <1>0 DEF RowsOf
<1>2. /\ Reading(read) /\ Placed(read, file, c) /\ LinesSay(read.lines, file) /\ NoneWrong(read)
      /\ Stored(read.suppliers, read.lines, file)
  BY DEF ReadsFile
<1>3. Reading(next)
  BY <1>2, StepReading
<1>4. Len(read.lines) \in Nat /\ Len(read.lines) <= MaxRows /\ ReadShape(read)
  BY <1>2, SequenceFacts DEF Reading, Counted
<1>5. /\ Placed(next, file, d) /\ LinesSay(next.lines, file) /\ NoneWrong(next)
      /\ Stored(next.suppliers, next.lines, file)
  <2>1. CASE ~NotEmpty(row)
    <3>1. next = read /\ d = c
      BY <1>0, <1>1, <2>1 DEF ParseStep
    <3> QED
      BY <1>2, <3>1
  <2>2. CASE NotEmpty(row) /\ read.aborted
    <3>1. next = read /\ d = c + 1
      BY <1>0, <1>1, <2>2 DEF ParseStep
    <3>2. Placed(next, file, d)
      BY <1>0, <1>2, <2>2, <3>1 DEF Placed
    <3> QED
      BY <1>2, <3>1, <3>2
  <2>3. CASE NotEmpty(row) /\ ~read.aborted /\ ~read.headerSeen
    <3>1. next = ReadHeader(read, row) /\ d = c + 1
      BY <1>0, <1>1, <2>3 DEF ParseStep
    <3>2. c = 0
      BY <1>0, <1>2, <2>3 DEF Placed
    <3>3. RowOf(file, 0) = row
      BY <1>1, <2>3, <3>2, RowAtPos DEF RowOf
    <3>4. /\ next.headerSeen = TRUE /\ next.header = HeaderOf(file)
          /\ next.lines = read.lines /\ next.suppliers = read.suppliers
          /\ next.aborted = read.aborted
          /\ next.unmatched = read.unmatched /\ next.overwritten = read.overwritten
      BY <1>4, <3>1, <3>3 DEF ReadHeader, HeaderOf, ReadShape
    <3>5. Len(read.lines) = 0
      BY <1>2, <2>3 DEF Placed
    <3>6. Placed(next, file, d)
      BY <2>3, <3>1, <3>2, <3>4, <3>5 DEF Placed
    <3>7. NoneWrong(next)
      BY <1>2, <3>4 DEF NoneWrong
    <3> QED
      BY <1>2, <3>4, <3>6, <3>7
  <2>4. CASE NotEmpty(row) /\ ~read.aborted /\ read.headerSeen /\ Len(read.lines) >= MaxRows
    <3>1. next = [read EXCEPT !.aborted = TRUE] /\ d = c + 1
      BY <1>0, <1>1, <2>4 DEF ParseStep
    <3>2. /\ next.headerSeen = read.headerSeen /\ next.header = read.header
          /\ next.lines = read.lines /\ next.suppliers = read.suppliers
          /\ next.aborted = TRUE
          /\ next.unmatched = read.unmatched /\ next.overwritten = read.overwritten
      BY <1>4, <3>1 DEF ReadShape
    <3>3. Len(read.lines) = MaxRows /\ Len(read.lines) = c - 1 /\ c > 0
      BY <1>2, <1>4, <2>4 DEF Placed
    <3>4. Placed(next, file, d)
      BY <1>0, <1>2, <2>4, <3>1, <3>2, <3>3 DEF Placed
    <3>5. NoneWrong(next)
      BY <1>2, <3>2 DEF NoneWrong
    <3> QED
      BY <1>2, <3>2, <3>4, <3>5
  <2>5. CASE NotEmpty(row) /\ ~read.aborted /\ read.headerSeen /\ ~(Len(read.lines) >= MaxRows)
    <3>1. next = ReadRow(read, row) /\ d = c + 1
      BY <1>0, <1>1, <2>5 DEF ParseStep
    <3>2. Len(read.lines) = c - 1 /\ c > 0 /\ read.header = HeaderOf(file)
      BY <1>2, <2>5 DEF Placed
    <3>3. RowOf(file, Len(read.lines) + 1) = file[i]
      <4>1. RowAt(file, c) = i
        BY <1>1, <2>5, RowAtPos
      <4>2. Len(read.lines) + 1 = c
        BY <1>0, <3>2
      <4> QED
        BY <4>1, <4>2 DEF RowOf
    <3>4. Len(read.lines) < MaxRows
      BY <1>4, <2>5
    <3>5. /\ LinesSay(next.lines, file) /\ NoneWrong(next)
          /\ Stored(next.suppliers, next.lines, file)
          /\ Len(next.lines) = Len(read.lines) + 1
          /\ next.headerSeen = read.headerSeen /\ next.aborted = read.aborted
          /\ next.header = read.header
      <4>1. next = ReadRow(read, file[i])
        BY <3>1
      <4>2. /\ LinesSay(ReadRow(read, file[i]).lines, file) /\ NoneWrong(ReadRow(read, file[i]))
            /\ Stored(ReadRow(read, file[i]).suppliers, ReadRow(read, file[i]).lines, file)
            /\ Len(ReadRow(read, file[i]).lines) = Len(read.lines) + 1
            /\ ReadRow(read, file[i]).headerSeen = read.headerSeen
            /\ ReadRow(read, file[i]).aborted = read.aborted
            /\ ReadRow(read, file[i]).header = read.header
        <5>1. LET after == ReadRow(read, file[i])
              IN  /\ LinesSay(after.lines, file) /\ NoneWrong(after)
                  /\ Stored(after.suppliers, after.lines, file)
                  /\ Len(after.lines) = Len(read.lines) + 1
                  /\ after.headerSeen = read.headerSeen /\ after.aborted = read.aborted
                  /\ after.header = read.header
          BY <1>0, <1>2, <3>2, <3>3, <3>4, ReadRowReads, SMTT(30)
        <5> QED
          BY <5>1
      <4> QED
        BY <4>1, <4>2, Zenon
    <3>6. Placed(next, file, d)
      BY <1>0, <1>2, <2>5, <3>1, <3>2, <3>5 DEF Placed
    <3> QED
      BY <3>5, <3>6
  <2> QED
    BY <2>1, <2>2, <2>3, <2>4, <2>5
<1> QED
  BY <1>3, <1>5 DEF ReadsFile

LEMMA UnreadReads ==
    ASSUME NEW file, IsFile(file), MaxRows \in Nat
    PROVE  ReadsFile(Unread, file, 0)
<1>1. Reading(Unread)
  BY UnreadReading
<1>2. Pos(file, 0 + 1) = 0
  BY PosStep
<1>3. /\ Unread.lines = <<>> /\ Unread.suppliers = <<>> /\ Unread.headerSeen = FALSE
      /\ Unread.aborted = FALSE /\ Unread.unmatched = 0 /\ Unread.overwritten = 0
  BY DEF Unread
<1>4. Placed(Unread, file, 0)
  BY <1>3 DEF Placed
<1>5. LinesSay(Unread.lines, file) /\ NoneWrong(Unread) /\ Stored(Unread.suppliers, Unread.lines, file)
  BY <1>3 DEF LinesSay, NoneWrong, Stored
<1> QED
  BY <1>1, <1>2, <1>4, <1>5 DEF ReadsFile

LEMMA ParseReads ==
    ASSUME NEW file, IsFile(file), NEW f, IsParse(f, file, Len(file)), MaxRows \in Nat
    PROVE  ReadsFile(f[Len(file)], file, Len(file))
<1> DEFINE T == {k \in Nat : k <= Len(file) => ReadsFile(f[k], file, k)}
<1>0. Len(file) \in Nat
  BY DEF IsFile
<1>1. 0 \in T
  BY <1>0, UnreadReads DEF IsParse
<1>2. ASSUME NEW k \in T PROVE k + 1 \in T
  <2>0. k \in Nat
    OBVIOUS
  <2>1. CASE k + 1 <= Len(file)
    <3>1. f[k + 1] = ParseStep(f[k], file[k + 1])
      BY <1>0, <2>0, <2>1 DEF IsParse
    <3>2. ReadsFile(f[k], file, k)
      BY <1>0, <2>0, <2>1
    <3>3. ReadsFile(f[k + 1], file, k + 1)
      BY <2>0, <2>1, <3>1, <3>2, StepReads
    <3> QED
      BY <2>0, <3>3
  <2> QED
    BY <2>0, <2>1
<1> HIDE DEF T
<1>3. T \in SUBSET Nat
  BY DEF T
<1>4. Len(file) \in T
  BY <1>0, <1>1, <1>2, <1>3, Induct
<1> QED
  BY <1>0, <1>4 DEF T

\* What the report of a file is made of.
LEMMA ReportReads ==
    ASSUME NEW file, IsFile(file), MaxRows \in Nat
    PROVE  \E read : /\ ReadsFile(read, file, Len(file))
                     /\ LET ingest == IngestSupplierCsv(file)
                        IN  /\ ingest.suppliers = read.suppliers /\ ingest.lines = read.lines
                            /\ ingest.matched = read.matched /\ ingest.overwritten = read.overwritten
                            /\ ingest.unmatched = read.unmatched
                            /\ ingest.totalRows = Len(read.lines) /\ ingest.aborted = read.aborted
<1> DEFINE after == CHOOSE f : IsParse(f, file, Len(file))
<1>1. IsParse(after, file, Len(file))
  <2>1. \E f : IsParse(f, file, Len(file))
    BY ParseExists DEF IsFile
  <2> QED
    BY <2>1
<1>2. IngestSupplierCsv(file) = Report(after[Len(file)])
  BY DEF IngestSupplierCsv, IsParse
<1> HIDE DEF after
<1>3. ReadsFile(after[Len(file)], file, Len(file))
  BY <1>1, ParseReads
<1> PICK read : read = after[Len(file)]
  OBVIOUS
<1>4. /\ Report(read).suppliers = read.suppliers /\ Report(read).lines = read.lines
      /\ Report(read).matched = read.matched /\ Report(read).overwritten = read.overwritten
      /\ Report(read).unmatched = read.unmatched /\ Report(read).totalRows = Len(read.lines)
      /\ Report(read).aborted = read.aborted
  BY DEF Report
<1> QED
  BY <1>2, <1>3, <1>4

\* Every row that is read has a line, and a supplier is made of its last row.
LEMMA FileAccounts ==
    ASSUME NEW file, IsFile(file), MaxRows \in Nat, None \notin DOMAIN IdRank,
           IdsOf(IngestSupplierCsv(file).suppliers) \subseteq DOMAIN IdRank
    PROVE  Accounts(IngestSupplierCsv(file), file)
<1> PICK ingest : ingest = IngestSupplierCsv(file)
  OBVIOUS
<1>1. PICK read : /\ ReadsFile(read, file, Len(file))
                  /\ ingest.suppliers = read.suppliers /\ ingest.lines = read.lines
                  /\ ingest.matched = read.matched /\ ingest.overwritten = read.overwritten
                  /\ ingest.unmatched = read.unmatched
                  /\ ingest.totalRows = Len(read.lines) /\ ingest.aborted = read.aborted
  BY ReportReads
<1>2. Counted(ingest) /\ LinesTold(ingest) /\ ingest.totalRows = Len(ingest.lines)
  BY EveryRowIsCounted DEF IsFile
<1>3. /\ Placed(read, file, Cardinality(RowsOf(file))) /\ LinesSay(ingest.lines, file)
      /\ Stored(ingest.suppliers, ingest.lines, file) /\ Cardinality(RowsOf(file)) \in Nat
  BY <1>1, PosStep, FS_CardinalityType DEF ReadsFile
<1>4. \A i \in DOMAIN ingest.lines :
         /\ (ingest.lines[i].reason = None) <=> (ingest.lines[i].id # None)
         /\ ingest.lines[i].reason = None => ingest.lines[i].id \in IdsOf(ingest.suppliers)
  <2> TAKE i \in DOMAIN ingest.lines
  <2>1. ingest.lines[i].reason # None => ingest.lines[i].id = None
    BY <1>3 DEF LinesSay, Says
  <2>2. ingest.lines[i].reason = None => ingest.lines[i].id \in IdsOf(ingest.suppliers)
    BY <1>2 DEF LinesTold, Told
  <2> QED
    BY <2>1, <2>2
<1> DEFINE rows == {i \in DOMAIN file : NotEmpty(file[i])}
           row(n) == file[CHOOSE i \in rows : Cardinality({j \in rows : j < i}) = n]
           header == [c \in DOMAIN row(0) |-> Sanitized(row(0)[c])]
           first(i) == \A j \in 1..(i - 1) : ingest.lines[j].id # ingest.lines[i].id
           linesOf(id) == {i \in DOMAIN ingest.lines : ingest.lines[i].id = id}
<1>5. rows = RowsOf(file) /\ header = HeaderOf(file) /\ \A n : row(n) = RowOf(file, n)
  BY DEF RowsOf, HeaderOf, RowOf, RowAt, Pos
<1> HIDE DEF rows, row, header
<1>6. Len(ingest.lines) \in Nat /\ DOMAIN ingest.lines = 1..Len(ingest.lines)
      /\ DOMAIN ingest.suppliers = 1..Len(ingest.suppliers)
  BY <1>2, SequenceFacts DEF Counted
<1>7. ASSUME NEW i \in DOMAIN ingest.lines
      PROVE  (ingest.lines[i].outcome = "MATCHED") <=> (ingest.lines[i].id # None /\ first(i))
  <2>1. \A j \in 1..(i - 1) : j \in DOMAIN ingest.lines
    BY <1>6
  <2>2. (ingest.lines[i].outcome = "MATCHED") <=>
           /\ ingest.lines[i].reason = None
           /\ \A j \in 1..(i - 1) : ingest.lines[j].reason # None \/ ingest.lines[j].id # ingest.lines[i].id
    BY <1>2 DEF LinesTold
  <2> QED
    BY <1>4, <2>1, <2>2
<1>8. \A id \in IdsOf(ingest.suppliers) : linesOf(id) = TellsOf(ingest.lines, id)
  BY <1>4 DEF TellsOf
<1>9. ASSUME NEW n \in DOMAIN ingest.suppliers
      PROVE  LET s == ingest.suppliers[n]
             IN  /\ \E last \in linesOf(s.id) :
                       s = Built(header, row(last)) /\ \A i \in linesOf(s.id) : i <= last
                 /\ \A m \in 1..(n - 1) : \E i \in linesOf(ingest.suppliers[m].id) :
                       \A j \in linesOf(s.id) : i < j
  <2>1. \A m \in 1..(n - 1) : m \in DOMAIN ingest.suppliers
    BY <1>6
  <2>2. \A m \in DOMAIN ingest.suppliers :
           linesOf(ingest.suppliers[m].id) = TellsOf(ingest.lines, ingest.suppliers[m].id)
    BY <1>8 DEF IdsOf
  <2> HIDE DEF linesOf
  <2>3. /\ \E last \in TellsOf(ingest.lines, ingest.suppliers[n].id) :
              /\ ingest.suppliers[n] = Built(HeaderOf(file), RowOf(file, last))
              /\ \A i \in TellsOf(ingest.lines, ingest.suppliers[n].id) : i <= last
        /\ \A m \in 1..(n - 1) : \E i \in TellsOf(ingest.lines, ingest.suppliers[m].id) :
              \A j \in TellsOf(ingest.lines, ingest.suppliers[n].id) : i < j
    BY <1>3 DEF Stored
  <2> QED
    BY <1>5, <2>1, <2>2, <2>3
<1>10. /\ ingest.totalRows = ingest.matched + ingest.overwritten + ingest.unmatched
       /\ ingest.totalRows = Len(ingest.lines) /\ ingest.totalRows <= MaxRows
       /\ Len(ingest.suppliers) = ingest.matched
  BY <1>2 DEF Counted
<1>11. ingest.aborted <=> Cardinality(rows) > ingest.totalRows + 1
  <2>1. ingest.aborted = read.aborted /\ ingest.totalRows = Len(read.lines)
    BY <1>1
  <2>2. CASE Cardinality(RowsOf(file)) = 0
    <3>1. read.lines = <<>> /\ read.aborted = FALSE
      BY <1>3, <2>2 DEF Placed
    <3> QED
      BY <2>1, <2>2, <3>1, <1>5
  <2>3. CASE Cardinality(RowsOf(file)) # 0 /\ read.aborted = FALSE
    <3>1. Len(read.lines) = Cardinality(RowsOf(file)) - 1
      BY <1>3, <2>3 DEF Placed
    <3> QED
      BY <2>1, <2>3, <3>1, <1>3, <1>5
  <2>4. CASE Cardinality(RowsOf(file)) # 0 /\ read.aborted # FALSE
    <3>1. read.aborted = TRUE /\ Len(read.lines) = MaxRows /\ Cardinality(RowsOf(file)) - 1 > MaxRows
      BY <1>3, <2>4 DEF Placed
    <3> QED
      BY <2>1, <3>1, <1>3, <1>5
  <2> QED
    BY <2>2, <2>3, <2>4
<1>12. Accounts(ingest, file)
  BY <1>4, <1>7, <1>9, <1>10, <1>11 DEF Accounts, rows, row, header
<1> QED
  BY <1>12

-----------------------------------------------------------------------------
(* A file that can be the seed.                                            *)

Top(file) == [c \in DOMAIN file[1] |-> Sanitized(file[1][c])]
Entry(file, i) == Built(Top(file), file[i])
CleanFile(file) ==
    /\ \A i \in 1..Len(file) : NotEmpty(file[i])
    /\ \A i \in 2..Len(file) : Rejection(Top(file), file[i]) = None
    /\ \A i, j \in 2..Len(file) : Entry(file, i).id = Entry(file, j).id => i = j
    /\ Len(file) - 1 <= MaxRows
SeedEntries(file) == {Entry(file, i) : i \in 2..Len(file)}

\* Where no row is empty, line n is row n + 1.
LEMMA FullFile ==
    ASSUME NEW file, IsFile(file)
    PROVE  /\ Cardinality(RowsOf(file)) = Len(file) <=> \A i \in 1..Len(file) : NotEmpty(file[i])
           /\ Cardinality(RowsOf(file)) = Len(file) =>
                 \A i \in 1..Len(file) : RowOf(file, i - 1) = file[i]
<1>1. RowsOf(file) \in SUBSET (1..Len(file)) /\ Len(file) \in Nat
  BY DEF RowsOf, IsFile
<1>2. \A n \in Nat : IsFiniteSet(1..n) /\ Cardinality(1..n) = n
  BY FS_Interval
<1>3. Cardinality(RowsOf(file)) = Len(file) <=> RowsOf(file) = 1..Len(file)
  BY <1>1, <1>2, FS_Subset
<1>4. RowsOf(file) = 1..Len(file) <=> \A i \in 1..Len(file) : NotEmpty(file[i])
  BY <1>1 DEF RowsOf, IsFile
<1>5. ASSUME RowsOf(file) = 1..Len(file), NEW i \in 1..Len(file)
      PROVE  RowOf(file, i - 1) = file[i]
  <2>1. {j \in RowsOf(file) : j < i} = 1..(i - 1) /\ i - 1 \in Nat
    BY <1>1, <1>5
  <2>2. Pos(file, i) = i - 1
    BY <1>2, <2>1 DEF Pos
  <2>3. RowAt(file, i - 1) = i
    BY <1>5, <2>2, RowAtPos
  <2> QED
    BY <2>3 DEF RowOf
<1> QED
  BY <1>3, <1>4, <1>5

\* A file is the seed's when it is clean, and the suppliers are then those of its rows.
LEMMA SeedMeans ==
    ASSUME NEW file, IsFile(file), MaxRows \in Nat, Len(file) >= 2
    PROVE  LET ingest == IngestSupplierCsv(file)
           IN  /\ SeedIsClean(ingest, Len(file) - 1) <=> CleanFile(file)
               /\ CleanFile(file) => ToSet(ingest.suppliers) = SeedEntries(file)
<1> PICK ingest : ingest = IngestSupplierCsv(file)
  OBVIOUS
<1>1. PICK read : /\ ReadsFile(read, file, Len(file))
                  /\ ingest.suppliers = read.suppliers /\ ingest.lines = read.lines
                  /\ ingest.matched = read.matched /\ ingest.overwritten = read.overwritten
                  /\ ingest.unmatched = read.unmatched
                  /\ ingest.totalRows = Len(read.lines) /\ ingest.aborted = read.aborted
  BY ReportReads
<1> PICK lines : lines = ingest.lines
  OBVIOUS
<1> PICK suppliers : suppliers = ingest.suppliers
  OBVIOUS
<1>2. Counted(ingest) /\ LinesTold(ingest) /\ ingest.totalRows = Len(lines)
  BY EveryRowIsCounted DEF IsFile
<1>3. /\ Placed(read, file, Cardinality(RowsOf(file))) /\ LinesSay(lines, file)
      /\ Stored(suppliers, lines, file) /\ Cardinality(RowsOf(file)) \in Nat
      /\ NoneWrong(read)
  BY <1>1, PosStep, FS_CardinalityType DEF ReadsFile
<1>4. /\ Len(lines) \in Nat /\ DOMAIN lines = 1..Len(lines) /\ Len(lines) <= MaxRows
      /\ Len(suppliers) \in Nat /\ DOMAIN suppliers = 1..Len(suppliers)
      /\ ingest.matched \in Nat /\ ingest.overwritten \in Nat /\ ingest.unmatched \in Nat
      /\ Len(lines) = ingest.matched + ingest.overwritten + ingest.unmatched
      /\ Len(suppliers) = ingest.matched
  BY <1>2, SequenceFacts DEF Counted
<1>5. /\ ingest.unmatched = 0 <=> \A i \in DOMAIN lines : lines[i].reason = None
      /\ ingest.overwritten = 0 <=> \A i \in DOMAIN lines : lines[i].outcome # "MATCHED_OVERWRITE"
  BY <1>1, <1>3 DEF NoneWrong
<1>6. \A i \in DOMAIN lines :
         /\ lines[i].reason = Rejection(HeaderOf(file), RowOf(file, i))
         /\ lines[i].reason = None => lines[i].id = Built(HeaderOf(file), RowOf(file, i)).id
         /\ lines[i].outcome \in {"MATCHED", "MATCHED_OVERWRITE", "UNMATCHED"}
         /\ lines[i].outcome = "UNMATCHED" <=> lines[i].reason # None
  BY <1>3 DEF LinesSay, Says, Outcomes
<1>7. \A i \in DOMAIN lines : lines[i].outcome = "MATCHED" <=>
         /\ lines[i].reason = None
         /\ \A j \in 1..(i - 1) : lines[j].reason # None \/ lines[j].id # lines[i].id
  BY <1>2 DEF LinesTold
<1>8. Len(file) \in Nat
  BY DEF IsFile
\* When every row came to a line.
<1>9. ASSUME Cardinality(RowsOf(file)) = Len(file), Len(lines) = Len(file) - 1
      PROVE  /\ HeaderOf(file) = Top(file)
             /\ \A i \in DOMAIN lines : i + 1 \in 2..Len(file) /\ RowOf(file, i) = file[i + 1]
             /\ \A i \in DOMAIN lines :
                   /\ lines[i].reason = Rejection(Top(file), file[i + 1])
                   /\ lines[i].reason = None => lines[i].id = Entry(file, i + 1).id
             /\ \A i \in 2..Len(file) : i - 1 \in DOMAIN lines /\ (i - 1) + 1 = i
  <2>1. \A i \in 1..Len(file) : RowOf(file, i - 1) = file[i]
    BY <1>9, FullFile
  <2>2. 1 \in 1..Len(file) /\ 1 - 1 = 0
    BY <1>8
  <2>3. RowOf(file, 0) = file[1]
    BY <2>1, <2>2
  <2>4. HeaderOf(file) = Top(file)
    BY <2>3 DEF HeaderOf, Top
  <2>5. \A i \in DOMAIN lines : i \in Nat /\ i + 1 \in 2..Len(file) /\ i + 1 \in 1..Len(file) /\ (i + 1) - 1 = i
    BY <1>4, <1>8, <1>9
  <2>6. \A i \in DOMAIN lines : RowOf(file, i) = file[i + 1]
    BY <2>1, <2>5
  <2>7. \A i \in 2..Len(file) : i - 1 \in DOMAIN lines /\ (i - 1) + 1 = i
    BY <1>4, <1>8, <1>9
  <2>8. ASSUME NEW i \in DOMAIN lines
        PROVE  /\ lines[i].reason = Rejection(Top(file), file[i + 1])
               /\ lines[i].reason = None => lines[i].id = Entry(file, i + 1).id
    <3>1. /\ lines[i].reason = Rejection(HeaderOf(file), RowOf(file, i))
          /\ lines[i].reason = None => lines[i].id = Built(HeaderOf(file), RowOf(file, i)).id
      BY <1>6
    <3>2. RowOf(file, i) = file[i + 1]
      BY <2>6
    <3> QED
      BY <2>4, <3>1, <3>2 DEF Entry
  <2> QED
    BY <2>4, <2>5, <2>6, <2>7, <2>8
<1>10. ASSUME SeedIsClean(ingest, Len(file) - 1) PROVE CleanFile(file)
  <2>1. /\ ~ingest.aborted /\ ingest.unmatched = 0 /\ ingest.overwritten = 0
        /\ Len(lines) = Len(file) - 1
    BY <1>2, <1>10 DEF SeedIsClean
  <2>2. Cardinality(RowsOf(file)) = Len(file)
    <3>1. read.lines # <<>> /\ ~read.aborted /\ Len(read.lines) = Len(file) - 1
      <4>1. Len(read.lines) = Len(file) - 1 /\ ~read.aborted
        BY <1>1, <2>1
      <4>2. Len(<<>>) = 0
        OBVIOUS
      <4>3. Len(file) - 1 # 0
        <5>1. \A k \in Nat : k >= 2 => k - 1 # 0
          OBVIOUS
        <5> QED
          BY <1>8, <5>1, Zenon
      <4>4. read.lines # <<>>
        <5>1. SUFFICES ASSUME read.lines = <<>> PROVE FALSE
          OBVIOUS
        <5>2. Len(read.lines) = 0
          BY <5>1, <4>2
        <5> QED
          BY <4>1, <4>3, <5>2
      <4> QED
        BY <4>1, <4>4
    <3>2. Len(read.lines) = Cardinality(RowsOf(file)) - 1
      BY <1>3, <3>1 DEF Placed
    <3> QED
      BY <1>3, <1>8, <3>1, <3>2
  <2>3. \A i \in 1..Len(file) : NotEmpty(file[i])
    BY <2>2, FullFile
  <2>4. \A i \in DOMAIN lines : lines[i].reason = None
    BY <1>5, <2>1
  <2>5. \A i \in 2..Len(file) : Rejection(Top(file), file[i]) = None
    BY <1>9, <2>1, <2>2, <2>4
  <2>6. \A i \in DOMAIN lines : \A j \in 1..(i - 1) : lines[j].id # lines[i].id
    <3> TAKE i \in DOMAIN lines
    <3>1. lines[i].outcome = "MATCHED"
      BY <1>5, <1>6, <2>1, <2>4
    <3>2. \A j \in 1..(i - 1) : j \in DOMAIN lines
      BY <1>4
    <3> QED
      BY <1>7, <2>4, <3>1, <3>2
  <2>7. \A i, j \in DOMAIN lines : lines[i].id = lines[j].id => i = j
    <3> TAKE i, j \in DOMAIN lines
    <3>1. i = j \/ i \in 1..(j - 1) \/ j \in 1..(i - 1)
      BY <1>4
    <3> QED
      BY <2>6, <3>1, Zenon
  <2>8. \A i, j \in 2..Len(file) : Entry(file, i).id = Entry(file, j).id => i = j
    <3> TAKE i, j \in 2..Len(file)
    <3>1. i - 1 \in DOMAIN lines /\ j - 1 \in DOMAIN lines /\ (i - 1) + 1 = i /\ (j - 1) + 1 = j
      BY <1>9, <2>1, <2>2
    <3>2. lines[i - 1].id = Entry(file, i).id /\ lines[j - 1].id = Entry(file, j).id
      <4>1. \A k \in DOMAIN lines : lines[k].id = Entry(file, k + 1).id
        BY <1>9, <2>1, <2>2, <2>4
      <4>2. lines[i - 1].id = Entry(file, (i - 1) + 1).id /\ lines[j - 1].id = Entry(file, (j - 1) + 1).id
        BY <3>1, <4>1
      <4> QED
        BY <3>1, <4>2
    <3>3. i - 1 = j - 1 => i = j
      BY <1>8
    <3> QED
      BY <2>7, <3>1, <3>2, <3>3
  <2> QED
    BY <1>4, <2>1, <2>3, <2>5, <2>8 DEF CleanFile
<1>11. ASSUME CleanFile(file)
       PROVE  SeedIsClean(ingest, Len(file) - 1) /\ ToSet(suppliers) = SeedEntries(file)
  <2>1. Cardinality(RowsOf(file)) = Len(file)
    BY <1>11, FullFile DEF CleanFile
  <2>2. read.aborted = FALSE /\ Len(lines) = Len(file) - 1
    <3>1. Len(file) - 1 <= MaxRows
      BY <1>11 DEF CleanFile
    <3>2. read.aborted = FALSE /\ Len(read.lines) = Len(file) - 1
      BY <1>3, <1>8, <2>1, <3>1 DEF Placed
    <3> QED
      BY <1>1, <3>2
  <2>3. \A i \in DOMAIN lines : /\ lines[i].reason = None /\ lines[i].id = Entry(file, i + 1).id
                                /\ i + 1 \in 2..Len(file)
    <3>1. \A i \in DOMAIN lines : lines[i].reason = None
      BY <1>9, <1>11, <2>1, <2>2 DEF CleanFile
    <3> QED
      BY <1>9, <2>1, <2>2, <3>1
  <2>4. \A i, j \in DOMAIN lines : lines[i].id = lines[j].id => i = j
    <3> TAKE i, j \in DOMAIN lines
    <3>1. Entry(file, i + 1).id = Entry(file, j + 1).id => i + 1 = j + 1
      BY <1>11, <2>3 DEF CleanFile
    <3>2. i + 1 = j + 1 => i = j
      BY <1>4
    <3> QED
      BY <2>3, <3>1, <3>2
  <2>5. \A i \in DOMAIN lines : lines[i].outcome = "MATCHED"
    <3> TAKE i \in DOMAIN lines
    <3>1. \A j \in 1..(i - 1) : j \in DOMAIN lines /\ j # i
      BY <1>4, SMTT(30)
    <3> QED
      BY <1>7, <2>3, <2>4, <3>1
  <2>6. ingest.unmatched = 0 /\ ingest.overwritten = 0
    BY <1>5, <2>3, <2>5
  <2>7. ingest.matched = Len(file) - 1 /\ ingest.totalRows = Len(file) - 1
    BY <1>2, <1>4, <2>2, <2>6
  <2>8. SeedIsClean(ingest, Len(file) - 1)
    BY <1>1, <2>2, <2>6, <2>7 DEF SeedIsClean
  <2>9. \A n \in DOMAIN suppliers : \E i \in DOMAIN lines :
           suppliers[n] = Entry(file, i + 1) /\ lines[i].id = suppliers[n].id
    <3> TAKE n \in DOMAIN suppliers
    <3>1. PICK last \in TellsOf(lines, suppliers[n].id) :
             suppliers[n] = Built(HeaderOf(file), RowOf(file, last))
      BY <1>3 DEF Stored
    <3>2. last \in DOMAIN lines /\ lines[last].id = suppliers[n].id
      BY <3>1 DEF TellsOf
    <3>3. HeaderOf(file) = Top(file) /\ RowOf(file, last) = file[last + 1]
      BY <1>9, <2>1, <2>2, <3>2
    <3> QED
      BY <3>1, <3>2, <3>3 DEF Entry
  <2>10. ASSUME NEW x \in ToSet(suppliers) PROVE x \in SeedEntries(file)
    <3>1. PICK n \in DOMAIN suppliers : x = suppliers[n]
      BY DEF ToSet
    <3>2. PICK i \in DOMAIN lines : suppliers[n] = Entry(file, i + 1)
      BY <2>9
    <3> QED
      BY <2>3, <3>1, <3>2 DEF SeedEntries
  <2>11. ASSUME NEW k \in 2..Len(file) PROVE Entry(file, k) \in ToSet(suppliers)
    <3>1. k - 1 \in DOMAIN lines /\ (k - 1) + 1 = k
      BY <1>9, <2>1, <2>2
    <3>2. Told(lines, lines[k - 1].id)
      BY <2>3, <3>1 DEF Told
    <3>3. lines[k - 1].id \in IdsOf(suppliers)
      BY <1>2, <3>2 DEF LinesTold
    <3>4. PICK n \in DOMAIN suppliers : suppliers[n].id = lines[k - 1].id
      BY <3>3 DEF IdsOf
    <3>5. PICK i \in DOMAIN lines : suppliers[n] = Entry(file, i + 1) /\ lines[i].id = suppliers[n].id
      BY <2>9
    <3>6. i = k - 1
      BY <2>4, <3>1, <3>4, <3>5
    <3>7. suppliers[n] = Entry(file, k)
      BY <3>1, <3>5, <3>6
    <3> QED
      BY <3>7 DEF ToSet
  <2>12. ToSet(suppliers) = SeedEntries(file)
    BY <2>10, <2>11 DEF SeedEntries
  <2> QED
    BY <2>8, <2>12
<1> QED
  BY <1>10, <1>11

\* The rows of a file below its header, in another order.
Turned(file, order) == [i \in DOMAIN file |-> IF i = 1 THEN file[1] ELSE file[order[i]]]

LEMMA TurnedIs ==
    ASSUME NEW file, IsFile(file), Len(file) >= 2,
           NEW order \in Bijection(2..Len(file), 2..Len(file))
    PROVE  LET new == Turned(file, order)
           IN  /\ IsFile(new) /\ Len(new) = Len(file)
               /\ CleanFile(new) <=> CleanFile(file)
               /\ SeedEntries(new) = SeedEntries(file)
<1> PICK n \in Nat : n = Len(file)
  BY DEF IsFile
<1> PICK new : new = Turned(file, order)
  OBVIOUS
<1>1. /\ order \in [2..n -> 2..n] /\ \A i, j \in 2..n : order[i] = order[j] => i = j
      /\ \A k \in 2..n : \E i \in 2..n : order[i] = k
  BY DEF Bijection, Injection, Surjection, IsInjective
<1>2. DOMAIN file = 1..n /\ 1 \in 1..n /\ \A i \in 2..n : i \in 1..n /\ i # 1
  BY DEF IsFile
<1>3. new = [i \in 1..n |-> IF i = 1 THEN file[1] ELSE file[order[i]]]
  BY <1>2 DEF Turned
<1>4. Len(new) = n /\ DOMAIN new = 1..n
  <2>1. new \in Seq({new[i] : i \in 1..n})
    BY <1>3
  <2> QED
    BY <1>3, <2>1
<1>5. new[1] = file[1] /\ \A i \in 2..n : new[i] = file[order[i]] /\ order[i] \in 2..n
  BY <1>1, <1>2, <1>3
<1>6. Top(new) = Top(file)
  BY <1>5 DEF Top
<1>7. \A i \in 2..n : Entry(new, i) = Entry(file, order[i])
  BY <1>5, <1>6 DEF Entry
<1>a. \A k \in 2..n : \E i \in 2..n : new[i] = file[k]
  <2> TAKE k \in 2..n
  <2>1. PICK i \in 2..n : order[i] = k
    BY <1>1
  <2>2. new[i] = file[k]
    BY <1>5, <2>1
  <2> QED
    BY <2>2
<1>b. \A i \in 2..n : \E k \in 2..n : new[i] = file[k]
  BY <1>5
<1>8. (\A i \in 1..n : NotEmpty(new[i])) <=> \A i \in 1..n : NotEmpty(file[i])
  <2>1. \A i \in 1..n : i = 1 \/ i \in 2..n
    OBVIOUS
  <2>2. ASSUME \A i \in 1..n : NotEmpty(new[i]), NEW i \in 1..n PROVE NotEmpty(file[i])
    BY <1>a, <1>2, <1>5, <2>1, <2>2, Zenon
  <2>3. ASSUME \A i \in 1..n : NotEmpty(file[i]), NEW i \in 1..n PROVE NotEmpty(new[i])
    BY <1>b, <1>2, <1>5, <2>1, <2>3, Zenon
  <2> QED
    BY <2>2, <2>3
<1>9. (\A i \in 2..n : Rejection(Top(new), new[i]) = None)
        <=> \A i \in 2..n : Rejection(Top(file), file[i]) = None
  <2>1. ASSUME \A i \in 2..n : Rejection(Top(new), new[i]) = None, NEW k \in 2..n
        PROVE  Rejection(Top(file), file[k]) = None
    <3>1. PICK i \in 2..n : new[i] = file[k]
      BY <1>a
    <3> QED
      BY <1>6, <2>1, <3>1
  <2>2. ASSUME \A i \in 2..n : Rejection(Top(file), file[i]) = None, NEW i \in 2..n
        PROVE  Rejection(Top(new), new[i]) = None
    <3>1. PICK k \in 2..n : new[i] = file[k]
      BY <1>b
    <3> QED
      BY <1>6, <2>2, <3>1
  <2> QED
    BY <2>1, <2>2
<1>10. (\A i, j \in 2..n : Entry(new, i).id = Entry(new, j).id => i = j)
         <=> \A i, j \in 2..n : Entry(file, i).id = Entry(file, j).id => i = j
  <2>1. ASSUME \A i, j \in 2..n : Entry(file, i).id = Entry(file, j).id => i = j,
               NEW i \in 2..n, NEW j \in 2..n, Entry(new, i).id = Entry(new, j).id
        PROVE  i = j
    <3>1. Entry(file, order[i]).id = Entry(file, order[j]).id
      BY <1>7, <2>1, Zenon
    <3>2. order[i] = order[j]
      BY <1>5, <2>1, <3>1, Zenon
    <3> QED
      BY <1>1, <3>2, Zenon
  <2>2. ASSUME \A i, j \in 2..n : Entry(new, i).id = Entry(new, j).id => i = j,
               NEW i \in 2..n, NEW j \in 2..n, Entry(file, i).id = Entry(file, j).id
        PROVE  i = j
    <3>1. PICK k \in 2..n : order[k] = i
      BY <1>1
    <3>2. PICK l \in 2..n : order[l] = j
      BY <1>1
    <3> QED
      BY <1>7, <2>2, <3>1, <3>2
  <2> QED
    BY <2>1, <2>2
<1>11. SeedEntries(new) = SeedEntries(file)
  <2>1. \A i \in 2..n : \E k \in 2..n : Entry(new, i) = Entry(file, k)
    BY <1>5, <1>7
  <2>2. \A k \in 2..n : \E i \in 2..n : Entry(file, k) = Entry(new, i)
    BY <1>1, <1>7
  <2>3. Len(new) = n /\ Len(file) = n
    BY <1>4
  <2>4. \A x : /\ x \in SeedEntries(new) <=> \E i \in 2..n : x = Entry(new, i)
               /\ x \in SeedEntries(file) <=> \E i \in 2..n : x = Entry(file, i)
    BY <2>3 DEF SeedEntries
  <2>5. ASSUME NEW x \in SeedEntries(new) PROVE x \in SeedEntries(file)
    <3>1. PICK i \in 2..n : x = Entry(new, i)
      BY <2>4
    <3>2. PICK k \in 2..n : Entry(new, i) = Entry(file, k)
      BY <2>1
    <3> QED
      BY <2>4, <3>1, <3>2
  <2>6. ASSUME NEW x \in SeedEntries(file) PROVE x \in SeedEntries(new)
    <3>1. PICK k \in 2..n : x = Entry(file, k)
      BY <2>4
    <3>2. PICK i \in 2..n : Entry(file, k) = Entry(new, i)
      BY <2>2
    <3> QED
      BY <2>4, <3>1, <3>2
  <2> QED
    BY <2>5, <2>6
<1> QED
  BY <1>2, <1>4, <1>8, <1>9, <1>10, <1>11 DEF IsFile, CleanFile

-----------------------------------------------------------------------------
(* The backups are those of the set of suppliers.                          *)

Ranked(suppliers) == IdsOf(suppliers) \subseteq DOMAIN IdRank
RanksAreOwn ==
    \A a, b \in DOMAIN IdRank : IdRank[a] \in Nat /\ (IdRank[a] = IdRank[b] => a = b)

Leads(B, x, y) ==
    /\ y \in B /\ Qualified(x, y)
    /\ \A z \in B : Qualified(x, z) => IdRank[y.id] <= IdRank[z.id]
BackupIn(B, sole, x) ==
    IF x.name.text \in sole \/ ~\E y \in B : Qualified(x, y) THEN None
    ELSE (CHOOSE y \in B : Leads(B, x, y)).id

LEMMA LinkIs ==
    ASSUME NEW suppliers, NEW sole, Ranked(suppliers), RanksAreOwn
    PROVE  LET linked == LinkBackupSuppliers(suppliers, sole)
           IN  /\ DOMAIN linked = DOMAIN suppliers
               /\ \A i \in DOMAIN suppliers :
                     linked[i] = [suppliers[i] EXCEPT !.backup = BackupIn(ToSet(suppliers), sole, suppliers[i])]
<1> DEFINE B == ToSet(suppliers)
           alternates(s) == {i \in DOMAIN suppliers : Qualified(s, suppliers[i])}
           rank(i) == IdRank[suppliers[i].id]
           least(s) == CHOOSE i \in alternates(s) : \A j \in alternates(s) : rank(i) <= rank(j)
           backup(s) == IF s.name.text \in sole \/ alternates(s) = {} THEN None ELSE suppliers[least(s)].id
<1>1. LinkBackupSuppliers(suppliers, sole)
        = [i \in DOMAIN suppliers |-> [suppliers[i] EXCEPT !.backup = backup(suppliers[i])]]
  BY DEF LinkBackupSuppliers
<1>2. \A i \in DOMAIN suppliers : suppliers[i].id \in DOMAIN IdRank /\ rank(i) \in Nat
  BY DEF Ranked, RanksAreOwn, IdsOf
<1>3. ASSUME NEW s PROVE backup(s) = BackupIn(B, sole, s)
  <2>1. (\E y \in B : Qualified(s, y)) <=> alternates(s) # {}
    BY DEF ToSet
  <2>2. CASE s.name.text \in sole \/ alternates(s) = {}
    BY <2>1, <2>2 DEF BackupIn
  <2>3. CASE ~(s.name.text \in sole \/ alternates(s) = {})
    <3>1. \E i \in alternates(s) : \A j \in alternates(s) : rank(i) <= rank(j)
      <4> DEFINE T == {rank(i) : i \in alternates(s)}
      <4>1. T \in SUBSET Nat /\ T # {}
        BY <1>2, <2>3
      <4>2. PICK x \in T : \A y \in T : x <= y
        BY <4>1, LeastNumber
      <4> QED
        BY <4>2
    <3>2. least(s) \in alternates(s) /\ \A j \in alternates(s) : rank(least(s)) <= rank(j)
      BY <3>1
    <3> PICK l : l = least(s)
      OBVIOUS
    <3>3. l \in alternates(s) /\ \A j \in alternates(s) : rank(l) <= rank(j)
      BY <3>2
    <3> HIDE DEF least
    <3>4. suppliers[l] \in B /\ Leads(B, s, suppliers[l])
      BY <3>3 DEF Leads, ToSet
    <3> DEFINE y == CHOOSE y \in B : Leads(B, s, y)
    <3>5. y \in B /\ Leads(B, s, y)
      BY <3>4
    <3> HIDE DEF y
    <3>6. PICK k \in DOMAIN suppliers : y = suppliers[k]
      BY <3>5 DEF ToSet
    <3>7. k \in alternates(s)
      BY <3>5, <3>6 DEF Leads
    <3>8. rank(l) <= rank(k) /\ rank(k) <= rank(l) /\ rank(l) \in Nat /\ rank(k) \in Nat
      BY <1>2, <3>3, <3>4, <3>5, <3>6, <3>7 DEF Leads
    <3>9. suppliers[l].id = suppliers[k].id
      <4>1. rank(l) = rank(k)
        BY <3>8
      <4> QED
        BY <1>2, <3>3, <4>1 DEF RanksAreOwn
    <3> QED
      BY <2>1, <2>3, <3>6, <3>9 DEF BackupIn, y
  <2> QED
    BY <2>2, <2>3
<1> HIDE DEF backup, B
<1> QED
  BY <1>1, <1>3 DEF B

LEMMA LinksAgree ==
    ASSUME NEW s, NEW t, NEW sole, ToSet(s) = ToSet(t), Ranked(s), RanksAreOwn
    PROVE  ToSet(LinkBackupSuppliers(s, sole)) = ToSet(LinkBackupSuppliers(t, sole))
<1> DEFINE B == ToSet(s)
           L == {[x EXCEPT !.backup = BackupIn(B, sole, x)] : x \in B}
<1>1. ASSUME NEW r, ToSet(r) = B, Ranked(r) PROVE ToSet(LinkBackupSuppliers(r, sole)) = L
  <2> DEFINE linked == LinkBackupSuppliers(r, sole)
             New(x) == [x EXCEPT !.backup = BackupIn(B, sole, x)]
  <2>1. DOMAIN linked = DOMAIN r /\ \A i \in DOMAIN r : linked[i] = New(r[i])
    BY <1>1, LinkIs
  <2> HIDE DEF linked, New, B
  <2>2. ToSet(linked) = {New(x) : x \in ToSet(r)}
    BY <2>1 DEF ToSet
  <2> QED
    BY <1>1, <2>2 DEF linked, New
<1>2. Ranked(t)
  BY DEF Ranked, IdsOf, ToSet
<1> QED
  BY <1>1, <1>2

\* The seed of a file is the same, or throws, in any order of its rows.
LEMMA SeedsAgree ==
    ASSUME NEW file, IsFile(file), Len(file) >= 2, MaxRows \in Nat, RanksAreOwn,
           Ranked(IngestSupplierCsv(file).suppliers),
           NEW order \in Bijection(2..Len(file), 2..Len(file))
    PROVE  LET seed == IngestSeed(Turned(file, order), Len(file) - 1, Sole)
               own == IngestSeed(file, Len(file) - 1, Sole)
           IN  seed.thrown = own.thrown /\ ToSet(seed.suppliers) = ToSet(own.suppliers)
<1> PICK new : new = Turned(file, order)
  OBVIOUS
<1>1. /\ IsFile(new) /\ Len(new) = Len(file) /\ Len(new) >= 2
      /\ CleanFile(new) <=> CleanFile(file)
      /\ SeedEntries(new) = SeedEntries(file)
  BY TurnedIs
<1> PICK there : there = IngestSupplierCsv(new)
  OBVIOUS
<1> PICK here : here = IngestSupplierCsv(file)
  OBVIOUS
<1>2. /\ SeedIsClean(there, Len(file) - 1) <=> CleanFile(new)
      /\ CleanFile(new) => ToSet(there.suppliers) = SeedEntries(new)
  BY <1>1, SeedMeans
<1>3. /\ SeedIsClean(here, Len(file) - 1) <=> CleanFile(file)
      /\ CleanFile(file) => ToSet(here.suppliers) = SeedEntries(file)
  BY SeedMeans
<1>4. IngestSeed(new, Len(file) - 1, Sole) =
        IF SeedIsClean(there, Len(file) - 1)
          THEN [thrown |-> FALSE, suppliers |-> LinkBackupSuppliers(there.suppliers, Sole)]
          ELSE [thrown |-> TRUE, suppliers |-> <<>>]
  BY DEF IngestSeed
<1>5. IngestSeed(file, Len(file) - 1, Sole) =
        IF SeedIsClean(here, Len(file) - 1)
          THEN [thrown |-> FALSE, suppliers |-> LinkBackupSuppliers(here.suppliers, Sole)]
          ELSE [thrown |-> TRUE, suppliers |-> <<>>]
  BY DEF IngestSeed
<1>6. CASE CleanFile(file)
  <2>1. ToSet(here.suppliers) = ToSet(there.suppliers)
    BY <1>1, <1>2, <1>3, <1>6
  <2>2. ToSet(LinkBackupSuppliers(here.suppliers, Sole)) = ToSet(LinkBackupSuppliers(there.suppliers, Sole))
    BY <2>1, LinksAgree
  <2>3. SeedIsClean(here, Len(file) - 1) /\ SeedIsClean(there, Len(file) - 1)
    BY <1>1, <1>2, <1>3, <1>6
  <2> PICK t : t = LinkBackupSuppliers(there.suppliers, Sole)
    OBVIOUS
  <2> PICK h : h = LinkBackupSuppliers(here.suppliers, Sole)
    OBVIOUS
  <2>4. /\ IngestSeed(new, Len(file) - 1, Sole) = [thrown |-> FALSE, suppliers |-> t]
        /\ IngestSeed(file, Len(file) - 1, Sole) = [thrown |-> FALSE, suppliers |-> h]
    BY <1>4, <1>5, <2>3
  <2>5. ToSet(h) = ToSet(t)
    BY <2>2
  <2>6. /\ IngestSeed(new, Len(file) - 1, Sole).suppliers = t
        /\ IngestSeed(file, Len(file) - 1, Sole).suppliers = h
        /\ IngestSeed(new, Len(file) - 1, Sole).thrown = FALSE
        /\ IngestSeed(file, Len(file) - 1, Sole).thrown = FALSE
    BY <2>4
  <2> QED
    BY <2>5, <2>6, Zenon
<1>7. CASE ~CleanFile(file)
  BY <1>1, <1>2, <1>3, <1>4, <1>5, <1>7
<1> QED
  BY <1>6, <1>7

LEMMA FileLinks ==
    ASSUME NEW file, IsFile(file), MaxRows \in Nat, RanksAreOwn,
           Ranked(IngestSupplierCsv(file).suppliers)
    PROVE  LinksIgnoreOrder(IngestSupplierCsv(file), file)
<1> DEFINE places == 2..Len(file)
           seed(order) == IngestSeed(Turned(file, order), Len(file) - 1, Sole)
<1>1. ASSUME NEW one \in Bijection(places, places), NEW other \in Bijection(places, places)
      PROVE  /\ seed(one).thrown = seed(other).thrown
             /\ ToSet(seed(one).suppliers) = ToSet(seed(other).suppliers)
  <2>1. CASE Len(file) >= 2
    <3> DEFINE own == IngestSeed(file, Len(file) - 1, Sole)
    <3>1. seed(one).thrown = own.thrown /\ ToSet(seed(one).suppliers) = ToSet(own.suppliers)
      BY <1>1, <2>1, SeedsAgree
    <3>2. seed(other).thrown = own.thrown /\ ToSet(seed(other).suppliers) = ToSet(own.suppliers)
      BY <1>1, <2>1, SeedsAgree
    <3> HIDE DEF seed, own
    <3> QED
      BY <3>1, <3>2
  <2>2. CASE ~(Len(file) >= 2)
    <3>1. \A i \in DOMAIN file : i = 1
      <4>1. \A n \in Nat : ~(n >= 2) => \A i \in 1..n : i = 1
        OBVIOUS
      <4> QED
        BY <2>2, <4>1, Zenon DEF IsFile
    <3>2. Turned(file, one) = Turned(file, other)
      BY <3>1 DEF Turned
    <3> QED
      BY <3>2
  <2> QED
    BY <2>1, <2>2
<1> QED
  BY <1>1 DEF LinksIgnoreOrder, Turned

\* An upload's report accounts for every row of its file, once, in order, and says
\* truncated exactly when rows were left unread; and the backups of a seed do not
\* depend on the order of its rows (supplier-csv.ts:248-368, seed-suppliers.ts:59).
LEMMA RowsAre ==
    ASSUME NEW r \in Requests
    PROVE  Accounts(Ingested[r], Sent[r].file) /\ LinksIgnoreOrder(Ingested[r], Sent[r].file)
<1> PICK file : file = Sent[r].file
  OBVIOUS
<1>1. /\ IsFile(file) /\ MaxRows \in Nat /\ None \notin DOMAIN IdRank /\ RanksAreOwn
      /\ IdsOf(IngestSupplierCsv(file).suppliers) \subseteq DOMAIN IdRank
  BY CallsAssumption DEF IsFile, RanksAreOwn
<1>2. Ingested[r] = IngestSupplierCsv(file)
  BY DEF Ingested
<1> QED
  BY <1>1, <1>2, FileAccounts, FileLinks DEF Ranked

-----------------------------------------------------------------------------
(* The suppliers of a request.                                             *)

Rows(r) == Ingested[r].suppliers

LEMMA RowsFacts ==
    ASSUME NEW r \in Requests
    PROVE  /\ Len(Rows(r)) \in Nat /\ DOMAIN Rows(r) = 1..Len(Rows(r))
           /\ IsFiniteSet(IdsOf(Rows(r))) /\ IdsOf(Rows(r)) \subseteq Ids
           /\ Len(Rows(r)) = Cardinality(IdsOf(Rows(r)))
<1> DEFINE s == Rows(r)
<1>1. s = IngestSupplierCsv(Sent[r].file).suppliers
  BY DEF Rows, Ingested
<1>2. Counted(IngestSupplierCsv(Sent[r].file))
  <2>1. Len(Sent[r].file) \in Nat /\ MaxRows \in Nat
    BY CallsAssumption
  <2> QED
    BY <2>1, EveryRowIsCounted
<1>3. IdsOf(s) \subseteq Ids
  BY DEF Ids, Rows
<1> HIDE DEF s
<1>4. /\ Len(s) \in Nat /\ DOMAIN s = 1..Len(s)
      /\ \A i, j \in 1..Len(s) : s[i].id = s[j].id => i = j
  BY <1>1, <1>2, SequenceFacts DEF Counted
<1> DEFINE f == [i \in 1..Len(s) |-> s[i].id]
<1>5. f \in Surjection(1..Len(s), IdsOf(s)) /\ f \in Injection(1..Len(s), IdsOf(s))
  <2>1. f \in [1..Len(s) -> IdsOf(s)]
    BY <1>4 DEF IdsOf
  <2>2. \A t \in IdsOf(s) : \E i \in 1..Len(s) : f[i] = t
    BY <1>4 DEF IdsOf
  <2>3. \A i, j \in 1..Len(s) : f[i] = f[j] => i = j
    BY <1>4
  <2> QED
    BY <2>1, <2>2, <2>3 DEF Surjection, Injection, IsInjective
<1> HIDE DEF f
<1>6. IsFiniteSet(1..Len(s)) /\ Cardinality(1..Len(s)) = Len(s)
  BY <1>4, FS_Interval
<1>7. IsFiniteSet(IdsOf(s)) /\ Cardinality(IdsOf(s)) = Cardinality(1..Len(s))
  BY <1>5, <1>6, FS_Surjection
<1> QED
  BY <1>3, <1>4, <1>6, <1>7 DEF s

-----------------------------------------------------------------------------
(* The log, run through.                                                   *)

Enter(rows, entry, sent) ==
    IF entry.event = "begin" THEN rows
    ELSE IF entry.call \in Resets THEN <<>>
    ELSE Over(rows, Ingested[sent[entry.call]].suppliers)

\* What the first n entries make of an empty table.
IsHistory(f, entries, sent, n) ==
    f = [m \in 0..n |-> IF m = 0 THEN <<>> ELSE Enter(f[m - 1], entries[m], sent)]

LEMMA HistoryExists ==
    ASSUME NEW l, NEW q, NEW n \in Nat PROVE \E f : IsHistory(f, l, q, n)
<1> DEFINE T == {k \in Nat : \E f : IsHistory(f, l, q, k)}
<1>1. 0 \in T
  <2> DEFINE f == [m \in 0..0 |-> <<>>]
  <2>1. IsHistory(f, l, q, 0)
    BY DEF IsHistory
  <2> QED
    BY <2>1
<1>2. ASSUME NEW k \in T PROVE k + 1 \in T
  <2>1. PICK f : IsHistory(f, l, q, k)
    OBVIOUS
  <2> DEFINE g == [m \in 0..(k + 1) |-> IF m = k + 1 THEN Enter(f[k], l[k + 1], q) ELSE f[m]]
  <2>2. ASSUME NEW m \in 0..(k + 1)
        PROVE  g[m] = IF m = 0 THEN <<>> ELSE Enter(g[m - 1], l[m], q)
    <3>1. CASE m = k + 1
      BY <3>1
    <3>2. CASE m # k + 1
      <4>1. m \in 0..k /\ g[m] = f[m] /\ (m # 0 => m - 1 \in 0..(k + 1) /\ g[m - 1] = f[m - 1])
        BY <3>2
      <4>2. f[m] = IF m = 0 THEN <<>> ELSE Enter(f[m - 1], l[m], q)
        BY <2>1, <4>1 DEF IsHistory
      <4> QED
        BY <4>1, <4>2
    <3> QED
      BY <3>1, <3>2
  <2>3. g = [m \in 0..(k + 1) |-> g[m]]
    OBVIOUS
  <2> HIDE DEF g
  <2>4. IsHistory(g, l, q, k + 1)
    BY <2>2, <2>3 DEF IsHistory
  <2> QED
    BY <2>4
<1> HIDE DEF T
<1>3. T \in SUBSET Nat
  BY DEF T
<1>4. T = Nat
  BY <1>1, <1>2, <1>3, Induct
<1> QED
  BY <1>4 DEF T

\* Two histories whose first n entries do the same are the same so far.
LEMMA HistoriesAgree ==
    ASSUME NEW f, NEW l, NEW q, NEW i \in Nat, IsHistory(f, l, q, i),
           NEW g, NEW k, NEW p, NEW j \in Nat, IsHistory(g, k, p, j),
           NEW n \in Nat, n <= i, n <= j,
           \A m \in 1..n : \A rows : Enter(rows, l[m], q) = Enter(rows, k[m], p)
    PROVE  f[n] = g[n]
<1> DEFINE T == {m \in Nat : m <= n => f[m] = g[m]}
<1>1. 0 \in T
  BY DEF IsHistory
<1>2. ASSUME NEW m \in T PROVE m + 1 \in T
  <2>1. CASE m + 1 <= n
    <3>1. f[m + 1] = Enter(f[m], l[m + 1], q) /\ g[m + 1] = Enter(g[m], k[m + 1], p)
      BY <2>1 DEF IsHistory
    <3> QED
      BY <2>1, <3>1
  <2> QED
    BY <2>1
<1> HIDE DEF T
<1>3. T \in SUBSET Nat
  BY DEF T
<1>4. n \in T
  BY <1>1, <1>2, <1>3, Induct
<1> QED
  BY <1>4 DEF T

\* What a whole log makes of an empty table.
SerialOf(l, sent) ==
    LET after[n \in 0..Len(l)] == IF n = 0 THEN <<>> ELSE Enter(after[n - 1], l[n], sent)
    IN  after[Len(l)]

LEMMA SerialIs ==
    ASSUME NEW l, NEW q, Len(l) \in Nat
    PROVE  \E f : IsHistory(f, l, q, Len(l)) /\ SerialOf(l, q) = f[Len(l)]
<1> DEFINE after == CHOOSE f : IsHistory(f, l, q, Len(l))
<1>1. \E f : IsHistory(f, l, q, Len(l))
  BY HistoryExists
<1>2. SerialOf(l, q) = after[Len(l)]
  BY DEF SerialOf, IsHistory
<1> QED
  BY <1>1, <1>2

LEMMA SerialAppend ==
    ASSUME NEW l, NEW q, NEW e, IsSequence(l)
    PROVE  SerialOf(Append(l, e), q) = Enter(SerialOf(l, q), e, q)
<1> DEFINE n == Len(l)
           k == Append(l, e)
<1>1. n \in Nat /\ Len(k) = n + 1 /\ k[n + 1] = e /\ \A m \in 1..n : k[m] = l[m]
  BY SequenceFacts
<1> HIDE DEF k
<1>2. PICK f : IsHistory(f, l, q, n) /\ SerialOf(l, q) = f[n]
  BY <1>1, SerialIs
<1> HIDE DEF n
<1>3. Len(k) \in Nat
  BY <1>1
<1>4. PICK g : IsHistory(g, k, q, n + 1) /\ SerialOf(k, q) = g[n + 1]
  BY <1>1, <1>3, SerialIs
<1>5. f[n] = g[n]
  <2>1. \A m \in 1..n : \A rows : Enter(rows, l[m], q) = Enter(rows, k[m], q)
    BY <1>1
  <2>2. n + 1 \in Nat /\ n <= n + 1 /\ n <= n
    BY <1>1
  <2> QED
    BY <1>1, <1>2, <1>4, <2>1, <2>2, HistoriesAgree
<1>6. g[n + 1] = Enter(g[n], k[n + 1], q)
  BY <1>1, <1>4 DEF IsHistory
<1> QED
  BY <1>1, <1>2, <1>4, <1>5, <1>6 DEF k

LEMMA SerialSame ==
    ASSUME NEW l, NEW q, NEW p, Len(l) \in Nat,
           \A m \in 1..Len(l) : \A rows : Enter(rows, l[m], q) = Enter(rows, l[m], p)
    PROVE  SerialOf(l, q) = SerialOf(l, p)
<1>1. PICK f : IsHistory(f, l, q, Len(l)) /\ SerialOf(l, q) = f[Len(l)]
  BY SerialIs
<1>2. PICK g : IsHistory(g, l, p, Len(l)) /\ SerialOf(l, p) = g[Len(l)]
  BY SerialIs
<1>3. f[Len(l)] = g[Len(l)]
  <2>1. Len(l) <= Len(l)
    OBVIOUS
  <2> QED
    BY <1>1, <1>2, <2>1, HistoriesAgree
<1> QED
  BY <1>1, <1>2, <1>3

LEMMA SerialIsOf == Serial = SerialOf(log, request) /\ Serial' = SerialOf(log', request')
<1>1. Serial = SerialOf(log, request)
  BY DEF Serial, SerialOf, Landed, Enter
<1>2. Serial' = SerialOf(log', request')
  BY DEF Serial, SerialOf, Landed, Enter
<1> QED
  BY <1>1, <1>2

-----------------------------------------------------------------------------
(* The state.                                                              *)

Entries == [call : Calls, event : {"begin", "commit"}]

StoreTypes ==
    /\ DOMAIN table \subseteq Ids /\ IsFiniteSet(DOMAIN table)
    /\ lock \in [Ids -> Calls \cup {NoCall}]
    /\ pc \in [Calls -> {"idle", "open", "commit", "done"}]
    /\ request \in [Uploads -> Requests \cup {None}]
    /\ DOMAIN todo = Calls /\ DOMAIN answer = Uploads
    /\ log \in Seq(Entries)

\* An entry is made once, by a call that has come so far.
LogFits ==
    /\ \A i, j \in DOMAIN log : log[i] = log[j] => i = j
    /\ \A i \in DOMAIN log :
          /\ log[i].event = "commit" => pc[log[i].call] = "done"
          /\ log[i].event = "begin" => log[i].call \in Resets /\ pc[log[i].call] # "idle"
    /\ \A r \in Resets : pc[r] # "idle" =>
          \E i \in DOMAIN log : log[i] = [call |-> r, event |-> "begin"]

\* The i-th entry says that the upload u landed.
LandedAt(i, u) ==
    u \in Uploads /\ i \in DOMAIN log /\ log[i] = [call |-> u, event |-> "commit"]

\* What a call was told, and that only what is not refused comes to the database.
Answers ==
    \A u \in Uploads :
        /\ pc[u] \in {"idle", "open", "commit"} => answer[u] = None
        /\ pc[u] # "idle" => request[u] \in Requests
        /\ pc[u] \in {"open", "commit"} \/ Committed(u) => Refusal(request[u]) = None
        /\ answer[u] # None =>
              /\ answer[u].status = 200 =>
                    /\ Committed(u) \/ answer[u].persisted = 0
                    /\ answer[u].persisted = Cardinality(IdsOf(Rows(request[u])))
              /\ Committed(u) => answer[u].status \in {200, 500}

\* Every row is that of the last upload to write it.
RowsAreLast ==
    \A id \in DOMAIN table : \E k \in DOMAIN log, u \in Uploads :
        /\ LandedAt(k, u) /\ id \in IdsOf(Rows(request[u]))
        /\ table[id] \in ToSet(Rows(request[u]))
        /\ \A m \in DOMAIN log, v \in Uploads :
              LandedAt(m, v) /\ id \in IdsOf(Rows(request[v])) => m <= k

\* An upload landed since the reset r began.
Overtaken(r) ==
    \E i, k \in DOMAIN log, u \in Uploads :
        log[i] = [call |-> r, event |-> "begin"] /\ i < k /\ LandedAt(k, u)

\* A reset comes to every row of the table, unless an upload landed since it began.
ComesToAll(r) ==
    /\ pc[r] = "open" => todo[r] \in Seq(Ids) /\ Len(todo[r]) # 0
    /\ pc[r] = "commit" => todo[r] \in Seq(Ids) /\ Len(todo[r]) = 0
    /\ pc[r] \in {"open", "commit"} =>
          \A id \in DOMAIN table :
              lock[id] = r \/ id \in ToSet(todo[r]) \/ Overtaken(r)
ResetsComeToAll == \A r \in Resets : ComesToAll(r)

\* No upload landed during a reset.
Clean ==
    \A r \in Resets : \A i, j, k \in DOMAIN log : \A u \in Uploads :
        ~(/\ log[i] = [call |-> r, event |-> "begin"]
          /\ log[j] = [call |-> r, event |-> "commit"]
          /\ i < k /\ k < j /\ LandedAt(k, u))
IsSerial == Clean => table = Serial

StoreInv ==
    StoreTypes /\ LogFits /\ Answers /\ RowsAreLast /\ ResetsComeToAll /\ IsSerial

-----------------------------------------------------------------------------
(* The kinds of a step.                                                    *)

\* The transaction of c is committed, and its caller is told, or not.
Landing(c) ==
    /\ pc[c] = "commit"
    /\ Apply(c) /\ Unlock(c)
    /\ Answer(c, Reported(request[c])) \/ Answer(c, Refused(500))
    /\ UNCHANGED request

\* The transaction of c is rolled back.
Rollback(c) ==
    /\ pc[c] \in {"open", "commit"}
    /\ Unlock(c) /\ Answer(c, Refused(500))
    /\ UNCHANGED <<table, log, request>>

LEMMA Kinds ==
    ASSUME StoreInv, [Next]_vars
    PROVE  \/ \E u \in Uploads, r \in Requests : Post(u, r)
           \/ \E r \in Resets : Reset(r)
           \/ \E c \in Calls : Write(c) \/ Landing(c) \/ Rollback(c)
           \/ UNCHANGED vars
<1>1. ASSUME NEW c \in Calls, Commit(c) PROVE Landing(c)
  BY <1>1 DEF Commit, Landing, Answer
<1>2. ASSUME NEW c \in Calls, Fault(c) PROVE Landing(c) \/ Rollback(c)
  BY <1>2 DEF Fault, Landing, Rollback
<1>3. ASSUME NEW c \in Calls, BreakDeadlock(c) PROVE Rollback(c)
  <2>1. InCycle(c)
    BY <1>3 DEF BreakDeadlock
  <2>2. WaitsFor(c) \in Calls
    BY <2>1 DEF InCycle
  <2>3. NoCall \notin Calls
    BY CallsAssumption DEF Calls
  <2>4. pc[c] = "open"
    BY <2>2, <2>3 DEF WaitsFor
  <2> QED
    BY <1>3, <2>4 DEF BreakDeadlock, Rollback
<1> QED
  BY <1>1, <1>2, <1>3 DEF Next, Step

LEMMA Appended ==
    ASSUME NEW l \in Seq(Entries), NEW e \in Entries
    PROVE  /\ Append(l, e) \in Seq(Entries) /\ Len(l) \in Nat /\ DOMAIN l = 1..Len(l)
           /\ DOMAIN Append(l, e) = 1..(Len(l) + 1)
           /\ Append(l, e)[Len(l) + 1] = e
           /\ \A i \in 1..Len(l) : Append(l, e)[i] = l[i]
  OBVIOUS

\* What an entry says, and where the steps leave the log.
LEMMA Growth ==
    ASSUME StoreTypes, NEW c \in Calls, NEW event \in {"begin", "commit"},
           log' = Append(log, [call |-> c, event |-> event])
    PROVE  /\ log' \in Seq(Entries) /\ Len(log) \in Nat /\ DOMAIN log = 1..Len(log)
           /\ DOMAIN log' = 1..(Len(log) + 1)
           /\ log'[Len(log) + 1] = [call |-> c, event |-> event]
           /\ \A i \in 1..Len(log) : log'[i] = log[i] /\ log[i] \in Entries
<1>1. [call |-> c, event |-> event] \in Entries
  BY DEF Entries
<1>2. PICK l, e : l = log /\ e = [call |-> c, event |-> event]
  OBVIOUS
<1>3. l \in Seq(Entries) /\ e \in Entries
  BY <1>1, <1>2 DEF StoreTypes
<1>4. \A i \in 1..Len(l) : l[i] \in Entries
  BY <1>3
<1>5. /\ Append(l, e) \in Seq(Entries) /\ Len(l) \in Nat /\ DOMAIN l = 1..Len(l)
      /\ DOMAIN Append(l, e) = 1..(Len(l) + 1)
      /\ Append(l, e)[Len(l) + 1] = e
      /\ \A i \in 1..Len(l) : Append(l, e)[i] = l[i]
  BY <1>3, Appended
<1> QED
  BY <1>2, <1>4, <1>5

\* Rows are written by requests that were accepted.
LEMMA OverRows ==
    ASSUME StoreInv, NEW u \in Uploads, pc[u] = "commit"
    PROVE  /\ request[u] \in Requests
           /\ DOMAIN Over(table, Rows(request[u])) = DOMAIN table \cup IdsOf(Rows(request[u]))
           /\ IsFiniteSet(DOMAIN table \cup IdsOf(Rows(request[u])))
           /\ IdsOf(Rows(request[u])) \subseteq Ids
<1>1. request[u] \in Requests
  BY DEF StoreInv, Answers
<1>2. IsFiniteSet(IdsOf(Rows(request[u]))) /\ IdsOf(Rows(request[u])) \subseteq Ids
  BY <1>1, RowsFacts
<1>3. IsFiniteSet(DOMAIN table)
  BY DEF StoreInv, StoreTypes
<1>4. IsFiniteSet(DOMAIN table \cup IdsOf(Rows(request[u])))
  BY <1>2, <1>3, FS_Union
<1> QED
  BY <1>1, <1>2, <1>4 DEF Over

LEMMA LandingIs ==
    ASSUME StoreInv, NEW c \in Calls, Landing(c)
    PROVE  /\ log' = Append(log, [call |-> c, event |-> "commit"]) /\ request' = request
           /\ c \in Uploads => table' = Over(table, Rows(request[c]))
           /\ c \notin Uploads => table' = [id \in {i \in DOMAIN table : lock[i] # c} |-> table[id]]
           /\ pc' = [pc EXCEPT ![c] = "done"] /\ todo' = [todo EXCEPT ![c] = <<>>]
           /\ lock' = [id \in Ids |-> IF lock[id] = c THEN NoCall ELSE lock[id]]
  BY DEF Landing, Apply, Unlock, Answer, Rows

LEMMA TypesKept ==
    ASSUME StoreInv, [Next]_vars
    PROVE  StoreTypes'
<1> USE DEF StoreInv, StoreTypes
<1>c. Uploads \subseteq Calls /\ Resets \subseteq Calls
  BY DEF Calls
<1>1. ASSUME NEW u \in Uploads, NEW r \in Requests, Post(u, r) PROVE StoreTypes'
  BY <1>1, <1>c DEF Post
<1>2. ASSUME NEW r \in Resets, Reset(r) PROVE StoreTypes'
  <2>1. log' = Append(log, [call |-> r, event |-> "begin"])
    BY <1>2 DEF Reset
  <2>2. log' \in Seq(Entries)
    BY <1>c, <2>1, Growth
  <2> QED
    BY <1>2, <1>c, <2>2 DEF Reset
<1>3. ASSUME NEW c \in Calls, Write(c) PROVE StoreTypes'
  BY <1>3, <1>c DEF Write
<1>4. ASSUME NEW c \in Calls, Landing(c) PROVE StoreTypes'
  <2>1. log' \in Seq(Entries)
    <3>1. log' = Append(log, [call |-> c, event |-> "commit"])
      BY <1>4, LandingIs
    <3> QED
      BY <3>1, Growth
  <2>2. DOMAIN table' \subseteq Ids /\ IsFiniteSet(DOMAIN table')
    <3>1. CASE c \in Uploads
      <4>1. pc[c] = "commit"
        BY <1>4 DEF Landing
      <4>2. table' = Over(table, Rows(request[c]))
        BY <1>4, <3>1, LandingIs
      <4> QED
        BY <3>1, <4>1, <4>2, OverRows
    <3>2. CASE c \notin Uploads
      <4>0. table' = [id \in {i \in DOMAIN table : lock[i] # c} |-> table[id]]
        BY <1>4, <3>2, LandingIs
      <4>1. DOMAIN table' \subseteq DOMAIN table
        BY <4>0
      <4>2. IsFiniteSet(DOMAIN table)
        OBVIOUS
      <4> QED
        BY <4>1, <4>2, FS_Subset
    <3> QED
      BY <3>1, <3>2
  <2>3. lock' \in [Ids -> Calls \cup {NoCall}]
    BY <1>4, LandingIs
  <2>4. /\ pc' \in [Calls -> {"idle", "open", "commit", "done"}]
        /\ DOMAIN todo' = Calls /\ request' = request
    BY <1>4, LandingIs
  <2>5. DOMAIN answer' = Uploads
    BY <1>4 DEF Landing, Answer
  <2> QED
    BY <2>1, <2>2, <2>3, <2>4, <2>5
<1>5. ASSUME NEW c \in Calls, Rollback(c) PROVE StoreTypes'
  BY <1>5, <1>c DEF Rollback, Unlock, Answer
<1>6. CASE UNCHANGED vars
  BY <1>6 DEF vars
<1> QED
  BY <1>1, <1>2, <1>3, <1>4, <1>5, <1>6, Kinds

LEMMA EntriesAre == StoreTypes => \A i \in DOMAIN log : log[i] \in Entries /\ log[i].call \in Calls
<1> SUFFICES ASSUME NEW l \in Seq(Entries), NEW i \in DOMAIN l
             PROVE  l[i] \in Entries /\ l[i].call \in Calls
  BY DEF StoreTypes
<1>1. l[i] \in Entries
  OBVIOUS
<1> QED
  BY <1>1 DEF Entries

LEMMA LogFitsKept ==
    ASSUME StoreInv, [Next]_vars
    PROVE  LogFits'
<1> USE DEF StoreInv, StoreTypes
<1>c. Uploads \subseteq Calls /\ Resets \subseteq Calls /\ Uploads \cap Resets = {}
  BY CallsAssumption DEF Calls
<1>e. \A i \in DOMAIN log : log[i] \in Entries /\ log[i].call \in Calls
  BY EntriesAre
\* What is said of the entries there are.
<1>1. ASSUME log' = log, \A c \in Calls : /\ pc[c] = "done" => pc'[c] = "done"
                                          /\ pc[c] # "idle" => pc'[c] # "idle",
             \A r \in Resets : pc[r] = "idle" => pc'[r] = "idle"
      PROVE  LogFits'
  <2>1. \A i \in DOMAIN log :
           /\ log[i].event = "commit" => pc'[log[i].call] = "done"
           /\ log[i].event = "begin" => log[i].call \in Resets /\ pc'[log[i].call] # "idle"
    BY <1>1, <1>e DEF LogFits
  <2>2. \A r \in Resets : pc'[r] # "idle" =>
           \E i \in DOMAIN log : log[i] = [call |-> r, event |-> "begin"]
    BY <1>1 DEF LogFits
  <2>3. \A i, j \in DOMAIN log : log[i] = log[j] => i = j
    BY DEF LogFits
  <2> QED
    BY <1>1, <2>1, <2>2, <2>3 DEF LogFits
<1>2. ASSUME NEW u \in Uploads, NEW r \in Requests, Post(u, r) PROVE LogFits'
  <2>1. log' = log
    BY <1>2 DEF Post
  <2>2. pc[u] = "idle" /\ pc' \in {[pc EXCEPT ![u] = "open"], [pc EXCEPT ![u] = "done"]}
    BY <1>2 DEF Post
  <2> QED
    BY <1>1, <1>c, <2>1, <2>2
<1>3. ASSUME NEW c \in Calls, NEW event \in {"begin", "commit"},
             log' = Append(log, [call |-> c, event |-> event]),
             event = "begin" => c \in Resets /\ pc[c] = "idle" /\ pc'[c] # "idle",
             event = "commit" => pc[c] = "commit" /\ pc'[c] = "done",
             \A d \in Calls : d # c => pc'[d] = pc[d]
      PROVE  LogFits'
  <2> DEFINE n == Len(log)
  <2>1. /\ n \in Nat /\ DOMAIN log = 1..n /\ DOMAIN log' = 1..(n + 1)
        /\ log'[n + 1] = [call |-> c, event |-> event]
        /\ \A i \in 1..n : log'[i] = log[i]
    BY <1>3, Growth
  <2> HIDE DEF n
  <2>2. \A i \in 1..n : log[i] # [call |-> c, event |-> event]
    BY <1>3, <2>1 DEF LogFits
  <2>3. \A i, j \in DOMAIN log' : log'[i] = log'[j] => i = j
    <3>1. \A i \in DOMAIN log' : i \in 1..n \/ i = n + 1
      BY <2>1
    <3> QED
      BY <2>1, <2>2, <3>1 DEF LogFits
  <2>4. \A i \in 1..n : /\ log[i].event = "commit" => pc'[log[i].call] = "done"
                        /\ log[i].event = "begin" => log[i].call \in Resets /\ pc'[log[i].call] # "idle"
    <3>1. ASSUME NEW i \in 1..n
          PROVE  /\ log[i].event = "commit" => pc'[log[i].call] = "done"
                 /\ log[i].event = "begin" => log[i].call \in Resets /\ pc'[log[i].call] # "idle"
      <4>1. log[i].call \in Calls
        BY <1>e, <2>1
      <4>2. /\ log[i].event = "commit" => pc[log[i].call] = "done"
            /\ log[i].event = "begin" => log[i].call \in Resets /\ pc[log[i].call] # "idle"
        BY <2>1 DEF LogFits
      <4>3. CASE log[i].call = c
        BY <1>3, <4>2, <4>3
      <4>4. CASE log[i].call # c
        BY <1>3, <4>1, <4>2, <4>4
      <4> QED
        BY <4>3, <4>4
    <3> QED
      BY <3>1
  <2>5. \A i \in DOMAIN log' :
           /\ log'[i].event = "commit" => pc'[log'[i].call] = "done"
           /\ log'[i].event = "begin" => log'[i].call \in Resets /\ pc'[log'[i].call] # "idle"
    <3>1. \A i \in DOMAIN log' : i \in 1..n \/ i = n + 1
      BY <2>1
    <3> QED
      BY <1>3, <2>1, <2>4, <3>1
  <2>6. ASSUME NEW r \in Resets, pc'[r] # "idle"
        PROVE  \E i \in DOMAIN log' : log'[i] = [call |-> r, event |-> "begin"]
    <3>1. CASE pc[r] # "idle"
      <4>1. PICK i \in 1..n : log[i] = [call |-> r, event |-> "begin"]
        BY <2>1, <3>1 DEF LogFits
      <4> QED
        BY <2>1, <4>1
    <3>2. CASE pc[r] = "idle"
      <4>1. r = c
        BY <1>3, <1>c, <2>6, <3>2
      <4>2. event = "begin" /\ n + 1 \in DOMAIN log'
        BY <1>3, <2>1, <3>2, <4>1
      <4> QED
        BY <2>1, <4>1, <4>2
    <3> QED
      BY <3>1, <3>2
  <2> QED
    BY <2>3, <2>5, <2>6 DEF LogFits
<1>4. ASSUME NEW r \in Resets, Reset(r) PROVE LogFits'
  <2>1. /\ log' = Append(log, [call |-> r, event |-> "begin"]) /\ pc[r] = "idle"
        /\ pc' = [pc EXCEPT ![r] = IF DOMAIN table = {} THEN "commit" ELSE "open"]
    BY <1>4 DEF Reset
  <2>2. pc'[r] # "idle" /\ \A d \in Calls : d # r => pc'[d] = pc[d]
    BY <1>c, <2>1
  <2> QED
    BY <1>3, <1>c, <2>1, <2>2
<1>5. ASSUME NEW c \in Calls, Landing(c) PROVE LogFits'
  <2>1. /\ log' = Append(log, [call |-> c, event |-> "commit"]) /\ pc[c] = "commit"
        /\ pc' = [pc EXCEPT ![c] = "done"]
    BY <1>5, LandingIs DEF Landing
  <2>2. pc'[c] = "done" /\ \A d \in Calls : d # c => pc'[d] = pc[d]
    BY <2>1
  <2> QED
    BY <1>3, <2>1, <2>2
<1>6. ASSUME NEW c \in Calls, Write(c) \/ Rollback(c) PROVE LogFits'
  <2>1. log' = log /\ pc[c] \in {"open", "commit"}
    BY <1>6 DEF Write, Rollback
  <2>2. pc' \in {[pc EXCEPT ![c] = "open"], [pc EXCEPT ![c] = "commit"], [pc EXCEPT ![c] = "done"]}
    BY <1>6 DEF Write, Rollback, Answer
  <2> QED
    BY <1>1, <1>c, <2>1, <2>2
<1>7. CASE UNCHANGED vars
  BY <1>1, <1>7 DEF vars
<1> QED
  BY <1>2, <1>4, <1>5, <1>6, <1>7, Kinds

\* A refusal is a code, and what is not refused is authorised and within the limit.
LEMMA RefusalIs ==
    ASSUME NEW r, Refusal(r) = None
    PROVE  Sent[r].authorized /\ Sent[r].sent # "over"
<1>1. None # 400 /\ None # 401 /\ None # 413 /\ None # 429 /\ None # 500
  BY CallsAssumption
<1> QED
  BY <1>1 DEF Refusal

LEMMA RefusalCode == ASSUME NEW r, Refusal(r) # None PROVE Refusal(r) # 200
  BY DEF Refusal

\* What an entry more says of the calls that committed.
LEMMA CommittedAfter ==
    ASSUME StoreTypes, NEW c \in Calls, NEW event \in {"begin", "commit"},
           log' = Append(log, [call |-> c, event |-> event])
    PROVE  /\ \A d : Committed(d)' <=> Committed(d) \/ (event = "commit" /\ d = c)
           /\ \A i, u : LandedAt(i, u)' <=>
                 LandedAt(i, u) \/ (event = "commit" /\ c \in Uploads /\ u = c /\ i = Len(log) + 1)
<1>1. /\ Len(log) \in Nat /\ DOMAIN log = 1..Len(log) /\ DOMAIN log' = 1..(Len(log) + 1)
      /\ log'[Len(log) + 1] = [call |-> c, event |-> event]
      /\ \A i \in 1..Len(log) : log'[i] = log[i]
  BY Growth
<1>2. \A i \in DOMAIN log' : i \in DOMAIN log \/ i = Len(log) + 1
  BY <1>1
<1>3. Len(log) + 1 \in DOMAIN log' /\ Len(log) + 1 \notin DOMAIN log
  BY <1>1
<1>4. DOMAIN log \subseteq DOMAIN log'
  BY <1>1
<1>5. \A d : [call |-> c, event |-> event] = [call |-> d, event |-> "commit"]
             <=> event = "commit" /\ d = c
  <2>1. ASSUME NEW d, [call |-> c, event |-> event] = [call |-> d, event |-> "commit"]
        PROVE  event = "commit" /\ d = c
    <3>1. [call |-> c, event |-> event].event = "commit" /\ [call |-> c, event |-> event].call = d
      BY <2>1
    <3> QED
      BY <3>1
  <2> QED
    BY <2>1
<1>6. ASSUME NEW d
      PROVE  Committed(d)' <=> Committed(d) \/ (event = "commit" /\ d = c)
  BY <1>1, <1>2, <1>3, <1>4, <1>5 DEF Committed
<1>7. ASSUME NEW i, NEW u
      PROVE  LandedAt(i, u)' <=>
                 LandedAt(i, u) \/ (event = "commit" /\ c \in Uploads /\ u = c /\ i = Len(log) + 1)
  BY <1>1, <1>2, <1>3, <1>4, <1>5 DEF LandedAt
<1> QED
  BY <1>6, <1>7

\* A call that is not done has not committed.
LEMMA CommittedIsDone ==
    ASSUME StoreInv, NEW c \in Calls, Committed(c)
    PROVE  pc[c] = "done"
<1>1. PICK i \in DOMAIN log : log[i] = [call |-> c, event |-> "commit"]
  BY DEF Committed
<1>2. log[i].event = "commit" /\ log[i].call = c
  BY <1>1
<1> QED
  BY <1>2 DEF StoreInv, LogFits

\* What is told of the upload u.
AnswerOf(u) ==
    /\ pc[u] \in {"idle", "open", "commit"} => answer[u] = None
    /\ pc[u] # "idle" => request[u] \in Requests
    /\ pc[u] \in {"open", "commit"} \/ Committed(u) => Refusal(request[u]) = None
    /\ answer[u] # None =>
          /\ answer[u].status = 200 =>
                /\ Committed(u) \/ answer[u].persisted = 0
                /\ answer[u].persisted = Cardinality(IdsOf(Rows(request[u])))
          /\ Committed(u) => answer[u].status \in {200, 500}

LEMMA AnswersKept ==
    ASSUME StoreInv, [Next]_vars
    PROVE  Answers'
<1> SUFFICES ASSUME NEW v \in Uploads PROVE AnswerOf(v)'
  BY DEF Answers, AnswerOf
<1>c. Uploads \subseteq Calls /\ Resets \subseteq Calls /\ Uploads \cap Resets = {}
  BY CallsAssumption DEF Calls
<1>a. AnswerOf(v)
  BY DEF StoreInv, Answers, AnswerOf
\* Nothing changes for v.
<1>1. ASSUME pc'[v] = pc[v], answer'[v] = answer[v], request'[v] = request[v],
             Committed(v)' <=> Committed(v)
      PROVE  AnswerOf(v)'
  BY <1>1, <1>a DEF AnswerOf, Rows, Ingested
<1>2. log' = log => (Committed(v)' <=> Committed(v))
  BY DEF Committed
<1>3. ASSUME NEW u \in Uploads, NEW r \in Requests, Post(u, r) PROVE AnswerOf(v)'
  <2>1. /\ log' = log /\ pc[u] = "idle" /\ request' = [request EXCEPT ![u] = r]
        /\ \/ Refusal(r) = None /\ pc' = [pc EXCEPT ![u] = "open"] /\ answer' = answer
           \/ /\ Refusal(r) # None \/ Rows(r) = <<>>
              /\ pc' = [pc EXCEPT ![u] = "done"]
              /\ answer' = [answer EXCEPT ![u] =
                               IF Refusal(r) # None THEN Refused(Refusal(r)) ELSE Reported(r)]
    BY <1>3 DEF Post, Rows
  <2>2. (~Committed(v) /\ ~Committed(v)') \/ v # u
    BY <1>c, <1>2, <2>1, CommittedIsDone
  <2>3. CASE v # u
    <3>1. pc'[v] = pc[v] /\ answer'[v] = answer[v]
      BY <1>c, <2>1, <2>3 DEF StoreInv, StoreTypes
    <3>2. request'[v] = request[v]
      BY <2>1, <2>3 DEF StoreInv, StoreTypes
    <3> QED
      BY <1>1, <1>2, <2>1, <3>1, <3>2
  <2>4. CASE v = u
    <3>1. request'[v] = r /\ ~Committed(v)'
      BY <2>1, <2>2, <2>4 DEF StoreInv, StoreTypes
    <3>2. CASE Refusal(r) = None /\ pc' = [pc EXCEPT ![u] = "open"] /\ answer' = answer
      <4>1. pc'[v] = "open" /\ answer'[v] = None
        BY <1>a, <1>c, <2>1, <2>4, <3>2 DEF AnswerOf, StoreInv, StoreTypes
      <4> QED
        BY <3>1, <3>2, <4>1 DEF AnswerOf
    <3>3. CASE /\ Refusal(r) # None \/ Rows(r) = <<>>
               /\ pc' = [pc EXCEPT ![u] = "done"]
               /\ answer' = [answer EXCEPT ![u] =
                               IF Refusal(r) # None THEN Refused(Refusal(r)) ELSE Reported(r)]
      <4>1. pc'[v] = "done"
        BY <1>c, <2>4, <3>3 DEF StoreInv, StoreTypes
      <4>2. answer'[v] = IF Refusal(r) # None THEN Refused(Refusal(r)) ELSE Reported(r)
        BY <2>4, <3>3 DEF StoreInv, StoreTypes
      <4>3. answer'[v].status = 200 => answer'[v].persisted = 0 /\ 0 = Cardinality(IdsOf(Rows(r)))
        <5>1. CASE Refusal(r) # None
          <6>1. answer'[v].status = Refusal(r)
            BY <4>2, <5>1 DEF Refused
          <6> QED
            BY <5>1, <6>1, RefusalCode
        <5>2. CASE Refusal(r) = None
          <6>1. Rows(r) = <<>> /\ answer'[v].persisted = Len(Rows(r))
            BY <3>3, <4>2, <5>2 DEF Reported, Rows
          <6>2. Len(Rows(r)) = 0
            BY <6>1
          <6> QED
            BY <6>1, <6>2, RowsFacts
        <5> QED
          BY <5>1, <5>2
      <4> QED
        BY <3>1, <4>1, <4>3 DEF AnswerOf, Rows, Ingested
    <3> QED
      BY <2>1, <3>2, <3>3
  <2> QED
    BY <2>3, <2>4
<1>4. ASSUME NEW r \in Resets, Reset(r) PROVE AnswerOf(v)'
  <2>1. /\ log' = Append(log, [call |-> r, event |-> "begin"]) /\ request' = request /\ answer' = answer
        /\ pc' = [pc EXCEPT ![r] = IF DOMAIN table = {} THEN "commit" ELSE "open"]
    BY <1>4 DEF Reset
  <2>2. Committed(v)' <=> Committed(v)
    BY <1>c, <2>1, CommittedAfter DEF StoreInv
  <2>3. pc'[v] = pc[v]
    BY <1>c, <2>1 DEF StoreInv, StoreTypes
  <2> QED
    BY <1>1, <2>1, <2>2, <2>3
<1>5. ASSUME NEW c \in Calls, Write(c) PROVE AnswerOf(v)'
  <2>1. /\ log' = log /\ request' = request /\ answer' = answer /\ pc[c] = "open"
        /\ pc' = [pc EXCEPT ![c] = IF Len(todo[c]) = 1 THEN "commit" ELSE "open"]
    BY <1>5 DEF Write
  <2>2. v # c => pc'[v] = pc[v]
    BY <1>c, <2>1 DEF StoreInv, StoreTypes
  <2>3. v = c => pc'[v] \in {"open", "commit"} /\ pc[v] = "open"
    BY <1>c, <2>1 DEF StoreInv, StoreTypes
  <2>4. CASE v # c
    BY <1>1, <1>2, <2>1, <2>2, <2>4
  <2>5. CASE v = c
    BY <1>2, <1>a, <2>1, <2>3, <2>5 DEF AnswerOf
  <2> QED
    BY <2>4, <2>5
<1>6. ASSUME NEW c \in Calls, Landing(c) PROVE AnswerOf(v)'
  <2>1. /\ log' = Append(log, [call |-> c, event |-> "commit"]) /\ request' = request
        /\ pc' = [pc EXCEPT ![c] = "done"] /\ pc[c] = "commit"
    BY <1>6, LandingIs DEF Landing
  <2>2. Committed(v)' <=> Committed(v) \/ v = c
    BY <2>1, CommittedAfter DEF StoreInv
  <2>3. CASE v # c
    <3>1. pc'[v] = pc[v]
      BY <1>c, <2>1, <2>3 DEF StoreInv, StoreTypes
    <3>2. answer'[v] = answer[v]
      BY <1>6, <2>3 DEF Landing, Answer, StoreInv, StoreTypes
    <3> QED
      BY <1>1, <2>1, <2>2, <2>3, <3>1, <3>2
  <2>4. CASE v = c
    <3>1. pc'[v] = "done"
      BY <1>c, <2>1, <2>4 DEF StoreInv, StoreTypes
    <3>2. answer'[v] = Reported(request[v]) \/ answer'[v] = Refused(500)
      BY <1>6, <2>4 DEF Landing, Answer, StoreInv, StoreTypes
    <3>3. request[v] \in Requests /\ Refusal(request[v]) = None
      BY <1>a, <2>1, <2>4 DEF AnswerOf
    <3>4. Len(Rows(request[v])) = Cardinality(IdsOf(Rows(request[v])))
      BY <3>3, RowsFacts
    <3>5. /\ answer'[v].status \in {200, 500}
          /\ answer'[v].status = 200 => answer'[v].persisted = Cardinality(IdsOf(Rows(request[v])))
      BY <3>2, <3>4 DEF Reported, Refused, Rows
    <3> QED
      BY <2>1, <2>2, <2>4, <3>1, <3>3, <3>5 DEF AnswerOf, Rows, Ingested
  <2> QED
    BY <2>3, <2>4
<1>7. ASSUME NEW c \in Calls, Rollback(c) PROVE AnswerOf(v)'
  <2>1. /\ log' = log /\ request' = request /\ pc[c] \in {"open", "commit"}
        /\ pc' = [pc EXCEPT ![c] = "done"]
        /\ answer' = IF c \in Uploads THEN [answer EXCEPT ![c] = Refused(500)] ELSE answer
    BY <1>7 DEF Rollback, Answer
  <2>2. CASE v # c
    BY <1>1, <1>2, <1>c, <2>1, <2>2 DEF StoreInv, StoreTypes
  <2>3. CASE v = c
    <3>1. pc'[v] = "done" /\ answer'[v] = Refused(500)
      BY <1>c, <2>1, <2>3 DEF StoreInv, StoreTypes
    <3>2. ~Committed(v)'
      BY <1>2, <1>c, <2>1, <2>3, CommittedIsDone
    <3>3. request[v] \in Requests
      BY <1>a, <2>1, <2>3 DEF AnswerOf
    <3>4. answer'[v].status # 200
      BY <3>1 DEF Refused
    <3> QED
      BY <2>1, <3>1, <3>2, <3>3, <3>4 DEF AnswerOf
  <2> QED
    BY <2>2, <2>3
<1>8. CASE UNCHANGED vars
  BY <1>1, <1>2, <1>8 DEF vars
<1> QED
  BY <1>3, <1>4, <1>5, <1>6, <1>7, <1>8, Kinds

LEMMA RowsKept ==
    ASSUME StoreInv, [Next]_vars
    PROVE  RowsAreLast'
<1>c. Uploads \subseteq Calls /\ Resets \subseteq Calls /\ Uploads \cap Resets = {}
  BY CallsAssumption DEF Calls
<1>t. StoreTypes /\ RowsAreLast
  BY DEF StoreInv
\* The rows that stay, while what has landed and was sent stays too.
<1>1. ASSUME \A i, u : LandedAt(i, u)' <=> LandedAt(i, u), DOMAIN log \subseteq DOMAIN log',
             \A i, u : LandedAt(i, u) => request'[u] = request[u],
             DOMAIN table' \subseteq DOMAIN table, \A id \in DOMAIN table' : table'[id] = table[id]
      PROVE  RowsAreLast'
  <2> SUFFICES ASSUME NEW id \in DOMAIN table'
               PROVE  \E k \in DOMAIN log', u \in Uploads :
                        /\ LandedAt(k, u)' /\ id \in IdsOf(Rows(request'[u]))
                        /\ table'[id] \in ToSet(Rows(request'[u]))
                        /\ \A m \in DOMAIN log', v \in Uploads :
                              LandedAt(m, v)' /\ id \in IdsOf(Rows(request'[v])) => m <= k
    BY DEF RowsAreLast, Rows, Ingested
  <2>1. PICK k \in DOMAIN log, u \in Uploads :
           /\ LandedAt(k, u) /\ id \in IdsOf(Rows(request[u]))
           /\ table[id] \in ToSet(Rows(request[u]))
           /\ \A m \in DOMAIN log, v \in Uploads :
                 LandedAt(m, v) /\ id \in IdsOf(Rows(request[v])) => m <= k
    BY <1>1, <1>t DEF RowsAreLast
  <2>2. k \in DOMAIN log' /\ LandedAt(k, u)' /\ request'[u] = request[u] /\ table'[id] = table[id]
    BY <1>1, <2>1
  <2>3. ASSUME NEW m \in DOMAIN log', NEW v \in Uploads, LandedAt(m, v)', id \in IdsOf(Rows(request'[v]))
        PROVE  m <= k
    <3>1. LandedAt(m, v) /\ m \in DOMAIN log /\ request'[v] = request[v]
      BY <1>1, <2>3 DEF LandedAt
    <3> QED
      BY <2>1, <2>3, <3>1
  <2> QED
    BY <2>1, <2>2, <2>3
<1>2. log' = log => DOMAIN log \subseteq DOMAIN log' /\ \A i, u : LandedAt(i, u)' <=> LandedAt(i, u)
  BY DEF LandedAt
<1>3. ASSUME NEW u \in Uploads, NEW r \in Requests, Post(u, r) PROVE RowsAreLast'
  <2>1. log' = log /\ table' = table /\ pc[u] = "idle" /\ request' = [request EXCEPT ![u] = r]
    BY <1>3 DEF Post
  <2>2. ASSUME NEW i, NEW v, LandedAt(i, v) PROVE request'[v] = request[v]
    <3>1. v \in Uploads /\ Committed(v)
      BY <2>2 DEF LandedAt, Committed
    <3>2. v # u
      BY <1>c, <2>1, <3>1, CommittedIsDone
    <3> QED
      BY <1>t, <2>1, <3>1, <3>2 DEF StoreTypes
  <2> QED
    BY <1>1, <1>2, <2>1, <2>2
<1>4. ASSUME NEW r \in Resets, Reset(r) PROVE RowsAreLast'
  <2>1. log' = Append(log, [call |-> r, event |-> "begin"]) /\ request' = request /\ table' = table
    BY <1>4 DEF Reset
  <2>2. \A i, u : LandedAt(i, u)' <=> LandedAt(i, u)
    BY <1>c, <1>t, <2>1, CommittedAfter
  <2>3. DOMAIN log \subseteq DOMAIN log'
    <3>1. Len(log) \in Nat /\ DOMAIN log = 1..Len(log) /\ DOMAIN log' = 1..(Len(log) + 1)
      BY <1>c, <1>t, <2>1, Growth
    <3> QED
      BY <3>1
  <2> QED
    BY <1>1, <2>1, <2>2, <2>3
<1>5. ASSUME NEW c \in Calls, Write(c) \/ Rollback(c) PROVE RowsAreLast'
  <2>1. log' = log /\ request' = request /\ table' = table
    BY <1>5 DEF Write, Rollback
  <2> QED
    BY <1>1, <1>2, <2>1
<1>6. ASSUME NEW c \in Calls, Landing(c) PROVE RowsAreLast'
  <2>1. log' = Append(log, [call |-> c, event |-> "commit"]) /\ request' = request
    BY <1>6, LandingIs
  <2>2. \A i, u : LandedAt(i, u)' <=>
           LandedAt(i, u) \/ (c \in Uploads /\ u = c /\ i = Len(log) + 1)
    BY <1>t, <2>1, CommittedAfter
  <2>3. Len(log) \in Nat /\ DOMAIN log = 1..Len(log) /\ DOMAIN log' = 1..(Len(log) + 1)
    BY <1>t, <2>1, Growth
  <2>4. DOMAIN log \subseteq DOMAIN log'
    BY <2>3
  <2>5. CASE c \notin Uploads
    <3>1. table' = [id \in {i \in DOMAIN table : lock[i] # c} |-> table[id]]
      BY <1>6, <2>5, LandingIs
    <3>2. DOMAIN table' \subseteq DOMAIN table /\ \A id \in DOMAIN table' : table'[id] = table[id]
      BY <3>1
    <3> QED
      BY <1>1, <2>1, <2>2, <2>4, <2>5, <3>2
  <2>6. CASE c \in Uploads
    <3>1. table' = Over(table, Rows(request[c]))
      BY <1>6, <2>6, LandingIs
    <3> DEFINE s == Rows(request[c])
               n == Len(log)
    <3> SUFFICES ASSUME NEW id \in DOMAIN table'
                 PROVE  \E k \in DOMAIN log', u \in Uploads :
                          /\ LandedAt(k, u)' /\ id \in IdsOf(Rows(request[u]))
                          /\ table'[id] \in ToSet(Rows(request[u]))
                          /\ \A m \in DOMAIN log', v \in Uploads :
                                LandedAt(m, v)' /\ id \in IdsOf(Rows(request[v])) => m <= k
      BY <2>1 DEF RowsAreLast, Rows, Ingested
    <3>2. CASE id \in IdsOf(s)
      <4>1. table'[id] = s[CHOOSE i \in DOMAIN s : s[i].id = id]
        BY <3>1, <3>2 DEF Over
      <4>2. \E i \in DOMAIN s : s[i].id = id
        BY <3>2 DEF IdsOf
      <4>3. table'[id] \in {s[i] : i \in DOMAIN s}
        BY <4>1, <4>2
      <4>4. table'[id] \in ToSet(s)
        BY <4>3 DEF ToSet
      <4>5. PICK k \in DOMAIN log' : k = n + 1 /\ \A m \in DOMAIN log' : m <= k
        BY <2>3
      <4>6. LandedAt(k, c)'
        BY <2>2, <2>6, <4>5
      <4> HIDE DEF s, n
      <4>7. id \in IdsOf(Rows(request[c])) /\ table'[id] \in ToSet(Rows(request[c]))
        BY <3>2, <4>4 DEF s
      <4> QED
        BY <2>6, <4>5, <4>6, <4>7
    <3>3. CASE id \notin IdsOf(s)
      <4>1. id \in DOMAIN table /\ table'[id] = table[id]
        BY <3>1, <3>3 DEF Over
      <4>2. PICK k \in DOMAIN log, u \in Uploads :
               /\ LandedAt(k, u) /\ id \in IdsOf(Rows(request[u]))
               /\ table[id] \in ToSet(Rows(request[u]))
               /\ \A m \in DOMAIN log, v \in Uploads :
                     LandedAt(m, v) /\ id \in IdsOf(Rows(request[v])) => m <= k
        BY <1>t, <4>1 DEF RowsAreLast
      <4>3. ASSUME NEW m \in DOMAIN log', NEW v \in Uploads, LandedAt(m, v)', id \in IdsOf(Rows(request[v]))
            PROVE  m <= k
        <5>1. v # c \/ LandedAt(m, v)
          BY <3>3, <4>3
        <5>2. LandedAt(m, v) /\ m \in DOMAIN log
          BY <2>2, <3>3, <4>3, <5>1 DEF LandedAt
        <5> QED
          BY <4>2, <4>3, <5>2
      <4> QED
        BY <2>2, <2>4, <4>1, <4>2, <4>3
    <3> QED
      BY <3>2, <3>3
  <2> QED
    BY <2>5, <2>6
<1>7. CASE UNCHANGED vars
  BY <1>1, <1>2, <1>7 DEF vars
<1> QED
  BY <1>3, <1>4, <1>5, <1>6, <1>7, Kinds

\* The order of a DELETE has every row.
LEMMA OrderHasAll ==
    ASSUME NEW S \in SUBSET Ids, IsFiniteSet(S), NEW order \in SetToSeqs(S)
    PROVE  order \in Seq(Ids) /\ (Len(order) = 0 <=> S = {}) /\ S \subseteq ToSet(order)
<1> DEFINE n == Cardinality(S)
<1>1. n \in Nat
  BY FS_CardinalityType
<1>2. order \in [1..n -> S] /\ \A i, j \in 1..n : i # j => order[i] # order[j]
  BY DEF SetToSeqs
<1> HIDE DEF n
<1>3. order \in Injection(1..n, S)
  BY <1>2 DEF Injection, IsInjective
<1>4. Cardinality(1..n) = n
  <2>1. 1 \in Int /\ n \in Int /\ n - 1 + 1 = n /\ (1 > n <=> n = 0)
    BY <1>1
  <2> QED
    BY <1>1, <2>1, FS_Interval
<1>5. order \in Surjection(1..n, S)
  BY <1>3, <1>4, FS_Injection DEF n
<1>6. order \in Seq(Ids) /\ Len(order) = n /\ DOMAIN order = 1..n
  BY <1>1, <1>2
<1>7. S \subseteq ToSet(order)
  BY <1>5, <1>6 DEF Surjection, ToSet
<1>8. n = 0 <=> S = {}
  BY FS_EmptySet DEF n
<1> QED
  BY <1>6, <1>7, <1>8

LEMMA TailHas ==
    ASSUME NEW s \in Seq(Ids), Len(s) # 0
    PROVE  /\ Tail(s) \in Seq(Ids) /\ (Len(Tail(s)) = 0 <=> Len(s) = 1)
           /\ ToSet(s) \subseteq ToSet(Tail(s)) \cup {Head(s)} /\ Head(s) \in Ids
<1>1. /\ Tail(s) \in Seq(Ids) /\ Len(Tail(s)) = Len(s) - 1 /\ Head(s) = s[1] /\ Len(s) \in Nat
      /\ \A n \in 1..(Len(s) - 1) : Tail(s)[n] = s[n + 1]
  OBVIOUS
<1>2. DOMAIN s = 1..Len(s) /\ DOMAIN Tail(s) = 1..(Len(s) - 1)
  BY <1>1
<1>3. ASSUME NEW n \in DOMAIN s, n # 1 PROVE s[n] \in ToSet(Tail(s))
  <2>1. n - 1 \in DOMAIN Tail(s) /\ Tail(s)[n - 1] = s[(n - 1) + 1] /\ (n - 1) + 1 = n
    BY <1>1, <1>2, <1>3
  <2> QED
    BY <2>1 DEF ToSet
<1>4. ToSet(s) \subseteq ToSet(Tail(s)) \cup {Head(s)}
  BY <1>1, <1>3 DEF ToSet
<1>5. Len(Tail(s)) = 0 <=> Len(s) = 1
  BY <1>1
<1>6. Head(s) \in Ids
  BY <1>1, <1>2
<1> QED
  BY <1>1, <1>4, <1>5, <1>6

LEMMA OvertakenStays ==
    ASSUME StoreInv, NEW r,
           log' = log \/ \E c \in Calls, event \in {"begin", "commit"} :
                             log' = Append(log, [call |-> c, event |-> event])
    PROVE  Overtaken(r) => Overtaken(r)'
<1>1. CASE log' = log
  BY <1>1 DEF Overtaken, LandedAt
<1>2. ASSUME NEW c \in Calls, NEW event \in {"begin", "commit"},
             log' = Append(log, [call |-> c, event |-> event]), Overtaken(r)
      PROVE  Overtaken(r)'
  <2>1. PICK i \in DOMAIN log, k \in DOMAIN log, u \in Uploads :
           log[i] = [call |-> r, event |-> "begin"] /\ i < k /\ LandedAt(k, u)
    BY <1>2 DEF Overtaken
  <2>2. /\ DOMAIN log = 1..Len(log) /\ Len(log) \in Nat /\ DOMAIN log' = 1..(Len(log) + 1)
        /\ \A j \in 1..Len(log) : log'[j] = log[j]
    BY <1>2, Growth DEF StoreInv
  <2>3. i \in DOMAIN log' /\ k \in DOMAIN log' /\ log'[i] = log[i]
    BY <2>1, <2>2
  <2>4. LandedAt(k, u)'
    BY <1>2, <2>1, CommittedAfter DEF StoreInv
  <2> QED
    BY <2>1, <2>3, <2>4 DEF Overtaken
<1> QED
  BY <1>1, <1>2

LEMMA ResetsKept ==
    ASSUME StoreInv, [Next]_vars
    PROVE  ResetsComeToAll'
<1> SUFFICES ASSUME NEW r \in Resets PROVE ComesToAll(r)'
  BY DEF ResetsComeToAll
<1>c. /\ Uploads \subseteq Calls /\ Resets \subseteq Calls /\ Uploads \cap Resets = {}
      /\ NoCall \notin Calls /\ r \in Calls
  BY CallsAssumption DEF Calls
<1>t. StoreTypes /\ ComesToAll(r)
  BY DEF StoreInv, ResetsComeToAll
<1>1. ASSUME pc'[r] = pc[r], todo'[r] = todo[r], DOMAIN table' \subseteq DOMAIN table,
             \A id \in DOMAIN table' : lock[id] = r => lock'[id] = r,
             Overtaken(r) => Overtaken(r)'
      PROVE  ComesToAll(r)'
  BY <1>1, <1>t DEF ComesToAll, Ids, Ingested
<1>2. ASSUME pc'[r] = "done" PROVE ComesToAll(r)'
  BY <1>2 DEF ComesToAll
<1>3. ASSUME NEW u \in Uploads, NEW q \in Requests, Post(u, q) PROVE ComesToAll(r)'
  <2>1. /\ log' = log /\ table' = table /\ lock' = lock
        /\ pc' = [pc EXCEPT ![u] = "open"] \/ pc' = [pc EXCEPT ![u] = "done"]
        /\ todo' = todo \/ \E t : todo' = [todo EXCEPT ![u] = t]
    BY <1>3 DEF Post
  <2>2. pc'[r] = pc[r] /\ todo'[r] = todo[r]
    BY <1>c, <1>t, <2>1 DEF StoreTypes
  <2>3. Overtaken(r) => Overtaken(r)'
    BY <2>1, OvertakenStays
  <2> QED
    BY <1>1, <2>1, <2>2, <2>3
<1>4. ASSUME NEW s \in Resets, Reset(s) PROVE ComesToAll(r)'
  <2>1. PICK order \in SetToSeqs(DOMAIN table) : todo' = [todo EXCEPT ![s] = order]
    BY <1>4 DEF Reset
  <2>2. /\ log' = Append(log, [call |-> s, event |-> "begin"]) /\ table' = table /\ lock' = lock
        /\ pc' = [pc EXCEPT ![s] = IF DOMAIN table = {} THEN "commit" ELSE "open"]
    BY <1>4 DEF Reset
  <2>3. CASE s # r
    <3>1. Overtaken(r) => Overtaken(r)'
      BY <1>c, <2>2, OvertakenStays
    <3>2. pc'[r] = pc[r] /\ todo'[r] = todo[r]
      BY <1>c, <1>t, <2>1, <2>2, <2>3 DEF StoreTypes
    <3> QED
      BY <1>1, <2>2, <3>1, <3>2
  <2>4. CASE s = r
    <3>1. todo'[r] = order /\ pc'[r] = IF DOMAIN table = {} THEN "commit" ELSE "open"
      BY <1>c, <1>t, <2>1, <2>2, <2>4 DEF StoreTypes
    <3>2. order \in Seq(Ids) /\ (Len(order) = 0 <=> DOMAIN table = {}) /\ DOMAIN table \subseteq ToSet(order)
      BY <1>t, OrderHasAll DEF StoreTypes
    <3> QED
      BY <2>2, <3>1, <3>2 DEF ComesToAll, Ids, Ingested
  <2> QED
    BY <2>3, <2>4
<1>5. ASSUME NEW c \in Calls, Write(c) PROVE ComesToAll(r)'
  <2> DEFINE x == Head(todo[c])
  <2>1. /\ log' = log /\ table' = table /\ pc[c] = "open" /\ Free(c, x)
        /\ lock' = [lock EXCEPT ![x] = c] /\ todo' = [todo EXCEPT ![c] = Tail(todo[c])]
        /\ pc' = [pc EXCEPT ![c] = IF Len(todo[c]) = 1 THEN "commit" ELSE "open"]
    BY <1>5 DEF Write
  <2>2. Overtaken(r) => Overtaken(r)'
    BY <2>1, OvertakenStays
  <2>3. CASE c # r
    <3>1. pc'[r] = pc[r] /\ todo'[r] = todo[r]
      BY <1>c, <1>t, <2>1, <2>3 DEF StoreTypes
    <3>2. lock[x] # r
      BY <1>c, <2>1, <2>3 DEF Free
    <3>3. \A id \in DOMAIN table : lock[id] = r => lock'[id] = r
      BY <1>t, <2>1, <3>2 DEF StoreTypes
    <3> QED
      BY <1>1, <2>1, <2>2, <3>1, <3>3
  <2>4. CASE c = r
    <3>1. todo[r] \in Seq(Ids) /\ Len(todo[r]) # 0
      BY <1>t, <2>1, <2>4 DEF ComesToAll
    <3>2. /\ Tail(todo[r]) \in Seq(Ids) /\ (Len(Tail(todo[r])) = 0 <=> Len(todo[r]) = 1)
          /\ ToSet(todo[r]) \subseteq ToSet(Tail(todo[r])) \cup {x} /\ x \in Ids
      BY <2>4, <3>1, TailHas
    <3>3. todo'[r] = Tail(todo[r]) /\ pc'[r] = IF Len(todo[r]) = 1 THEN "commit" ELSE "open"
      BY <1>c, <1>t, <2>1, <2>4 DEF StoreTypes
    <3>4. \A id \in Ids : (lock[id] = r => lock'[id] = r) /\ lock'[x] = r
      BY <1>t, <2>1, <2>4, <3>2 DEF StoreTypes
    <3> HIDE DEF x
    <3>5. \A id \in DOMAIN table : lock[id] = r \/ id \in ToSet(todo[r]) \/ Overtaken(r)
      BY <1>t, <2>1, <2>4 DEF ComesToAll
    <3>6. DOMAIN table \subseteq Ids
      BY <1>t DEF StoreTypes
    <3>7. \A id \in DOMAIN table' : lock'[id] = r \/ id \in ToSet(todo'[r]) \/ Overtaken(r)'
      BY <2>1, <2>2, <3>2, <3>3, <3>4, <3>5, <3>6
    <3> QED
      BY <3>2, <3>3, <3>7 DEF ComesToAll, Ids, Ingested
  <2> QED
    BY <2>3, <2>4
<1>6. ASSUME NEW c \in Calls, Landing(c) \/ Rollback(c) PROVE ComesToAll(r)'
  <2>1. /\ lock' = [id \in Ids |-> IF lock[id] = c THEN NoCall ELSE lock[id]]
        /\ pc' = [pc EXCEPT ![c] = "done"] /\ todo' = [todo EXCEPT ![c] = <<>>]
    BY <1>6 DEF Landing, Rollback, Unlock, Answer
  <2>2. CASE c = r
    <3>1. pc'[r] = "done"
      BY <1>c, <1>t, <2>1, <2>2 DEF StoreTypes
    <3> QED
      BY <1>2, <3>1
  <2>3. CASE c # r
    <3>1. pc'[r] = pc[r] /\ todo'[r] = todo[r]
      BY <1>c, <1>t, <2>1, <2>3 DEF StoreTypes
    <3>2. \A id \in Ids : lock[id] = r => lock'[id] = r
      BY <2>1, <2>3
    <3>3. DOMAIN table \subseteq Ids
      BY <1>t DEF StoreTypes
    <3>4. CASE Rollback(c)
      <4>1. log' = log /\ table' = table
        BY <3>4 DEF Rollback
      <4>2. Overtaken(r) => Overtaken(r)'
        BY <4>1, OvertakenStays
      <4> QED
        BY <1>1, <3>1, <3>2, <3>3, <4>1, <4>2
    <3>5. CASE Landing(c)
      <4>1. log' = Append(log, [call |-> c, event |-> "commit"])
        BY <3>5, LandingIs
      <4>2. CASE c \notin Uploads
        <5>1. table' = [id \in {i \in DOMAIN table : lock[i] # c} |-> table[id]]
          BY <3>5, <4>2, LandingIs
        <5>2. DOMAIN table' \subseteq DOMAIN table
          BY <5>1
        <5>3. Overtaken(r) => Overtaken(r)'
          BY <4>1, OvertakenStays
        <5> QED
          BY <1>1, <3>1, <3>2, <3>3, <5>2, <5>3
      <4>3. CASE c \in Uploads
        <5>1. ASSUME pc[r] \in {"open", "commit"} PROVE Overtaken(r)'
          <6>1. PICK i \in DOMAIN log : log[i] = [call |-> r, event |-> "begin"]
            BY <5>1 DEF StoreInv, LogFits
          <6>2. /\ DOMAIN log = 1..Len(log) /\ Len(log) \in Nat /\ DOMAIN log' = 1..(Len(log) + 1)
                /\ \A j \in 1..Len(log) : log'[j] = log[j]
            BY <1>t, <4>1, Growth
          <6>3. PICK k \in DOMAIN log' : k = Len(log) + 1
            BY <6>2
          <6>4. i \in DOMAIN log' /\ log'[i] = log[i] /\ i < k
            BY <6>2, <6>3
          <6>5. LandedAt(k, c)'
            BY <1>t, <4>1, <4>3, <6>3, CommittedAfter
          <6> QED
            BY <4>3, <6>1, <6>4, <6>5 DEF Overtaken
        <5> QED
          BY <1>t, <3>1, <5>1 DEF ComesToAll, Ids, Ingested
      <4> QED
        BY <4>2, <4>3
    <3> QED
      BY <1>6, <3>4, <3>5
  <2> QED
    BY <2>2, <2>3
<1>7. CASE UNCHANGED vars
  <2>1. Overtaken(r) => Overtaken(r)'
    BY <1>7, OvertakenStays DEF vars
  <2> QED
    BY <1>1, <1>7, <2>1 DEF vars
<1> QED
  BY <1>3, <1>4, <1>5, <1>6, <1>7, Kinds

\* A log that is clean with an entry more was clean without it.
LEMMA CleanBefore ==
    ASSUME StoreInv, NEW c \in Calls, NEW event \in {"begin", "commit"},
           log' = Append(log, [call |-> c, event |-> event]), Clean'
    PROVE  Clean
<1>1. /\ Len(log) \in Nat /\ DOMAIN log = 1..Len(log) /\ DOMAIN log' = 1..(Len(log) + 1)
      /\ \A i \in 1..Len(log) : log'[i] = log[i]
  BY Growth DEF StoreInv
<1>2. \A i \in DOMAIN log : i \in DOMAIN log' /\ log'[i] = log[i]
  BY <1>1
<1>3. \A i, u : LandedAt(i, u) => LandedAt(i, u)'
  BY CommittedAfter DEF StoreInv
<1> QED
  BY <1>2, <1>3 DEF Clean

\* The entries do the same when what was sent by the calls that committed stays.
LEMMA SerialStays ==
    ASSUME StoreInv, log' = log, \A u \in Uploads : Committed(u) => request'[u] = request[u]
    PROVE  Serial' = Serial
<1> PICK l, q, p : l = log /\ q = request /\ p = request'
  OBVIOUS
<1>1. Len(l) \in Nat /\ DOMAIN l = 1..Len(l)
  BY DEF StoreInv, StoreTypes
<1>2. ASSUME NEW m \in 1..Len(l), NEW rows PROVE Enter(rows, l[m], p) = Enter(rows, l[m], q)
  <2>1. m \in DOMAIN log /\ log[m] \in Entries
    BY <1>1, EntriesAre DEF StoreInv
  <2>2. CASE log[m].event = "begin" \/ log[m].call \in Resets
    BY <2>2 DEF Enter
  <2>3. CASE log[m].event # "begin" /\ log[m].call \notin Resets
    <3>1. log[m].call \in Uploads /\ log[m] = [call |-> log[m].call, event |-> "commit"]
      BY <2>1, <2>3 DEF Entries, Calls
    <3>2. Committed(log[m].call)
      BY <2>1, <3>1 DEF Committed
    <3> QED
      BY <3>1, <3>2 DEF Enter
  <2> QED
    BY <2>2, <2>3
<1>3. SerialOf(l, p) = SerialOf(l, q)
  BY <1>1, <1>2, SerialSame
<1> QED
  BY <1>3, SerialIsOf

LEMMA SerialGrows ==
    ASSUME StoreInv, NEW c \in Calls, NEW event \in {"begin", "commit"},
           log' = Append(log, [call |-> c, event |-> event]), request' = request
    PROVE  Serial' = Enter(Serial, [call |-> c, event |-> event], request)
<1> PICK l, q, e : l = log /\ q = request /\ e = [call |-> c, event |-> event]
  OBVIOUS
<1>1. IsSequence(l)
  BY DEF StoreInv, StoreTypes, IsSequence
<1>2. SerialOf(Append(l, e), q) = Enter(SerialOf(l, q), e, q)
  BY <1>1, SerialAppend
<1> QED
  BY <1>2, SerialIsOf

LEMMA SerialKept ==
    ASSUME StoreInv, [Next]_vars
    PROVE  IsSerial'
<1>c. Uploads \subseteq Calls /\ Resets \subseteq Calls /\ Uploads \cap Resets = {}
  BY CallsAssumption DEF Calls
<1>t. StoreTypes /\ IsSerial
  BY DEF StoreInv
<1>1. ASSUME log' = log, table' = table, \A u \in Uploads : Committed(u) => request'[u] = request[u]
      PROVE  IsSerial'
  <2>1. Serial' = Serial
    BY <1>1, SerialStays
  <2>2. Clean' => Clean
    BY <1>1 DEF Clean, LandedAt
  <2> QED
    BY <1>1, <1>t, <2>1, <2>2 DEF IsSerial
<1>2. ASSUME NEW u \in Uploads, NEW r \in Requests, Post(u, r) PROVE IsSerial'
  <2>1. log' = log /\ table' = table /\ pc[u] = "idle" /\ request' = [request EXCEPT ![u] = r]
    BY <1>2 DEF Post
  <2>2. \A v \in Uploads : Committed(v) => v # u
    BY <1>c, <2>1, CommittedIsDone
  <2>3. \A v \in Uploads : Committed(v) => request'[v] = request[v]
    BY <1>t, <2>1, <2>2 DEF StoreTypes
  <2> QED
    BY <1>1, <2>1, <2>3
<1>3. ASSUME NEW c \in Calls, Write(c) \/ Rollback(c) PROVE IsSerial'
  BY <1>1, <1>3 DEF Write, Rollback
<1>4. ASSUME NEW r \in Resets, Reset(r) PROVE IsSerial'
  <2>1. log' = Append(log, [call |-> r, event |-> "begin"]) /\ request' = request /\ table' = table
    BY <1>4 DEF Reset
  <2>2. Serial' = Enter(Serial, [call |-> r, event |-> "begin"], request)
    BY <1>c, <2>1, SerialGrows
  <2>3. Serial' = Serial
    BY <2>2 DEF Enter
  <2>4. Clean' => Clean
    BY <1>c, <2>1, CleanBefore
  <2> QED
    BY <1>t, <2>1, <2>3, <2>4 DEF IsSerial
<1>5. ASSUME NEW c \in Calls, Landing(c) PROVE IsSerial'
  <2> SUFFICES ASSUME Clean' PROVE table' = Serial'
    BY DEF IsSerial
  <2>1. log' = Append(log, [call |-> c, event |-> "commit"]) /\ request' = request
    BY <1>5, LandingIs
  <2>2. Serial' = Enter(Serial, [call |-> c, event |-> "commit"], request)
    BY <2>1, SerialGrows
  <2>3. Clean
    BY <2>1, CleanBefore
  <2>4. CASE c \in Uploads
    <3>1. table' = Over(table, Rows(request[c]))
      BY <1>5, <2>4, LandingIs
    <3>2. Serial' = Over(Serial, Rows(request[c]))
      BY <1>c, <2>2, <2>4 DEF Enter, Rows
    <3> QED
      BY <1>t, <2>3, <3>1, <3>2 DEF IsSerial
  <2>5. CASE c \notin Uploads
    <3>0. c \in Resets
      BY <2>5 DEF Calls
    <3>1. Serial' = <<>>
      BY <2>2, <3>0 DEF Enter
    <3>2. table' = [id \in {i \in DOMAIN table : lock[i] # c} |-> table[id]]
      BY <1>5, <2>5, LandingIs
    <3>3. pc[c] = "commit"
      BY <1>5 DEF Landing
    <3>4. ~Overtaken(c)
      <4> SUFFICES ASSUME Overtaken(c) PROVE FALSE
        OBVIOUS
      <4>1. PICK i \in DOMAIN log, k \in DOMAIN log, u \in Uploads :
               log[i] = [call |-> c, event |-> "begin"] /\ i < k /\ LandedAt(k, u)
        BY DEF Overtaken
      <4>2. /\ DOMAIN log = 1..Len(log) /\ Len(log) \in Nat /\ DOMAIN log' = 1..(Len(log) + 1)
            /\ log'[Len(log) + 1] = [call |-> c, event |-> "commit"]
            /\ \A j \in 1..Len(log) : log'[j] = log[j]
        BY <1>t, <2>1, Growth
      <4>3. PICK j \in DOMAIN log' : log'[j] = [call |-> c, event |-> "commit"] /\ j = Len(log) + 1
        BY <4>2
      <4>4. i \in DOMAIN log' /\ k \in DOMAIN log' /\ log'[i] = log[i] /\ k < j
        BY <4>2, <4>3
      <4>5. LandedAt(k, u)'
        BY <1>t, <2>1, <4>1, CommittedAfter
      <4> QED
        BY <3>0, <4>1, <4>3, <4>4, <4>5 DEF Clean
    <3>5. todo[c] \in Seq(Ids) /\ Len(todo[c]) = 0
          /\ \A id \in DOMAIN table : lock[id] = c \/ id \in ToSet(todo[c])
      BY <3>0, <3>3, <3>4 DEF StoreInv, ResetsComeToAll, ComesToAll
    <3>6. ToSet(todo[c]) = {}
      BY <3>5 DEF ToSet
    <3>7. {i \in DOMAIN table : lock[i] # c} = {}
      BY <3>5, <3>6
    <3>8. table' = [id \in {} |-> table[id]]
      BY <3>2, <3>7
    <3> QED
      BY <3>1, <3>8
  <2> QED
    BY <2>4, <2>5
<1>6. CASE UNCHANGED vars
  BY <1>1, <1>6 DEF vars
<1> QED
  BY <1>2, <1>3, <1>4, <1>5, <1>6, Kinds

-----------------------------------------------------------------------------
(* The table.                                                              *)

LEMMA StoreInit == Init => StoreInv
<1> SUFFICES ASSUME Init PROVE StoreInv
  OBVIOUS
<1> USE DEF Init
<1>1. DOMAIN log = {} /\ Len(log) = 0 /\ DOMAIN table = {} /\ log \in Seq(Entries)
  OBVIOUS
<1>2. StoreTypes
  <2>1. IsFiniteSet(DOMAIN table)
    BY <1>1, FS_EmptySet
  <2> QED
    BY <1>1, <2>1 DEF StoreTypes
<1>3. LogFits
  BY <1>1 DEF LogFits, Calls
<1>4. Answers
  BY <1>1 DEF Answers, Committed, Calls
<1>5. RowsAreLast /\ ResetsComeToAll
  BY <1>1 DEF RowsAreLast, ResetsComeToAll, ComesToAll, Calls
<1>6. IsSerial
  <2> PICK l, q : l = log /\ q = request
    OBVIOUS
  <2>1. PICK f : IsHistory(f, l, q, 0) /\ SerialOf(l, q) = f[0]
    <3>1. Len(l) = 0
      BY <1>1
    <3> QED
      BY <3>1, SerialIs
  <2>2. SerialOf(l, q) = <<>>
    BY <2>1 DEF IsHistory
  <2> QED
    BY <2>2, SerialIsOf DEF IsSerial
<1> QED
  BY <1>2, <1>3, <1>4, <1>5, <1>6 DEF StoreInv

LEMMA StoreStep == StoreInv /\ [Next]_vars => StoreInv'
<1> SUFFICES ASSUME StoreInv, [Next]_vars PROVE StoreInv'
  OBVIOUS
<1> QED
  BY TypesKept, LogFitsKept, AnswersKept, RowsKept, ResetsKept, SerialKept DEF StoreInv

LEMMA StoreImplies == StoreInv => TableIsSerial
<1> SUFFICES ASSUME StoreInv PROVE TableIsSerial
  OBVIOUS
<1>c. Uploads \subseteq Calls /\ Resets \subseteq Calls
  BY DEF Calls
<1>e. DOMAIN log \subseteq Nat
  BY DEF StoreInv, StoreTypes
<1>1. ASSUME NEW i \in DOMAIN log, NEW c, NEW event, log[i] = [call |-> c, event |-> event]
      PROVE  Position(c, event) = i
  BY <1>1 DEF Position, StoreInv, LogFits
<1>2. ASSUME \A r \in Resets : ~Overlapped(r) PROVE table = Serial
  <2>1. ASSUME NEW r \in Resets, NEW i \in DOMAIN log, NEW j \in DOMAIN log, NEW k \in DOMAIN log,
               NEW u \in Uploads, log[i] = [call |-> r, event |-> "begin"],
               log[j] = [call |-> r, event |-> "commit"], i < k, k < j, LandedAt(k, u)
        PROVE  FALSE
    <3>1. log[k] = [call |-> u, event |-> "commit"]
      BY <2>1 DEF LandedAt
    <3>2. Committed(r) /\ Committed(u)
      BY <2>1, <3>1 DEF Committed
    <3>3. Position(r, "begin") = i /\ Position(r, "commit") = j /\ Position(u, "commit") = k
      BY <1>1, <2>1, <3>1
    <3>4. k \in i..j
      BY <1>e, <2>1
    <3> QED
      BY <1>2, <3>2, <3>3, <3>4 DEF Overlapped
  <2>2. Clean
    BY <2>1 DEF Clean
  <2> QED
    BY <2>2 DEF StoreInv, IsSerial
<1>3. ASSUME NEW id \in DOMAIN table
      PROVE  LET writers == {u \in Uploads : Committed(u) /\ id \in IdsOf(Ingested[request[u]].suppliers)}
                 last == CHOOSE u \in writers :
                            \A v \in writers : Position(v, "commit") <= Position(u, "commit")
             IN  table[id] \in ToSet(Ingested[request[last]].suppliers)
  <2> DEFINE writers == {u \in Uploads : Committed(u) /\ id \in IdsOf(Ingested[request[u]].suppliers)}
             IsLast(u) == \A v \in writers : Position(v, "commit") <= Position(u, "commit")
  <2>1. PICK k \in DOMAIN log, u \in Uploads :
           /\ LandedAt(k, u) /\ id \in IdsOf(Rows(request[u]))
           /\ table[id] \in ToSet(Rows(request[u]))
           /\ \A m \in DOMAIN log, v \in Uploads :
                 LandedAt(m, v) /\ id \in IdsOf(Rows(request[v])) => m <= k
    BY DEF StoreInv, RowsAreLast
  <2>2. u \in writers /\ Position(u, "commit") = k
    BY <1>1, <2>1 DEF LandedAt, Committed, Rows
  <2>3. ASSUME NEW v \in writers
        PROVE  \E m \in DOMAIN log : LandedAt(m, v) /\ Position(v, "commit") = m /\ m <= k
    <3>1. PICK m \in DOMAIN log : log[m] = [call |-> v, event |-> "commit"]
      BY DEF Committed
    <3>2. LandedAt(m, v) /\ Position(v, "commit") = m
      BY <1>1, <3>1 DEF LandedAt
    <3> QED
      BY <2>1, <3>2 DEF Rows
  <2>4. IsLast(u)
    BY <2>2, <2>3
  <2>5. ASSUME NEW v \in writers, IsLast(v) PROVE v = u
    <3>1. PICK m \in DOMAIN log : LandedAt(m, v) /\ Position(v, "commit") = m /\ m <= k
      BY <2>3
    <3>2. k <= m
      BY <2>2, <2>5, <3>1
    <3>3. m = k
      BY <1>e, <3>1, <3>2
    <3>4. [call |-> v, event |-> "commit"] = [call |-> u, event |-> "commit"]
      BY <2>1, <3>1, <3>3 DEF LandedAt
    <3>5. [call |-> v, event |-> "commit"].call = v /\ [call |-> u, event |-> "commit"].call = u
      OBVIOUS
    <3> QED
      BY <3>4, <3>5
  <2> HIDE DEF IsLast
  <2>6. (CHOOSE v \in writers : IsLast(v)) = u
    BY <2>2, <2>4, <2>5
  <2> QED
    BY <2>1, <2>6 DEF IsLast, Rows
<1>4. ASSUME NEW u \in Uploads, answer[u] # None
      PROVE  /\ answer[u].status = 200 =>
                   /\ Committed(u) \/ answer[u].persisted = 0
                   /\ answer[u].persisted = Cardinality(IdsOf(Ingested[request[u]].suppliers))
             /\ Committed(u) => /\ answer[u].status \in {200, 500}
                                /\ Sent[request[u]].authorized /\ Sent[request[u]].sent # "over"
  <2>1. Committed(u) => Sent[request[u]].authorized /\ Sent[request[u]].sent # "over"
    BY RefusalIs DEF StoreInv, Answers
  <2> QED
    BY <1>4, <2>1 DEF StoreInv, Answers, Rows
<1> QED
  BY <1>2, <1>3, <1>4 DEF TableIsSerial

\* The table is what the uploads and resets that committed make of it one after the
\* other, an upload whole or not at all, but for the rows an upload inserted during a
\* reset; every row is that of the last upload to write it; and a 200 is told of an
\* upload that landed, with the number of its rows (supplier-store.ts:77-98).
THEOREM TableStaysSerial == Spec => []TableIsSerial
<1>1. Spec => []StoreInv
  BY StoreInit, StoreStep, PTL DEF Spec
<1> QED
  BY <1>1, StoreImplies, PTL

\* The report of an upload accounts for every row of its file, and the backups of a
\* seed do not depend on the order of its rows, whatever is uploaded, and by whom
\* (supplier-csv.ts:248-368, seed-suppliers.ts:59).
THEOREM RowsAlwaysAccounted == Spec => []RowsAccounted
<1>1. Spec => []StoreInv
  BY StoreInit, StoreStep, PTL DEF Spec
<1>2. StoreInv => RowsAccounted
  BY RowsAre DEF StoreInv, Answers, RowsAccounted
<1> QED
  BY <1>1, <1>2, PTL
=============================================================================
