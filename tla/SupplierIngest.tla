---------------------------- MODULE SupplierIngest ----------------------------
(***************************************************************************)
(* From the text of an uploaded CSV to suppliers and a report              *)
(* (lib/ingest/supplier-csv.ts), and the seed built through the same core  *)
(* (lib/ingest/seed-suppliers.ts).                                         *)
(*                                                                         *)
(* A file is a sequence of rows of cells.  A cell has a text, a size next  *)
(* to the cap on display fields ("ok", "full" at the cap, "over" it or     *)
(* with a control character), and a mark: its text starts with a formula   *)
(* trigger.  What the conversions make of a text are constants.            *)
(***************************************************************************)
EXTENDS Integers, Sequences, FiniteSets, SequencesExt, FiniteSetsExt

CONSTANTS
    Blank,          \* the text of an empty cell
    None,
    NameKey,        \* the identity of a name: its case and spacing folded
    IsoOf,          \* the alpha-2 code of a country text, None or Inherited
    Inherited,      \* what a text finds that names a member every object has
    LeadOf,         \* the number a text reads as, or None
    IdRank,         \* the order of the digests of (name, country)
    MaxRows         \* MAX_CSV_ROWS

Severity == {"LOW", "MEDIUM", "HIGH", "CRITICAL"}
Sector ==
    {"SEMICONDUCTORS", "ELECTRONICS", "AUTOMOTIVE", "AEROSPACE_DEFENSE", "PHARMACEUTICALS",
     "MEDICAL_DEVICES", "CHEMICALS", "ENERGY", "METALS_MINING", "INDUSTRIAL_MACHINERY",
     "AGRICULTURE_FOOD", "TEXTILES_APPAREL", "CONSUMER_GOODS", "LOGISTICS", "OTHER_UNMAPPED"}

-----------------------------------------------------------------------------
(* Cells and headers.                                                      *)

\* A trigger is neutralised by a leading apostrophe: the text is no longer a
\* number, a code or a sector, and one character longer.
Sanitized(cell) ==
    IF cell.formula
      THEN [text |-> "quoted", quotes |-> cell.text, size |-> IF cell.size = "ok" THEN "ok" ELSE "over"]
      ELSE [text |-> cell.text, quotes |-> None, size |-> cell.size]
EmptyCell == [text |-> Blank, formula |-> FALSE, size |-> "ok"]

Aliases ==
    [name |-> {"name", "supplier_name", "suppliername"},
     country |-> {"country", "country_code", "countrycode"},
     region |-> {"region"},
     risk_tier |-> {"risk_tier", "risktier", "tier", "risk"},
     sector |-> {"sector", "industry"},
     lead |-> {"standard_lead_time_days", "lead_time_days", "leadtime", "lead_time"}]
Tier2Headers ==
    {"lane", "route", "on_hand_units", "onhand_units", "daily_use_units",
     "daily_usage_units", "unit_revenue", "unit_revenue_usd", "revenue_per_unit"}

Columns(header, field) == {i \in DOMAIN header : header[i].text \in Aliases[field]}

\* The first column that names a field holds it; a short row leaves it blank.
CellOf(header, row, field) ==
    LET columns == Columns(header, field)
    IN  IF columns = {} \/ Min(columns) > Len(row) THEN Sanitized(EmptyCell)
        ELSE Sanitized(row[Min(columns)])

-----------------------------------------------------------------------------
(* One row.                                                                *)

Identity(name) == IF name.quotes = None THEN <<NameKey[name.text]>> ELSE <<"quoted", NameKey[name.quotes]>>
CanonicalId(name, country) == <<Identity(name), country>>

NormalCountry(cell) == IF cell.quotes = None THEN IsoOf[cell.text] ELSE None
NormalSector(cell) == IF cell.text \in Sector THEN cell.text ELSE "OTHER_UNMAPPED"
NormalLead(cell) ==
    IF cell.quotes # None \/ cell.text = Blank THEN None ELSE LeadOf[cell.text]

Thrown == "thrown"

\* The first thing that is wrong with a row, in the order it is looked for.  The name
\* map is a plain object (country-iso.ts:11), so a country text such as "constructor"
\* finds an inherited member: no code, but no rejection either, until the id is made
\* of it and the whole parse throws.
Rejection(header, row) ==
    LET cell(field) == CellOf(header, row, field)
    IN  CASE cell("name").text = Blank -> "name missing"
          [] cell("country").text = Blank -> "country missing"
          [] NormalCountry(cell("country")) = None -> "country unknown"
          [] cell("region").text = Blank -> "region missing"
          [] cell("risk_tier").text \notin Severity -> "risk tier"
          [] NormalLead(cell("lead")) = None -> "lead time"
          [] NormalCountry(cell("country")) = Inherited -> Thrown
          [] "over" \in {cell("name").size, cell("region").size} -> "schema"
          [] OTHER -> None

Built(header, row) ==
    LET cell(field) == CellOf(header, row, field)
        country == NormalCountry(cell("country"))
    IN  [id |-> CanonicalId(cell("name"), country), name |-> cell("name"),
         country |-> country, region |-> cell("region"),
         riskTier |-> cell("risk_tier").text, lead |-> NormalLead(cell("lead")),
         sector |-> NormalSector(cell("sector")), backup |-> None]

-----------------------------------------------------------------------------
(* The file.                                                               *)

IdsOf(suppliers) == {suppliers[i].id : i \in DOMAIN suppliers}

\* (mutant) the first row of a supplier wins
KeepFirst(suppliers, supplier) ==
    IF supplier.id \in IdsOf(suppliers) THEN suppliers ELSE Append(suppliers, supplier)

\* A Map: an overwritten entry keeps its place.
Put(suppliers, supplier) ==
    IF supplier.id \in IdsOf(suppliers)
      THEN [i \in DOMAIN suppliers |->
               IF suppliers[i].id = supplier.id THEN supplier ELSE suppliers[i]]
      ELSE Append(suppliers, supplier)

NotEmpty(row) == \E i \in DOMAIN row : row[i].text # Blank

\* What the parser's callback keeps from one row to the next.
Unread ==
    [headerSeen |-> FALSE, header |-> <<>>, suppliers |-> <<>>, lines |-> <<>>,
     matched |-> 0, overwritten |-> 0, unmatched |-> 0, aborted |-> FALSE]

ReadHeader(read, row) ==
    [read EXCEPT !.headerSeen = TRUE, !.header = [i \in DOMAIN row |-> Sanitized(row[i])]]

Reject(read, reason) ==
    [read EXCEPT !.unmatched = @ + 1,
                 !.lines = Append(@, [outcome |-> "UNMATCHED", reason |-> reason, id |-> None])]

Accept(read, supplier) ==
    LET known == supplier.id \in IdsOf(read.suppliers)
        outcome == IF known THEN "MATCHED_OVERWRITE" ELSE "MATCHED"
    IN  [read EXCEPT
            !.suppliers = Put(@, supplier),
            !.overwritten = IF known THEN @ + 1 ELSE @,
            !.matched = IF known THEN @ ELSE @ + 1,
            !.lines = Append(@, [outcome |-> outcome, reason |-> None, id |-> supplier.id])]

ReadRow(read, row) ==
    LET reason == Rejection(read.header, row)
    IN  IF reason # None THEN Reject(read, reason) ELSE Accept(read, Built(read.header, row))

\* (mutant) the row beyond the cap is read before the parse is aborted
ParseStepLate(read, row) ==
    IF read.aborted \/ ~NotEmpty(row) THEN read
    ELSE IF ~read.headerSeen THEN ReadHeader(read, row)
    ELSE IF Len(read.lines) > MaxRows THEN [read EXCEPT !.aborted = TRUE]
    ELSE ReadRow(read, row)

\* The callback: an empty row never comes to it, and after the abort none does.  The
\* row beyond the cap aborts the parse unread.
ParseStep(read, row) ==
    IF read.aborted \/ ~NotEmpty(row) THEN read
    ELSE IF ~read.headerSeen THEN ReadHeader(read, row)
    ELSE IF Len(read.lines) >= MaxRows THEN [read EXCEPT !.aborted = TRUE]
    ELSE ReadRow(read, row)

\* What the upload is answered with, unless a row threw: then nothing of it is seen.
Report(read) ==
    [suppliers |-> read.suppliers,
     lines |-> read.lines,
     dataTier |-> IF \E i \in DOMAIN read.header : read.header[i].text \in Tier2Headers
                    THEN "TIER_2" ELSE "TIER_1",
     totalRows |-> Len(read.lines),
     matched |-> read.matched,
     overwritten |-> read.overwritten,
     unmatched |-> read.unmatched,
     aborted |-> read.aborted,
     thrown |-> \E i \in DOMAIN read.lines : read.lines[i].reason = Thrown]

IngestSupplierCsv(file) ==
    LET after[n \in 0..Len(file)] ==
            IF n = 0 THEN Unread ELSE ParseStep(after[n - 1], file[n])
    IN  Report(after[Len(file)])

-----------------------------------------------------------------------------
(* The seed.                                                               *)

\* A row that threw is not matched either.
SeedIsClean(ingest, expected) ==
    /\ ~ingest.aborted
    /\ ingest.unmatched = 0 /\ ingest.overwritten = 0
    /\ ingest.totalRows = expected /\ ingest.matched = expected

\* A qualified alternate: another supplier of the sector, elsewhere, and stable.
Qualified(supplier, other) ==
    /\ other.id # supplier.id
    /\ other.sector = supplier.sector
    /\ other.country # supplier.country
    /\ other.riskTier \in {"LOW", "MEDIUM"}

\* (mutant) the first alternate of the file is the backup
LinkFirst(suppliers, sole) ==
    LET alternates(s) == {i \in DOMAIN suppliers : Qualified(s, suppliers[i])}
        backup(s) ==
            IF s.name.text \in sole \/ alternates(s) = {} THEN None
            ELSE suppliers[Min(alternates(s))].id
    IN  [i \in DOMAIN suppliers |-> [suppliers[i] EXCEPT !.backup = backup(suppliers[i])]]

\* sole are the names of the suppliers that are sole-sourced on purpose.
LinkBackupSuppliers(suppliers, sole) ==
    LET alternates(s) == {i \in DOMAIN suppliers : Qualified(s, suppliers[i])}
        rank(i) == IdRank[suppliers[i].id]
        backup(s) ==
            IF s.name.text \in sole \/ alternates(s) = {} THEN None
            ELSE suppliers[CHOOSE i \in alternates(s) :
                              \A j \in alternates(s) : rank(i) <= rank(j)].id
    IN  [i \in DOMAIN suppliers |-> [suppliers[i] EXCEPT !.backup = backup(suppliers[i])]]

\* The suppliers of a run: the seed must be exactly the authored dataset, or it throws.
IngestSeed(file, expected, sole) ==
    LET ingest == IngestSupplierCsv(file)
    IN  IF SeedIsClean(ingest, expected)
          THEN [thrown |-> FALSE, suppliers |-> LinkBackupSuppliers(ingest.suppliers, sole)]
          ELSE [thrown |-> TRUE, suppliers |-> <<>>]
=============================================================================
