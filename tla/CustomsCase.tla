------------------------------ MODULE CustomsCase ------------------------------
(***************************************************************************)
(* One customs-defence case, from the edge-case matrix and the synthetic   *)
(* generator to the packet and the deterministic Skeptic that re-derives   *)
(* it (lib/agents/customsdesk/*.ts).  All of it is pure.                   *)
(*                                                                         *)
(* Numerals are hundredths, so that an amount is its cents.  A packet's    *)
(* prose is the set of numeral tokens it asserts and the exhibit bodies    *)
(* that crossed into it.                                                   *)
(***************************************************************************)
EXTENDS CustomsPolicy, Numerals, Catair

Postures == {"COMPLETE", "PARTIAL", "CONTRADICTORY", "ADVERSARIAL_INJECTED"}
Origins == {"SINGLE_COUNTRY", "TRANSSHIPMENT_PATTERN", "MULTI_TIER_BOM"}
DeadlineStates == {"AMPLE", "IMMINENT", "LAPSED"}

DispositionClass(posture, deadline) ==
    CASE posture = "ADVERSARIAL_INJECTED" -> "QUARANTINE_TEST"
      [] posture \in {"PARTIAL", "CONTRADICTORY"} -> "REFUSE_EXPECTED"
      [] posture = "COMPLETE" /\ deadline = "LAPSED" -> "REFUSE_EXPECTED"
      [] OTHER -> "PROCEED_CANDIDATE"

Cell(workflow, posture, origin, deadline) ==
    [workflow |-> workflow, posture |-> posture, origin |-> origin, deadline |-> deadline,
     class |-> DispositionClass(posture, deadline)]

\* The declared coverage: the full flagship cross product and four CF-28 cells.
MatrixCells ==
    {Cell("PRIOR_DISCLOSURE", p, o, d) : p \in Postures, o \in Origins, d \in DeadlineStates}
    \cup {Cell("CF28_RESPONSE", p, "SINGLE_COUNTRY", "IMMINENT") :
            p \in {"COMPLETE", "PARTIAL", "ADVERSARIAL_INJECTED"}}
    \cup {Cell("CF28_RESPONSE", "COMPLETE", "TRANSSHIPMENT_PATTERN", "IMMINENT")}

\* A combination the matrix does not declare.
Undeclared == Cell("CF28_RESPONSE", "COMPLETE", "SINGLE_COUNTRY", "LAPSED")
Declared(cell) == cell \in MatrixCells

-----------------------------------------------------------------------------
(* The synthetic generator: its random draws are the parameters.           *)

LoadBearing == {"PRODUCTION_RECORD", "BILL_OF_MATERIALS"}
ExhibitKinds == LoadBearing \cup
    {"COMMERCIAL_INVOICE", "SUPPLIER_AFFIDAVIT", "FACTORY_AUDIT_REPORT", "BROKER_CORRESPONDENCE"}
FilerCode == << LetterValue(18), LetterValue(19), LetterValue(24) >>

\* The rate is 2.5 percent: of dollars, in cents.  The floating-point product rounds to
\* the same cent at every value the generator draws, 25,000 to 1,000,000 dollars.
DutyCents(dollars) == RoundDiv(dollars * 250, 100)
EntryLine(dollars, country) ==
    [country |-> country, value |-> dollars, duty |-> DutyCents(dollars)]

MissingSets(cell) ==
    IF cell.posture = "PARTIAL" THEN {{"PRODUCTION_RECORD"}, LoadBearing} ELSE {{}}

\* Goods of a transshipment case come from CN and are declared as the exporter's.
DeclaredOrigin(cell) == IF cell.origin = "TRANSSHIPMENT_PATTERN" THEN "exporter" ELSE "maker"
QuestionedOrigin(cell) == "maker"

Exhibit(cell, kind) ==
    LET contradicts == cell.posture = "CONTRADICTORY" /\ kind \in LoadBearing
        origin == IF contradicts THEN QuestionedOrigin(cell) ELSE DeclaredOrigin(cell)
        injected == cell.posture = "ADVERSARIAL_INJECTED" /\ kind = "COMMERCIAL_INVOICE"
    IN  [kind |-> kind, origin |-> origin, consistent |-> ~contradicts,
         body |-> <<kind, origin, injected>>]

\* entries: the drawn lines of each entry, as dollars; number: its sequence.
GenerateCase(cell, seed, entries, number, missing) ==
    [cell |-> cell, seed |-> seed,
     entries |-> [e \in 1..Len(entries) |->
        [filer |-> FilerCode, number |-> EntryNumber(FilerCode, number), port |-> "port",
         lines |-> [i \in 1..Len(entries[e]) |->
                       EntryLine(entries[e][i], DeclaredOrigin(cell))]]],
     exhibits |-> {Exhibit(cell, kind) : kind \in ExhibitKinds \ missing},
     commenced |-> cell.deadline = "LAPSED",
     signal |-> cell.deadline # "AMPLE"]

-----------------------------------------------------------------------------
(* Quarantine, sufficiency, scope.                                         *)

\* Bodies stop here; what the patterns saw is for the audit, never a gate.
Quarantine(exhibit) ==
    [kind |-> exhibit.kind, origin |-> exhibit.origin, consistent |-> exhibit.consistent,
     digest |-> exhibit.body,
     signals |-> IF exhibit.body[3] THEN {"instruction-override", "disposition-steering",
                                          "figure-steering"} ELSE {}]
QuarantineAll(exhibits) == {Quarantine(x) : x \in exhibits}

Ineligible == <<"INELIGIBLE", "INVESTIGATION_COMMENCED">>
Contradiction == <<"CONTRADICTION", "ORIGIN">>
Outside == <<"OUTSIDE", "DECLARED_COVERAGE">>

\* (mutant) what the patterns saw counts as a contradiction
SufficiencyBySignals(workflow, quarantined, commenced) ==
    LET present == {q.kind : q \in quarantined}
    IN  (IF workflow = "PRIOR_DISCLOSURE" /\ commenced THEN {Ineligible} ELSE {})
        \cup {<<"MISSING", kind>> : kind \in LoadBearing \ present}
        \cup (IF \E q \in quarantined : ~q.consistent \/ q.signals # {}
              THEN {Contradiction} ELSE {})

AssessSufficiency(workflow, quarantined, commenced) ==
    LET present == {q.kind : q \in quarantined}
    IN  (IF workflow = "PRIOR_DISCLOSURE" /\ commenced THEN {Ineligible} ELSE {})
        \cup {<<"MISSING", kind>> : kind \in LoadBearing \ present}
        \cup (IF \E q \in quarantined : ~q.consistent THEN {Contradiction} ELSE {})

\* The desk scopes everything; the tariff criterion of the code is left out, and so is its
\* refusal of a field that is no number, which a record of the generator never has.
Anywhere == [port |-> {}, country |-> {}]
Selected(value, wanted) == wanted = {} \/ value \in wanted
InScope(entry, line, criteria) ==
    Selected(entry.port, criteria.port) /\ Selected(line.country, criteria.country)

\* What a field of the lines in scope comes to, line by line and entry by entry.
SumOver(entries, criteria, field) ==
    LET share(entry, line) == IF InScope(entry, line, criteria) THEN line[field] ELSE 0
        ofEntry(entry) == Total([i \in DOMAIN entry.lines |-> share(entry, entry.lines[i])])
    IN  Total([e \in DOMAIN entries |-> ofEntry(entries[e])])

ScopeEntryPopulation(entries, criteria) ==
    LET lines == UNION {{e} \X DOMAIN entries[e].lines : e \in DOMAIN entries}
        matched == {x \in lines : InScope(entries[x[1]], entries[x[1]].lines[x[2]], criteria)}
    IN  [entryCount |-> Cardinality({x[1] : x \in matched}),
         lineCount |-> Cardinality(matched),
         entered |-> 100 * SumOver(entries, criteria, "value"),
         duty |-> SumOver(entries, criteria, "duty")]

-----------------------------------------------------------------------------
(* The pipeline.                                                           *)

NoticeMailed == 0
DemoInterest == [rate |-> 6, days |-> 365]
Count(n) == 100 * n

\* The figures a statutory section's own numerals come to, under one ref.
Ecfr162 == "19 CFR 162.74"
SectionFigures(citation) ==
    CASE citation = Icp -> {200, 9200}
      [] citation = IcpDisclosure -> {9300}
      [] citation = Ecfr162 -> {1900, 16274}
PolicyRef(citation) ==
    IF citation = Ecfr162 THEN "policy-table#eCFR" ELSE "policy-table#ICP-1592"

PolicyCitationFigures(citations) ==
    UNION {{Cite(v, PolicyRef(c)) : v \in SectionFigures(c)} : c \in citations}
FetchedOn == -1

\* The demo's model: the loss of revenue is the declared duty, negligent.
PenaltyCase(scope, disclosed) ==
    [culpability |-> "NEGLIGENCE", loss |-> "DUTY_LOSS", actual |-> scope.duty,
     potential |-> 0, dutiable |-> scope.entered, domestic |-> 2 * scope.entered,
     disclosed |-> disclosed, interest |-> DemoInterest, factors |-> {}]

Deadlines(input) == IF input.signal THEN {Clock("CF28_RESPONSE", NoticeMailed)} ELSE {}

\* Every figure a packet may assert, by where it comes from.
ScopeFigures(scope) ==
    {Cite(Count(scope.entryCount), "entryCount"), Cite(Count(scope.lineCount), "lineCount"),
     Cite(scope.entered, "totalEnteredValue"), Cite(scope.duty, "totalDeclaredDuty"),
     Cite(scope.duty, "lor-model")}
PenaltyFigures(scope) ==
    {Cite(Exposure(PenaltyCase(scope, FALSE)).min, "caught.min"),
     Cite(Exposure(PenaltyCase(scope, FALSE)).max, "caught.max"),
     Cite(Exposure(PenaltyCase(scope, TRUE)).max, "disclosed.max")}
ModelFigures ==
    {Cite(Count(DemoInterest.rate), "interestRate"), Cite(Count(DemoInterest.days), "interestDays")}
InputFigures(input, exhibits) ==
    {Cite(Count(input.seed), "seed"), Cite(Count(exhibits), "exhibits")}
ClockFigures(clocks) == {Cite(Count(c.days), "clock") : c \in clocks}
ProceedCitations == {Icp, IcpDisclosure}

\* The text of a packet: its sections and everything the appendices render.
Render(packet) ==
    [kind |-> <<packet.case.cell.workflow, packet.disposition>>,
     numerals |-> packet.prose \cup Plain({Count(packet.case.seed)})
        \cup Plain({f.value : f \in packet.cited})
        \cup Plain(UNION {SectionFigures(c) : c \in packet.citations})
        \cup {t \in Dates({FetchedOn}) : packet.citations # {}}
        \cup Plain({Count(c.days) : c \in packet.clocks}) \cup Dates({c.due : c \in packet.clocks}),
     gaps |-> packet.gaps, bodies |-> packet.bodies, audit |-> packet.audit]

\* A packet whose text asserts an uncited numeral does not exist: it throws.
Produced(packet) == CitationsCover(Render(packet).numerals, packet.cited)

Audit(quarantined) == {<<q.kind, q.digest, q.signals>> : q \in quarantined}

ProceedPacket(input, quarantined) ==
    LET scope == ScopeEntryPopulation(input.entries, Anywhere)
        clocks == Deadlines(input)
        figures == InputFigures(input, Cardinality(quarantined)) \cup ScopeFigures(scope)
                   \cup PenaltyFigures(scope) \cup ModelFigures \cup ClockFigures(clocks)
    IN  [case |-> [cell |-> input.cell, seed |-> input.seed], disposition |-> "PROCEED",
         prose |-> Plain({f.value : f \in figures}) \cup Dates({c.due : c \in clocks}),
         bodies |-> {}, cited |-> figures \cup PolicyCitationFigures(ProceedCitations),
         gaps |-> {}, clocks |-> clocks, citations |-> ProceedCitations,
         audit |-> Audit(quarantined)]

RefusalCitations(gaps) == IF Ineligible \in gaps THEN {Ecfr162} ELSE {}

RefusalPacket(input, gaps, quarantined) ==
    [case |-> [cell |-> input.cell, seed |-> input.seed], disposition |-> "REFUSE",
     prose |-> Plain({Count(Cardinality(quarantined))}), bodies |-> {},
     cited |-> InputFigures(input, Cardinality(quarantined))
               \cup PolicyCitationFigures(RefusalCitations(gaps)),
     gaps |-> gaps, clocks |-> {}, citations |-> RefusalCitations(gaps),
     audit |-> Audit(quarantined)]

OutcomeOf(packet) ==
    [disposition |-> packet.disposition, gaps |-> packet.gaps, packet |-> packet,
     text |-> Render(packet)]

RunCustomsDefenseCase(input) ==
    LET quarantined == QuarantineAll(input.exhibits)
        gaps == AssessSufficiency(input.cell.workflow, quarantined, input.commenced)
    IN  IF ~Declared(input.cell) THEN OutcomeOf(RefusalPacket(input, {Outside}, {}))
        ELSE IF gaps # {} THEN OutcomeOf(RefusalPacket(input, gaps, quarantined))
        ELSE OutcomeOf(ProceedPacket(input, quarantined))
=============================================================================
