----------------------------- MODULE CustomsSkeptic -----------------------------
(***************************************************************************)
(* The deterministic Skeptic of the customs desk: an outcome is compared   *)
(* with what the raw case yields, check by check, and at last with a full  *)
(* rerun (lib/agents/customsdesk/skeptic-check.ts).                        *)
(***************************************************************************)
EXTENDS CustomsCase

Rederived(input) ==
    AssessSufficiency(input.cell.workflow, QuarantineAll(input.exhibits), input.commenced)

DispositionObjections(input, outcome) ==
    IF ~Declared(input.cell)
    THEN (IF outcome.disposition # "REFUSE" THEN {"coverage"} ELSE {})
    ELSE (IF outcome.disposition # (IF Rederived(input) = {} THEN "PROCEED" ELSE "REFUSE")
          THEN {"disposition"} ELSE {})
         \cup (IF Rederived(input) \subseteq outcome.gaps THEN {} ELSE {"gaps"})

\* The stored text is stale, or the finished packet asserts what it does not cite.
TextObjections(outcome) ==
    (IF outcome.text # Render(outcome.packet) THEN {"stale text"} ELSE {})
    \cup (IF CitationsCover(Render(outcome.packet).numerals, outcome.packet.cited)
          THEN {} ELSE {"citation"})

ExpectedCitations(input, outcome) ==
    CASE outcome.disposition = "PROCEED" -> ProceedCitations
      [] outcome.disposition # "PROCEED" /\ Declared(input.cell) ->
            RefusalCitations(Rederived(input))
      [] OTHER -> {}

ExpectedClocks(input, outcome) ==
    IF outcome.disposition = "PROCEED" THEN Deadlines(input) ELSE {}

ExpectedFigures(input, outcome) ==
    LET scope == ScopeEntryPopulation(input.entries, Anywhere)
        examined == IF Declared(input.cell) THEN Cardinality(input.exhibits) ELSE 0
    IN  InputFigures(input, examined)
        \cup PolicyCitationFigures(ExpectedCitations(input, outcome))
        \cup (IF outcome.disposition = "PROCEED"
              THEN ScopeFigures(scope) \cup PenaltyFigures(scope) \cup ModelFigures
                   \cup ClockFigures(ExpectedClocks(input, outcome))
              ELSE {})

\* (mutant) one entry per ref is looked at, as if the list were a map
FigureObjectionsByRef(input, outcome) ==
    LET expected == ExpectedFigures(input, outcome)
        known == {f.ref : f \in expected}
        cited == outcome.packet.cited
    IN  (IF \E c \in cited : c.ref \notin known THEN {"unknown ref"} ELSE {})
        \cup (IF \E r \in known : \A c \in cited : c.ref = r => c \notin expected
              THEN {"figure"} ELSE {})

\* Per entry: every ref is re-derivable and carries a re-derived value, and every
\* expected ref is cited.
FigureObjections(input, outcome) ==
    LET expected == ExpectedFigures(input, outcome)
        known == {f.ref : f \in expected}
        cited == outcome.packet.cited
    IN  (IF \E c \in cited : c.ref \notin known THEN {"unknown ref"} ELSE {})
        \cup (IF \E c \in cited : c.ref \in known /\ c \notin expected THEN {"figure"} ELSE {})
        \cup (IF known \subseteq {c.ref : c \in cited} THEN {} ELSE {"no figure"})

\* Dates are masked by the citation bar, so clocks and prose dates have their own.
ShownDays(packet) == {t.value : t \in {t \in Render(packet).numerals : t.form = "DATE"}}
DueDays(clocks) == {c.due : c \in clocks}
AllowedDays(clocks, citations) ==
    {c.mailed : c \in clocks} \cup DueDays(clocks) \cup {FetchedOn : c \in citations}

DateObjections(input, outcome) ==
    LET clocks == ExpectedClocks(input, outcome)
        shown == ShownDays(outcome.packet)
    IN  (IF outcome.packet.clocks # clocks THEN {"clock"} ELSE {})
        \cup (IF shown \subseteq AllowedDays(clocks, ExpectedCitations(input, outcome))
              THEN {} ELSE {"prose date"})
        \cup (IF DueDays(clocks) \subseteq shown THEN {} ELSE {"no due date"})

BodyObjections(input, outcome) ==
    LET bodies == {x.body : x \in input.exhibits}
    IN  IF bodies \cap (outcome.text.bodies \cup Render(outcome.packet).bodies) # {}
        THEN {"quarantine"} ELSE {}

NamedObjections(input, outcome) ==
    DispositionObjections(input, outcome) \cup TextObjections(outcome)
    \cup FigureObjections(input, outcome) \cup DateObjections(input, outcome)
    \cup BodyObjections(input, outcome)

\* The backstop: the whole outcome, rerun from the raw case.
SkepticObjections(input, outcome) ==
    NamedObjections(input, outcome)
    \cup (IF RunCustomsDefenseCase(input) # outcome THEN {"rerun"} ELSE {})

-----------------------------------------------------------------------------
(* Outcomes that were tampered with after the run: the edits the comments  *)
(* of skeptic-check.ts name.                                               *)

Rerendered(outcome, packet) ==
    [disposition |-> outcome.disposition, gaps |-> outcome.gaps,
     packet |-> packet, text |-> Render(packet)]
Reworked(packet, cited) == [packet EXCEPT !.cited = cited]
Restated(text, tokens) == [text EXCEPT !.numerals = @ \cup tokens]
Stating(packet, tokens) == [packet EXCEPT !.prose = @ \cup tokens]

\* A cited value, and the prose that states it, changed together.
Inflated(outcome) ==
    LET cited == outcome.packet.cited
        More(f) == Cite(f.value + 50, f.ref)
    IN  {Rerendered(outcome, Stating(Reworked(outcome.packet, (cited \ {f}) \cup {More(f)}),
                                     Plain({f.value + 50}))) : f \in {f \in cited : More(f) \notin cited}}

\* A wrong value beside the right one, or under a ref of its own.
Shadowed(outcome) ==
    {Rerendered(outcome, Stating(Reworked(outcome.packet, outcome.packet.cited \cup {Cite(77, ref)}),
                                 Plain({77}))) : ref \in {"seed", "caught.max", "made-up"}}

Late(clocks) == {[c EXCEPT !.due = 999] : c \in clocks}
Reclocked(packet, clocks) == [packet EXCEPT !.clocks = clocks]
OtherDates(outcome) ==
    {Rerendered(outcome, Stating(outcome.packet, Dates({999}))),
     Rerendered(outcome, Reclocked(outcome.packet, Late(outcome.packet.clocks)))}

Leaked(input, outcome) ==
    {Rerendered(outcome, [outcome.packet EXCEPT !.bodies = {x.body}]) : x \in input.exhibits}

GapDropped(outcome) == {[outcome EXCEPT !.gaps = @ \ {gap}] : gap \in outcome.gaps}

Flipped(input, outcome) ==
    {[outcome EXCEPT !.disposition = IF @ = "PROCEED" THEN "REFUSE" ELSE "PROCEED"]}
    \cup (IF Declared(input.cell) THEN GapDropped(outcome) ELSE {})
    \cup {[outcome EXCEPT !.text = Restated(outcome.text, Plain({77}))]}

Tampered(input, outcome) ==
    (Inflated(outcome) \cup Shadowed(outcome) \cup OtherDates(outcome)
     \cup Leaked(input, outcome) \cup Flipped(input, outcome)) \ {outcome}

\* What only the rerun sees: prose that uses a cited value for something else, a
\* gap or an audit line dropped from the packet, a gap of an undeclared case.
Reworded(outcome) ==
    ({Rerendered(outcome, [outcome.packet EXCEPT !.audit = {}]),
      Rerendered(outcome, [outcome.packet EXCEPT !.gaps = {}])}
     \cup GapDropped(outcome)) \ {outcome}
=============================================================================
