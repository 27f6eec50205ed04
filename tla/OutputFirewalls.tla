--------------------------- MODULE OutputFirewalls ---------------------------
(***************************************************************************)
(* What a model's answer must pass before any of it becomes part of a      *)
(* packet: the firewalls of Sentinel, Strategist and Dispatcher            *)
(* (lib/agents/actionops), the citation check they share with the          *)
(* gatekeeper (lib/pipeline/citation-check.ts), and the rule-based output  *)
(* a rejected answer is replaced by.                                       *)
(*                                                                         *)
(* A text is what the checks can tell of it: its links and those past the  *)
(* length cap, its plain figures, whether it holds a numeral form nobody   *)
(* can parse, the suppliers it names, whether it discloses a risk reading, *)
(* whether it repeats untrusted text, and whether nothing of it is left    *)
(* once sanitized.                                                         *)
(***************************************************************************)
EXTENDS Exposure

CONSTANT NameFigures(_)      \* the figures in a supplier's name; {} when it has no letter

Prose == [links |-> {}, beyond |-> {}, figures |-> {}, odd |-> FALSE, names |-> {},
          risk |-> FALSE, raw |-> FALSE, blank |-> FALSE]

SanitizeText(text) == [text EXCEPT !.beyond = {}]
FindLinks(text) == text.links \cup text.beyond

\* A URL is the name of a page; these are the ones no browser should follow.
UnsafeUrls == {"javascript", "data"}
IsSafeHttpUrl(url) == url \notin UnsafeUrls

-----------------------------------------------------------------------------
(* Source paths and citations.                                             *)

Path(root, index, leaf) == [root |-> root, index |-> index, leaf |-> leaf]
Claim(value, unit, path) == [value |-> value, unit |-> unit, path |-> path]

CitationInputRoots == {"threatCard", "publicSignals", "exposureResults", "simulation"}
FieldUnits ==
    [revenue |-> "USD", margin |-> "USD", days |-> "days", survivalDays |-> "days",
     exposureScore |-> "score", confidence |-> "ratio"]

\* The values a path of each root can reach; indexes count from 0, a signal goes by its
\* URL, and its age in minutes is its one number.
Reaches(root, path) ==
    CASE path.root = "exposureResults" ->
            {[path |-> Path("exposureResults", i - 1, leaf),
              value |-> IF leaf = "exposureScore" THEN root.exposures[i].score
                        ELSE root.exposures[i].recoveryDays]
                : i \in DOMAIN root.exposures, leaf \in {"exposureScore", "recoveryDays"}}
      [] path.root = "simulation" /\ root.simulation # None ->
            {[path |-> Path("simulation", i - 1, leaf), value |-> root.simulation.horizons[i][leaf]]
                : i \in DOMAIN root.simulation.horizons, leaf \in {"days", "revenue", "margin"}}
            \cup {[path |-> Path("simulation", None, "survivalDays"),
                   value |-> root.simulation.survivalDays]}
      [] path.root = "threatCard" ->
            {[path |-> Path("threatCard", None, "confidence"), value |-> root.card.confidence]}
      [] path.root = "publicSignals" ->
            {[path |-> Path("publicSignals", None, s.url), value |-> s.age] : s \in root.signals}
      [] OTHER -> {}
ResolveSourcePath(root, path) == {r.value : r \in {r \in Reaches(root, path) : r.path = path}}

\* (mutant) only the value is compared, not what it measures
ClaimHoldsByValue(root, message, claim) == claim.value \in ResolveSourcePath(root, claim.path)

\* A claim that is no number is not compared.
ClaimHolds(root, message, claim) ==
    LET found == ResolveSourcePath(root, claim.path)
    IN  /\ claim.path.root \in CitationInputRoots
        /\ found # {}
        /\ claim.path.leaf = "exposureScore" =>
                root.exposures[claim.path.index + 1].supplier = message.supplier
        /\ claim.value # None => found = {claim.value}
        /\ claim.path.leaf \in DOMAIN FieldUnits => claim.unit = FieldUnits[claim.path.leaf]

\* The values that may be written: those of the claims whose path leads somewhere.
ClaimValues(root, message) ==
    {c.value : c \in {c \in message.claims :
                        /\ c.value # None
                        /\ c.path.root \in CitationInputRoots
                        /\ ResolveSourcePath(root, c.path) # {}}}

\* The message's own supplier's name is blanked out before the figures are read.
FiguresOf(text, own) == text.figures \cup UNION {NameFigures(s) : s \in text.names \ own}

\* (mutant) the claims are checked, the prose is not
CitedForward(root, message) == \A c \in message.claims : ClaimHolds(root, message, c)

Cited(root, message) ==
    /\ \A c \in message.claims : ClaimHolds(root, message, c)
    /\ \A text \in {message.subject, message.body} :
            /\ ~text.odd
            /\ FiguresOf(text, {message.supplier}) \subseteq ClaimValues(root, message)

CollectCitationFailures(root) == {m \in root.messages : ~Cited(root, m)}

CollectPlaybookNumeralFailures(playbooks) ==
    {p \in playbooks :
        \E text \in {p.summary} \cup p.steps : text.odd \/ FiguresOf(text, {}) # {}}

-----------------------------------------------------------------------------
(* Sentinel.                                                               *)

ThreatEventTypes ==
    {"CHOKEPOINT_CLOSURE", "ROUTE_DIVERSION", "PORT_DISRUPTION", "TARIFF_DEADLINE",
     "SEVERE_WEATHER", "GEOPOLITICAL_CONFLICT", "LABOR_DISRUPTION", "OTHER_UNMAPPED"} \cup SiteLoss
ResolveEventType(raw) == IF raw \in ThreatEventTypes THEN raw ELSE "OTHER_UNMAPPED"

CountryCodes == {"OM", "AE", "SA", "QA", "KW", "CN", "IN", "US", "PE"}

\* The spellings that match a chokepoint: with an article, as a part, as part of more.
Spellings(known) ==
    {known} \cup IF known = "Strait of Hormuz"
                 THEN {"the Strait of Hormuz", "Hormuz", "Strait of Hormuz and Gulf of Oman"} ELSE {}

Accept(value) == [ok |-> TRUE, value |-> value]
Reject == [ok |-> FALSE]

EvidenceAllowlist(scenario, signals) ==
    scenario.threat.evidence \cup {s.url : s \in signals}

\* (mutant) off-list evidence is dropped, and what is left is kept
ThreatSalvaged(raw, scenario, signals) ==
    Accept([eventType |-> ResolveEventType(raw.eventType), country |-> raw.country,
            chokepoint |-> scenario.threat.chokepoint, summary |-> raw.summary,
            evidence |-> raw.evidence, confidence |-> scenario.threat.confidence])

ApplyThreatFirewall(raw, scenario, signals) ==
    LET allowed == EvidenceAllowlist(scenario, signals)
        known == scenario.threat.chokepoint
        summary == SanitizeText(raw.summary)
        grounded ==
            /\ raw.evidence # {}
            /\ \A url \in raw.evidence \cup FindLinks(summary) : IsSafeHttpUrl(url) /\ url \in allowed
        placed ==
            /\ raw.chokepoint # None /\ known # None => raw.chokepoint \in Spellings(known)
            /\ raw.chokepoint = None => ResolveEventType(raw.eventType) # "CHOKEPOINT_CLOSURE"
    IN  IF grounded /\ placed /\ ~summary.blank /\ ~summary.odd /\ FiguresOf(summary, {}) = {}
        THEN Accept(
            [eventType |-> ResolveEventType(raw.eventType),
             country |-> IF raw.country \in CountryCodes THEN raw.country ELSE None,
             chokepoint |-> IF raw.chokepoint # None THEN known ELSE None,
             summary |-> summary, evidence |-> raw.evidence,
             confidence |-> IF raw.confidence = None THEN scenario.threat.confidence
                            ELSE Max({0, Min({100, raw.confidence})})])
        ELSE Reject

DeterministicThreatCard(scenario) ==
    [eventType |-> scenario.threat.eventType, country |-> scenario.threat.country,
     chokepoint |-> scenario.threat.chokepoint, summary |-> Prose,
     evidence |-> scenario.threat.evidence, confidence |-> scenario.threat.confidence]

-----------------------------------------------------------------------------
(* Strategist.                                                             *)

Ids(exposures) == {exposures[i].supplier : i \in DOMAIN exposures}

DeterministicPlaybooks(exposures) ==
    IF exposures = <<>> THEN {}
    ELSE {[role |-> role, summary |-> Prose, steps |-> {Prose}, grounded |-> FirstThree(exposures, DOMAIN exposures)]
            : role \in {"Procurement", "Operations", "Finance"}}

SanitizedPlaybook(p) ==
    [role |-> p.role, summary |-> SanitizeText(p.summary),
     steps |-> {SanitizeText(t) : t \in {t \in p.steps : ~t.blank}}, grounded |-> p.grounded]

\* (mutant) the numerals of a plan are left to the grader
PlaybooksUnscanned(raw, exposures) ==
    LET playbooks == {SanitizedPlaybook(p) : p \in raw}
    IN  IF \A p \in playbooks : /\ p.role # None /\ ~p.summary.blank
                                /\ p.steps # {} /\ p.grounded # {}
                                /\ p.grounded \subseteq Ids(exposures)
        THEN Accept(playbooks) ELSE Reject

\* One bad playbook rejects the whole answer.
ApplyPlaybookFirewall(raw, exposures) ==
    LET playbooks == {SanitizedPlaybook(p) : p \in raw}
    IN  IF /\ \A p \in playbooks : /\ p.role # None /\ ~p.summary.blank
                                   /\ p.steps # {} /\ p.grounded # {}
                                   /\ p.grounded \subseteq Ids(exposures)
           /\ CollectPlaybookNumeralFailures(playbooks) = {}
        THEN Accept(playbooks) ELSE Reject

-----------------------------------------------------------------------------
(* Dispatcher.                                                             *)

MaxDrafts == 5
TopExposed(exposures) == Ids(SubSeq(exposures, 1, Min({MaxDrafts, Len(exposures)})))

WindowPath == Path("simulation", 0, "days")
WindowDaysOf(simulation) ==
    IF simulation = None \/ simulation.horizons = <<>> THEN None ELSE simulation.horizons[1].days

DeterministicDrafts(exposures, simulation) ==
    LET window == WindowDaysOf(simulation)
    IN  {[supplier |-> s, subject |-> Prose,
          body |-> IF window = None THEN Prose ELSE [Prose EXCEPT !.figures = {window}],
          claims |-> IF window = None THEN {} ELSE {Claim(window, "days", WindowPath)}]
            : s \in TopExposed(exposures)}

\* (mutant) the score is a citation like any other
DraftIsDiscreet(message) ==
    /\ ~message.body.blank
    /\ \A text \in {message.subject, message.body} : FindLinks(text) = {} /\ ~text.risk

\* A draft links to nothing, tells no risk reading and cites no internal score.
DraftIsSafe(message) ==
    /\ ~message.body.blank
    /\ \A text \in {message.subject, message.body} : FindLinks(text) = {} /\ ~text.risk
    /\ \A c \in message.claims : c.path.leaf # "exposureScore"

SanitizedDraft(m) ==
    [supplier |-> m.supplier, subject |-> SanitizeText(m.subject), body |-> SanitizeText(m.body),
     claims |-> m.claims]

\* (mutant) whoever the model wrote to is who is written to
RecipientsChosen(drafts, exposures) == {d.supplier : d \in drafts} \subseteq Ids(exposures)

\* Only exposed suppliers, each of the most exposed among them.
RecipientsCovered(drafts, exposures) ==
    /\ {d.supplier : d \in drafts} \subseteq Ids(exposures)
    /\ TopExposed(exposures) \subseteq {d.supplier : d \in drafts}

\* raw is the sequence of drafts; the ones past the cap are never looked at.
ApplyDispatcherFirewall(raw, root) ==
    LET kept == SubSeq(raw, 1, Min({MaxDrafts, Len(raw)}))
        drafts == {SanitizedDraft(kept[i]) : i \in DOMAIN kept}
    IN  IF /\ RecipientsCovered(drafts, root.exposures)
           /\ \A i, j \in DOMAIN kept : kept[i].supplier = kept[j].supplier => i = j
           /\ \A d \in drafts : DraftIsSafe(d)
           /\ CollectCitationFailures([root EXCEPT !.messages = drafts]) = {}
        THEN Accept(drafts) ELSE Reject

ActionItems(exposures) ==
    IF exposures = <<>> THEN {}
    ELSE {[id |-> id, title |-> Prose] : id \in {"AI-CONTINGENCY", "AI-REVIEW"}}

-----------------------------------------------------------------------------
(* The gatekeeper.                                                         *)

RunActionOpsGatekeeper(packet, known) ==
    LET broken ==
            \/ \E run \in packet.runs : run.validation = "FAIL"
            \/ ~Ids(packet.exposures) \subseteq known
            \/ \E m \in packet.messages : m.supplier \notin Ids(packet.exposures)
            \/ CollectCitationFailures(packet) # {}
    IN  CASE broken -> "BLOCKED"
          [] ~broken /\ packet.card.evidence = {} -> "WARN"
          [] OTHER -> "PASS"
=============================================================================
