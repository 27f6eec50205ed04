----------------------------- MODULE MCPacketRun -----------------------------
(***************************************************************************)
(* A small base of suppliers, one for each case of matching and scoring,   *)
(* and six in the Gulf so that one is past the cap on drafts; a live fetch *)
(* that returns an unrelated article too; and, of the answers a model may  *)
(* give, one for each thing a firewall looks at.                           *)
(***************************************************************************)
EXTENDS PacketRun

LOCAL Supplier(id, country, region, sector, tier, lead, backup) ==
    [id |-> id, name |-> id, country |-> country, region |-> region, sector |-> sector,
     riskTier |-> tier, lead |-> lead, backup |-> backup]

SeedSuppliers ==
    {Supplier(1, "SA", "Gulf", "ENERGY", "CRITICAL", 75, None),
     Supplier(2, "AE", "Gulf", "CHEMICALS", "HIGH", 30, 1),
     Supplier(3, "QA", "Gulf", "ENERGY", "HIGH", 45, None),
     Supplier(4, "KW", "Gulf", "CHEMICALS", "LOW", 20, 2),
     Supplier(5, "SA", "Gulf", "CHEMICALS", "HIGH", 30, 2),
     Supplier(6, "AE", "Gulf", "ENERGY", "LOW", 20, 1),
     Supplier(7, "IN", "Gujarat", "PHARMACEUTICALS", "CRITICAL", 60, None),
     Supplier(8, "IN", "Tamil Nadu", "TEXTILES_APPAREL", "MEDIUM", 25, 7),
     Supplier(9, "CN", "Guangdong", "SEMICONDUCTORS", "HIGH", 90, None),
     Supplier(10, "CN", "Guangdong", None, "LOW", 10, 9),
     Supplier(11, "US", "Texas Gulf Coast", "ENERGY", "HIGH", 120, 1),
     Supplier(12, "US", "Ohio", "LOGISTICS", "MEDIUM", 10, None),
     Supplier(13, "US", "Arizona Sun Corridor", "SEMICONDUCTORS", "HIGH", 60, 9)}

FiguresInName(supplier) == IF supplier = 1 THEN {3} ELSE {}

AllScenarioIds == DOMAIN ActionOpsScenarios

Fetched1(name) ==
    Replayed(name)
    \cup {[source |-> "Harbour Gazette", url |-> "gazette", country |-> "US", age |-> 30,
           summary |-> [Prose EXCEPT !.raw = TRUE, !.links = {"elsewhere"}]]}

\* Nothing set, all of it, all but one, and all but the pair of the optional header.
AnyOfEnv ==
    LET all == HeaderPair \cup {"SLACK_BOT_TOKEN", "SLACK_ALERT_CHANNEL", "RESEND_API_KEY",
                                "RESEND_FROM_EMAIL", "RESEND_ALERT_EMAIL", "N8N_ERP_WEBHOOK_URL"}
    IN  {{}, all, all \ HeaderPair} \cup {all \ {v} : v \in all}
AnyAnswer == [status : {"ok", "error", "none"}, claim : BOOLEAN, ref : BOOLEAN]

ThreatNames ==
    {"clean", "numeral", "odd", "link", "beyond", "blank", "offlist", "narrow", "wide", "misplaced",
     "unplaced", "invented", "missing"}
PlaybookNames == {"clean", "numeral", "odd", "link", "raw", "blank", "offlist", "missing", "named"}
DraftNames ==
    {"clean", "numeral", "odd", "link", "beyond", "raw", "blank", "offlist", "wide", "invented",
     "score", "unit", "figure", "stale", "named", "missing", "seventh", "risk", "twice"}

LOCAL Marked(answer) ==
    CASE answer = "numeral" -> [Prose EXCEPT !.figures = {77}]
      [] answer = "odd" -> [Prose EXCEPT !.odd = TRUE]
      [] answer = "link" -> [Prose EXCEPT !.links = {"elsewhere"}]
      [] answer = "beyond" -> [Prose EXCEPT !.beyond = {"elsewhere"}]
      [] answer = "raw" -> [Prose EXCEPT !.raw = TRUE]
      [] answer = "blank" -> [Prose EXCEPT !.blank = TRUE]
      [] answer = "named" -> [Prose EXCEPT !.names = {1}]
      [] answer = "risk" -> [Prose EXCEPT !.risk = TRUE]
      [] OTHER -> Prose

Threats(answer, name) ==
    LET given == ActionOpsScenarios[name].threat
    IN  [eventType |-> IF answer = "invented" THEN "ALIEN_LANDING" ELSE given.eventType,
         country |-> IF answer = "misplaced" THEN "PE" ELSE given.country,
         chokepoint |-> CASE answer = "misplaced" -> "Suez Canal"
                          [] answer = "unplaced" -> None
                          [] answer = "wide" /\ given.chokepoint # None -> "the Strait of Hormuz"
                          [] OTHER -> given.chokepoint,
         summary |-> Marked(answer),
         evidence |-> CASE answer = "offlist" -> given.evidence \cup {"elsewhere"}
                        [] answer = "narrow" -> {CHOOSE u \in given.evidence : TRUE}
                        [] answer = "wide" -> given.evidence \cup {"gazette"}
                        [] answer = "missing" -> {}
                        [] OTHER -> given.evidence,
         confidence |-> CASE answer = "wide" -> 400 [] answer = "invented" -> 20
                          [] answer = "narrow" -> None [] OTHER -> 90]

Playbooks(answer, exposures) ==
    {[role |-> "Operations", summary |-> Prose, steps |-> {Prose, Marked(answer)},
      grounded |-> CASE answer = "offlist" -> {99} [] answer = "missing" -> {}
                     [] OTHER -> FirstThree(exposures, DOMAIN exposures)]}

LOCAL Draft(answer, i, exposures, simulation) ==
    LET e == exposures[i]
        window == WindowDaysOf(simulation)
        body(figures) == [Marked(answer) EXCEPT !.figures = @ \cup figures]
        cites(value, unit, path) ==
            [supplier |-> e.supplier, subject |-> Prose, body |-> body({value}),
             claims |-> {Claim(value, unit, path)}]
    IN  CASE answer = "score" -> cites(e.score, "score", Path("exposureResults", i - 1, "exposureScore"))
          [] answer = "unit" /\ window # None -> cites(window, "weeks", WindowPath)
          [] answer = "wide" /\ window # None ->
                cites(simulation.horizons[2].revenue, "USD", Path("simulation", 1, "revenue"))
          [] answer = "figure" /\ window # None -> cites(window + 1, "days", WindowPath)
          [] answer = "clean" /\ window # None -> cites(window, "days", WindowPath)
          [] answer = "stale" -> cites(30, "minutes", Path("publicSignals", None, "gazette"))
          [] answer = "invented" -> cites(2, "items", Path("actionItems", 0, "count"))
          [] OTHER -> [supplier |-> e.supplier, subject |-> Prose, body |-> body({}), claims |-> {}]

Drafts(answer, exposures, simulation) ==
    LET all == [i \in DOMAIN exposures |-> Draft(answer, i, exposures, simulation)]
    IN  CASE answer = "missing" -> Tail(all)
          [] answer = "twice" -> <<all[1]>> \o all
          [] answer = "offlist" -> <<[all[1] EXCEPT !.supplier = 99]>> \o Tail(all)
          [] answer = "seventh" -> all \o <<[all[1] EXCEPT !.supplier = 99]>>
          [] OTHER -> all
=============================================================================
