------------------------------- MODULE Exposure -------------------------------
(***************************************************************************)
(* What a run computes of a threat without asking a model: the exposed     *)
(* suppliers (lib/agents/actionops/atlas.ts), the runway                   *)
(* (simulator.ts, lib/pipeline/simulation-math.ts) and the recovery        *)
(* options (recovery.ts).                                                  *)
(*                                                                         *)
(* A supplier is [id, name, country, region, sector, riskTier, lead,       *)
(* backup]; its id is also its place in the order of ids.  Sums are whole  *)
(* dollars; rounding is to the nearest, a half up, as Math.round does.     *)
(***************************************************************************)
EXTENDS ActionOpsScenarios, SequencesExt, FiniteSetsExt

Clamp(n, low, high) == Max({low, Min({n, high})})
Rounded(numerator, divisor) == (2 * numerator + divisor) \div (2 * divisor)

\* The elements of a set by descending score, ties by the smaller key.
Ranked(items, score, key) ==
    LET before(a, b) == score[a] > score[b] \/ (score[a] = score[b] /\ key[a] < key[b])
    IN  [i \in 1..Cardinality(items) |->
            CHOOSE e \in items : Cardinality({f \in items : before(f, e)}) = i - 1]

-----------------------------------------------------------------------------
(* Atlas.                                                                  *)

Sectors ==
    {"SEMICONDUCTORS", "ELECTRONICS", "AUTOMOTIVE", "AEROSPACE_DEFENSE", "PHARMACEUTICALS",
     "MEDICAL_DEVICES", "CHEMICALS", "ENERGY", "METALS_MINING", "INDUSTRIAL_MACHINERY",
     "AGRICULTURE_FOOD", "TEXTILES_APPAREL", "CONSUMER_GOODS", "LOGISTICS", "OTHER_UNMAPPED"}

RiskTierBase == [CRITICAL |-> 55, HIGH |-> 40, MEDIUM |-> 25, LOW |-> 12]
SingleSource(s) == s.backup = None

ExposureScore(s) ==
    RiskTierBase[s.riskTier] + Clamp(s.lead - 30, 0, 30) + (IF SingleSource(s) THEN 12 ELSE 0)

\* Events that keep a site down for months beyond a lead time.
SiteLoss ==
    {"NATURAL_DISASTER", "SUPPLIER_BANKRUPTCY", "QUALITY_RECALL", "CYBER_DISRUPTION",
     "MATERIAL_SHORTAGE_ALLOCATION", "EXPORT_CONTROL"}
RecoveryDays(eventType, s) ==
    s.lead + (IF eventType \in SiteLoss THEN 60 ELSE 0) + (IF SingleSource(s) THEN 14 ELSE 0)

AffectedCountries ==
    [c \in {"Strait of Hormuz", "Strait of Malacca", "Suez Canal"} |->
        CASE c = "Strait of Hormuz" -> {"SA", "AE", "QA", "KW", "BH", "IQ", "IR", "OM"}
          [] c = "Strait of Malacca" -> {"SG", "MY", "ID", "TH", "VN"}
          [] c = "Suez Canal" -> {"IN", "LK", "BD", "PK", "AE", "SA", "OM", "EG", "CN", "VN", "TH"}]

\* What Atlas makes of the chokepoint it is handed: no claim, an unknown one, or
\* the countries it reaches.
Scope(card) ==
    CASE card.chokepoint = None -> [claimed |-> FALSE, known |-> FALSE, countries |-> {}]
      [] card.chokepoint # None /\ card.chokepoint \in DOMAIN AffectedCountries ->
            [claimed |-> TRUE, known |-> TRUE, countries |-> AffectedCountries[card.chokepoint]]
      [] OTHER -> [claimed |-> TRUE, known |-> FALSE, countries |-> {}]

Allows(constraint, value) == constraint = None \/ value \in constraint
MatchSuppliers(suppliers, match) ==
    {s \in suppliers :
        /\ Allows(match.countries, s.country) /\ Allows(match.sectors, s.sector)
        /\ Allows(match.regions, s.region) /\ Allows(match.riskTiers, s.riskTier)}

ResolveSector(offTaxonomy, sector) ==
    IF ~offTaxonomy /\ sector \in Sectors THEN sector ELSE "OTHER_UNMAPPED"

ExposureOf(scenario, card, s) ==
    [supplier |-> s.id, name |-> s.name, country |-> s.country,
     sector |-> ResolveSector(scenario.offTaxonomy, s.sector),
     score |-> ExposureScore(s), singleSource |-> SingleSource(s),
     recoveryDays |-> RecoveryDays(card.eventType, s)]

NoExposure(gap, status) == [exposures |-> <<>>, gaps |-> {gap}, status |-> status]
ExposuresTo(scenario, card, matched) ==
    LET exposed == {ExposureOf(scenario, card, s) : s \in matched}
    IN  [exposures |-> Ranked(exposed, [e \in exposed |-> e.score], [e \in exposed |-> e.supplier]),
         gaps |-> {}, status |-> "PASS"]

\* (mutant) a chokepoint without a scope is not checked
AtlasTrustsUnmapped(scenario, card, suppliers) ==
    LET matched == MatchSuppliers(suppliers, scenario.match)
        scope == Scope(card)
    IN  CASE matched = {} -> NoExposure("no direct exposure", "PASS")
          [] scope.known /\ \E s \in matched : s.country \notin scope.countries ->
                NoExposure("out of scope", "FAIL")
          [] OTHER -> ExposuresTo(scenario, card, matched)

\* The suppliers are the scenario's, the scope is that of the threat as handed in:
\* where they disagree, or the scope is unknown, nothing is exposed.
RunAtlas(scenario, card, suppliers) ==
    LET matched == MatchSuppliers(suppliers, scenario.match)
        scope == Scope(card)
    IN  CASE matched = {} -> NoExposure("no direct exposure", "PASS")
          [] matched # {} /\ scope.claimed /\ ~scope.known -> NoExposure("unmapped chokepoint", "FAIL")
          [] scope.known /\ \E s \in matched : s.country \notin scope.countries ->
                NoExposure("out of scope", "FAIL")
          [] OTHER -> ExposuresTo(scenario, card, matched)

-----------------------------------------------------------------------------
(* Simulator.                                                              *)

CoverDays(position) == position.onHand \div position.dailyUse

\* (mutant) the loss clock starts on day 0
ExposedFromDayZero(days, duration, buffer) == Min({days, duration})

\* The days of the disruption within a horizon that fall after the buffer is gone.
ExposedDays(days, duration, buffer) == Max({0, Min({days, duration}) - buffer})

\* affected is how many suppliers each lose dailyRevenue a day.
RecomputeSimulation(params, affected) ==
    LET covers == {CoverDays(params.inventory[i]) : i \in DOMAIN params.inventory}
        buffer == IF covers = {} THEN 0 ELSE Min(covers)
        revenue(days) == affected * params.dailyRevenue * ExposedDays(days, params.durationDays, buffer)
    IN  [horizons |->
            [i \in DOMAIN params.horizonDays |->
                [days |-> params.horizonDays[i],
                 revenue |-> revenue(params.horizonDays[i]),
                 margin |-> Rounded(revenue(params.horizonDays[i]) * params.marginPct, 100)]],
         runouts |-> [i \in DOMAIN params.inventory |-> CoverDays(params.inventory[i])],
         survivalDays |-> IF covers = {} THEN None ELSE Min(covers)]

RunSimulator(scenario, exposures) ==
    [simulation |-> IF scenario.simulation = None THEN None
                    ELSE RecomputeSimulation(scenario.simulation, Len(exposures)),
     gaps |-> scenario.gaps \cup IF scenario.simulation = None THEN {"no inventory"} ELSE {}]

-----------------------------------------------------------------------------
(* Recovery options.                                                       *)

ReversibilityBonus == [HIGH |-> 20, MEDIUM |-> 10, LOW |-> 0]

\* (mutant) the cost is weighed against nothing
ScoreUnpenalised(risk, speed, reversibility, cost, peak) ==
    Rounded(6 * risk + 10 * speed + 10 * ReversibilityBonus[reversibility], 10)

ScoreOption(risk, speed, reversibility, cost, peak) ==
    LET penalty == Min({20, Rounded(20 * cost, Max({peak, 1}))})
    IN  Clamp(Rounded(6 * risk + 10 * Min({speed, 20})
                        + 10 * ReversibilityBonus[reversibility] - 10 * penalty, 10), 0, 100)

\* costPct of the base; speedTenths of the days it shortens.
Option(id, type, costPct, base, peak, speedTenths, days, risk, reversibility, lanes, approval) ==
    LET cost == Rounded(base * costPct, 100)
        speed == Max({1, Rounded(days * speedTenths, 10)})
    IN  [id |-> id, type |-> type, cost |-> cost, speed |-> speed, lanes |-> lanes,
         reversibility |-> reversibility, approvalRequired |-> approval,
         score |-> ScoreOption(risk, speed, reversibility, cost, peak)]

\* The first three of the exposures at these places.
FirstThree(exposures, places) ==
    {exposures[i].supplier : i \in {i \in places : Cardinality({j \in places : j < i}) < 3}}

BuildRecoveryOptions(exposures, simulation) ==
    LET revenues == IF simulation = None THEN {}
                    ELSE {simulation.horizons[i].revenue : i \in DOMAIN simulation.horizons}
        peak == Max(revenues \cup {0})
        base == IF peak > 0 THEN peak ELSE 50000
        worst == Max({exposures[i].recoveryDays : i \in DOMAIN exposures} \cup {0})
        single == {i \in DOMAIN exposures : exposures[i].singleSource}
        covered == DOMAIN exposures \ single
        top == FirstThree(exposures, DOMAIN exposures)
        buffer == IF simulation = None \/ simulation.survivalDays = None THEN 0
                  ELSE simulation.survivalDays
        expedite == Option(2, "EXPEDITE", 15, base, peak, 4, worst, 50, "HIGH", top, TRUE)
        reallocate == Option(3, "REALLOCATE", 3, base, peak, 3, buffer, 35, "HIGH", top, FALSE)
        substitute == Option(4, "SUBSTITUTE", 10, base, peak, 5, worst, 45, "MEDIUM",
                             FirstThree(exposures, covered), TRUE)
        escalate == Option(1, "SUPPLIER_ESCALATION", 5, base, peak, 2, worst, 30, "LOW",
                           FirstThree(exposures, single), TRUE)
        options == {expedite} \cup (IF simulation = None THEN {} ELSE {reallocate})
                   \cup (IF covered = {} THEN {} ELSE {substitute})
                   \cup (IF single = {} THEN {} ELSE {escalate})
    IN  IF exposures = <<>> THEN <<>>
        ELSE Ranked(options, [o \in options |-> o.score], [o \in options |-> o.id])
=============================================================================
