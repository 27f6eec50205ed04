-------------------------- MODULE ActionOpsScenarios --------------------------
(***************************************************************************)
(* The eight scenarios a run can be asked for                              *)
(* (lib/data/actionops-scenarios.ts): the threat the deterministic         *)
(* Sentinel emits, the rule that selects the suppliers, the replay signals *)
(* and the parameters of the runway.  A confidence is in hundredths, a     *)
(* margin too; a URL is a name.                                            *)
(***************************************************************************)
EXTENDS Integers, Sequences, FiniteSets

CONSTANT None

\* An absent constraint of a match rule is any.
AnySupplier == [countries |-> None, sectors |-> None, regions |-> None, riskTiers |-> None]

Threat(type, country, chokepoint, urls, confidence) ==
    [eventType |-> type, country |-> country, chokepoint |-> chokepoint,
     evidence |-> urls, confidence |-> confidence]

\* A replayed signal: its source, its URL and the country it names.
ReplaySignal(source, url, country) == [source |-> source, url |-> url, country |-> country]

Runway(duration, horizons, daily, onHand, dailyUse, marginPct) ==
    [durationDays |-> duration, horizonDays |-> horizons, dailyRevenue |-> daily,
     inventory |-> <<[onHand |-> onHand, dailyUse |-> dailyUse]>>, marginPct |-> marginPct]

Scenario(threat, match, signals, simulation, gaps) ==
    [threat |-> threat, match |-> match, signals |-> signals, simulation |-> simulation,
     gaps |-> gaps, offTaxonomy |-> FALSE]

Hormuz ==
    Scenario(Threat("CHOKEPOINT_CLOSURE", "OM", "Strait of Hormuz",
                    {"gdelt-hormuz", "eia-hormuz", "reuters-hormuz"}, 82),
             [AnySupplier EXCEPT !.countries = {"SA", "AE", "QA", "KW"}],
             {ReplaySignal("GDELT DOC 2.0", "gdelt-hormuz", "OM"),
              ReplaySignal("EIA Today in Energy", "eia-hormuz", None),
              ReplaySignal("Reuters (via GDELT)", "reuters-hormuz", "AE")},
             Runway(30, <<7, 30, 90>>, 10000, 1000, 40, 34), {})

Tariff ==
    Scenario(Threat("TARIFF_DEADLINE", "CN", None, {"ustr-tariff", "gdelt-tariff"}, 70),
             [AnySupplier EXCEPT !.countries = {"CN"}, !.sectors = {"SEMICONDUCTORS", "ELECTRONICS"}],
             {ReplaySignal("USTR", "ustr-tariff", "CN"),
              ReplaySignal("GDELT DOC 2.0", "gdelt-tariff", "CN")},
             None, {"no inventory"})

RedSea ==
    Scenario(Threat("ROUTE_DIVERSION", "IN", None, {"gdelt-redsea", "lloyds-redsea"}, 68),
             [AnySupplier EXCEPT !.countries = {"IN"}],
             {ReplaySignal("GDELT DOC 2.0", "gdelt-redsea", None),
              ReplaySignal("Lloyd's List (via GDELT)", "lloyds-redsea", "IN")},
             Runway(60, <<7, 30, 90>>, 8000, 900, 30, 42), {})

Hurricane ==
    Scenario(Threat("NATURAL_DISASTER", "US", None, {"nws-hurricane"}, 75),
             [AnySupplier EXCEPT !.regions = {"Texas Gulf Coast"}, !.sectors = {"ENERGY"}],
             {ReplaySignal("National Weather Service", "nws-hurricane", "US")},
             Runway(14, <<7, 30>>, 25000, 300, 30, 46), {"single-source plant"})

Bankruptcy ==
    Scenario(Threat("SUPPLIER_BANKRUPTCY", "IN", None, {"gdelt-bankruptcy"}, 66),
             [countries |-> {"IN"}, sectors |-> {"PHARMACEUTICALS"}, regions |-> None,
              riskTiers |-> {"CRITICAL"}],
             {ReplaySignal("GDELT DOC 2.0", "gdelt-bankruptcy", "IN")},
             None, {"no inventory"})

ZeroExposure ==
    Scenario(Threat("PORT_DISRUPTION", "PE", None, {"gdelt-callao"}, 60),
             [AnySupplier EXCEPT !.countries = {"PE"}],
             {ReplaySignal("GDELT DOC 2.0", "gdelt-callao", "PE")},
             None, {"no direct exposure"})

OffTaxonomy ==
    [Scenario(Threat("SOLAR_FLARE_GRID_EVENT", None, None, {"swpc-flare"}, 50),
              [AnySupplier EXCEPT !.regions = {"Arizona Sun Corridor"}],
              {ReplaySignal("NOAA SWPC", "swpc-flare", None)},
              None, {"off taxonomy"})
     EXCEPT !.offTaxonomy = TRUE]

ThinEvidence ==
    Scenario(Threat("PORT_DISRUPTION", "US", None, {"gdelt-rumor"}, 35),
             [AnySupplier EXCEPT !.countries = {"US"}, !.sectors = {"LOGISTICS"}],
             {ReplaySignal("GDELT DOC 2.0", "gdelt-rumor", "US")},
             None, {"single unverified source"})

ActionOpsScenarios ==
    [hormuz |-> Hormuz, tariff |-> Tariff, redsea |-> RedSea, hurricane |-> Hurricane,
     bankruptcy |-> Bankruptcy, zero |-> ZeroExposure, offtaxonomy |-> OffTaxonomy,
     thin |-> ThinEvidence]
=============================================================================
