---------------------------- MODULE DecisionGates ----------------------------
(***************************************************************************)
(* The deterministic code that decides whether a run acts or refuses: the  *)
(* Verifier's checks, the cap on a live confidence, decideRecommendation,  *)
(* the Skeptic gate, the gatekeeper, the packet's effective mode and the   *)
(* schema that admits the packet.  All of it is pure; ActionOpsRun calls   *)
(* it where lib/agents/actionops/{index,investigator}.ts do.               *)
(*                                                                         *)
(* A confidence is a number of hundredths.  A signal stands for its URL.   *)
(***************************************************************************)
EXTENDS Integers, FiniteSets

CONSTANTS
    Signals,       \* the signals a run may fetch
    Outlet,        \* [Signals -> outlet label or Blank]
    Origin,        \* [Signals -> country or NoCountry]: what the label resolves to
    Blank,         \* a source label that is empty once trimmed
    NoCountry,     \* no country, or one that resolves to no ISO code
    Floor,         \* ACTION_CONFIDENCE_FLOOR
    CapGap         \* how far below the floor the live cap lies

ASSUME GatesAssumption ==
    /\ IsFiniteSet(Signals)
    /\ Floor \in Nat /\ CapGap \in 1..Floor

Geo == {"AGREES", "UNCONFIRMED", "CONFLICT"}
Exposure == {"NONE", "UNMAPPED", "REAL"}
Recommendation == {"ACT", "NO_ACTION"}
Outcome == {"ACCEPTED", "ANNOTATED", "VETOED"}
Gap == {"corroboration", "confirmation", "review"}
Mode == {"DETERMINISTIC_RULES", "LIVE_AI", "FAILED_TO_FALLBACK"}
Checks == [sources: Nat, corroborated: BOOLEAN, geo: Geo]
Verdict == [accepted: BOOLEAN, errored: BOOLEAN]
Run == [mode: Mode, pass: BOOLEAN, cost: Nat]

-----------------------------------------------------------------------------
(* The Verifier: independent outlets and geography, never raw signals.     *)

\* (mutant) a blank label counts as an outlet
OutletsWithBlank(signals) == {Outlet[s] : s \in signals}

Outlets(signals) == {Outlet[s] : s \in signals} \ {Blank}

GeoStatus(signals, country) ==
    LET seen == {Origin[s] : s \in signals} \ {NoCountry}
    IN  CASE country = NoCountry \/ seen = {} -> "UNCONFIRMED"
          [] country \in seen -> "AGREES"
          [] OTHER -> "CONFLICT"

Verify(signals, card) ==
    LET count == Cardinality(Outlets(signals))
    IN  [sources |-> count, corroborated |-> count >= 2,
         geo |-> GeoStatus(signals, card.country)]

-----------------------------------------------------------------------------
(* Act or refuse.                                                          *)

\* (mutant) the half-applied fix: no cap
Uncapped(card, live, corroborated) == card

CapUncorroborated(card, live, corroborated) ==
    IF live /\ ~corroborated /\ card.confidence >= Floor
    THEN [card EXCEPT !.confidence = Floor - CapGap]
    ELSE card

Actionable(exposure) == exposure = "REAL"

Refuses(corroborated, confidence, exposure) ==
    ~corroborated /\ confidence < Floor /\ Actionable(exposure)

Decide(corroborated, confidence, exposure) ==
    IF Refuses(corroborated, confidence, exposure)
    THEN [recommendation |-> "NO_ACTION",
          missing |-> {"corroboration", "confirmation"}]
    ELSE [recommendation |-> "ACT", missing |-> {}]

\* (mutant) an exposure in the right place is enough
StrongByPlace(checks, confidence, exposure) ==
    Actionable(exposure) /\ checks.geo # "CONFLICT"

Strong(checks, confidence, exposure) ==
    /\ checks.corroborated
    /\ confidence >= Floor
    /\ Actionable(exposure)
    /\ checks.geo # "CONFLICT"

Veto(base) ==
    [recommendation |-> "NO_ACTION", missing |-> base.missing \cup {"review"},
     outcome |-> "VETOED"]

Keep(base, outcome) ==
    [recommendation |-> base.recommendation, missing |-> base.missing,
     outcome |-> outcome]

\* (mutant) a broken critic counts as a rejection
GateByAcceptance(base, verdict, strong) ==
    CASE verdict.accepted -> Keep(base, "ACCEPTED")
      [] ~verdict.accepted /\ strong -> Keep(base, "ANNOTATED")
      [] OTHER -> Veto(base)

\* A critic that broke vetoes before anything else is looked at.
ApplySkepticGate(base, verdict, strong) ==
    CASE verdict.errored -> Veto(base)
      [] ~verdict.errored /\ verdict.accepted -> Keep(base, "ACCEPTED")
      [] ~verdict.errored /\ ~verdict.accepted /\ strong -> Keep(base, "ANNOTATED")
      [] OTHER -> Veto(base)

-----------------------------------------------------------------------------
(* What is done with the runs and the decision.                            *)

\* (mutant) an agent's failure is only displayed
ClearsByCitations(runs, citationsHold) == citationsHold

\* approvedForHumanReview: every agent run passed, and the drafts' citations hold.
GatekeeperClears(runs, citationsHold) ==
    /\ \A run \in runs : run.pass
    /\ citationsHold

\* (mutant) a live success outranks a degraded run
LiveFirst(modes) ==
    CASE "LIVE_AI" \in modes -> "LIVE_AI"
      [] "FAILED_TO_FALLBACK" \in modes /\ "LIVE_AI" \notin modes -> "FAILED_TO_FALLBACK"
      [] OTHER -> "DETERMINISTIC_RULES"

EffectiveMode(modes) ==
    CASE "FAILED_TO_FALLBACK" \in modes -> "FAILED_TO_FALLBACK"
      [] "LIVE_AI" \in modes /\ "FAILED_TO_FALLBACK" \notin modes -> "LIVE_AI"
      [] OTHER -> "DETERMINISTIC_RULES"

\* The refinements of DecisionPacketSchema: a refusal withholds every outbound
\* part and names a gap, and the Skeptic's outcome fits the recommendation.
SchemaAdmits(decision, outbound) ==
    /\ decision.recommendation = "NO_ACTION" => ~outbound /\ decision.missing # {}
    /\ decision.outcome = "ANNOTATED" => decision.recommendation = "ACT"
    /\ decision.outcome = "VETOED" => decision.recommendation = "NO_ACTION"
=============================================================================
