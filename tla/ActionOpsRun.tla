----------------------------- MODULE ActionOpsRun -----------------------------
(***************************************************************************)
(* One run of the agents: runActionOpsAgents (lib/agents/actionops/        *)
(* index.ts), either the fixed waterfall or the Investigator loop          *)
(* (investigator.ts, tools.ts), up to the packet of build-packet.ts.       *)
(*                                                                         *)
(* What a model answers is a choice: any threat card the firewall lets     *)
(* through, a slip the firewall rejects, a failed call, any tool calls in  *)
(* any order.  The rest is the code's.  Money is in units of which a call  *)
(* costs a few; a call never costs more than its estimate, which the cap   *)
(* on output tokens and the priced input are there to guarantee.           *)
(***************************************************************************)
EXTENDS DecisionGates, FiniteSetsExt

CONSTANTS
    Scenarios,     \* [match, evidence, confidence, country, chokepoint, inScope]
    Fetches,       \* the sets of signals a run may start from
    Routes,        \* subset of {"LOOP", "WATERFALL"}: ENABLE_AGENT_LOOP on or off
    Confidences,   \* what a live Sentinel may claim
    Countries,     \* what a live Sentinel may name
    Cap,           \* DEFAULT_BUDGET_CAP_USD
    Estimate,      \* estimateLiveCallCostUsd of the Gemini model
    CriticEstimate,\* estimateLiveCallCostUsd of the Skeptic model
    StepEstimates, \* what a step may be estimated at as its context grows
    LiveCosts,     \* what a Gemini call may cost, at most Estimate
    ThrownCosts,   \* what a call that throws may cost all the same
    Reserve,       \* LIVE_RETRY_RESERVE
    MaxSteps,      \* MAX_INVESTIGATOR_STEPS
    None

ASSUME RunAssumption ==
    /\ Cap \in Nat /\ Estimate \in Nat \ {0} /\ CriticEstimate \in Nat \ {0}
    /\ StepEstimates \subseteq Nat /\ Estimate \in StepEstimates
    /\ \A e \in StepEstimates : e >= Estimate
    /\ LiveCosts \subseteq 0..Estimate /\ ThrownCosts \subseteq 0..Estimate
    /\ Reserve \in Nat /\ MaxSteps \in Nat \ {0}
    /\ Routes \subseteq {"LOOP", "WATERFALL"}
    /\ None \notin Verdict

\* What a run is given is of the kind its code declares (ActionOpsScenario, Signal).
ASSUME InputAssumption ==
    /\ Scenarios \subseteq
           [match: Exposure, evidence: SUBSET Signals, confidence: Nat,
            country: Countries \cup {NoCountry}, chokepoint: BOOLEAN, inScope: BOOLEAN]
    /\ Fetches \subseteq SUBSET Signals
    /\ Confidences \subseteq Nat
    /\ None \notin Run /\ None \notin Checks

Writer == {"Sentinel", "Strategist", "Dispatcher"}
Agent == Writer \cup {"Verifier", "Atlas", "Simulator", "Skeptic", "Investigator"}

VARIABLES
    request,       \* scenario, signals, live, route, critic: fixed for the run
    stage,         \* where the orchestrator is
    runs,          \* [Agent -> Run or None]
    card,          \* threatCard
    checks,        \* verifierChecks
    exposure,      \* what Atlas matched
    verdict,       \* of the Skeptic
    decision,      \* recommendation, missingEvidence, outcome
    clears,        \* gatekeeper.approvedForHumanReview
    spent,         \* spentUsd
    reserve,       \* what is left of the retry reserve
    attempts,      \* attempts of the live agent at work, all billed and rejected
    agg,           \* what those attempts cost
    asked,         \* challenges under way at the critic
    step,          \* the Investigator's step: number, reserved, estimate, cost, own, breach
    billed,        \* history: what the providers have charged
    lost,          \* history: charges of agents whose attempt threw
    calls,         \* history: billable calls of the writers and of the critic
    broken         \* history: agents whose live body gave no accepted answer

moneyVars == <<spent, reserve, attempts, agg, billed, lost, calls>>
findingVars == <<card, checks, exposure, verdict>>
outcomeVars == <<decision, clears>>
vars == <<request, stage, runs, findingVars, outcomeVars, moneyVars, asked, step, broken>>

Deterministic(pass) == [mode |-> "DETERMINISTIC_RULES", pass |-> pass, cost |-> 0]
Live(cost) == [mode |-> "LIVE_AI", pass |-> TRUE, cost |-> cost]

\* (mutant) a degraded agent's run still passes
FallbackPasses(cost) == [mode |-> "FAILED_TO_FALLBACK", pass |-> TRUE, cost |-> cost]

Fallback(cost) == [mode |-> "FAILED_TO_FALLBACK", pass |-> FALSE, cost |-> cost]

\* (mutant) a reservation of the step under way is not counted
WithinUnreserved(spending, next) == spending - step.reserved + next <= Cap

\* assertWithinBudget
WithinBudget(spending, next) == spending + next <= Cap

Init ==
    /\ request \in [scenario: Scenarios, signals: Fetches, live: BOOLEAN,
                    route: Routes, critic: BOOLEAN]
    /\ stage = "sentinel"
    /\ runs = [a \in Agent |-> None]
    /\ card = None /\ checks = None /\ exposure = None /\ verdict = None
    /\ decision = None /\ clears = FALSE
    /\ spent = 0 /\ reserve = Reserve /\ attempts = 0 /\ agg = 0
    /\ asked = 0
    /\ step = [number |-> 0, reserved |-> 0, estimate |-> Estimate, cost |-> 0,
               own |-> 0, degraded |-> FALSE]
    /\ billed = 0 /\ lost = 0 /\ calls = [writer |-> 0, critic |-> 0]
    /\ broken = {}

Looping == request.live /\ request.route = "LOOP"

-----------------------------------------------------------------------------
(* The writers: classifyThreatLive, classifyPlaybooksLive and              *)
(* classifyMessagesLive around liveGenerateValidated.                      *)

WriterAt == [sentinel |-> "Sentinel", strategist |-> "Strategist",
             dispatcher |-> "Dispatcher"]
Writing == stage \in DOMAIN WriterAt
writer == WriterAt[stage]

\* A non-live run has no live body; without exposures there is nothing to write.
CallsModel == request.live /\ (stage = "sentinel" \/ exposure # "NONE")

StageAfterWriter ==
    CASE stage = "sentinel" -> IF Looping THEN "prepare" ELSE "analyse"
      [] stage = "strategist" -> "dispatcher"
      [] OTHER -> "gatekeeper"

DeterministicCard ==
    [cited |-> request.scenario.evidence, confidence |-> request.scenario.confidence,
     country |-> request.scenario.country, chokepoint |-> request.scenario.chokepoint]

\* The cards applyThreatFirewall lets through.
LiveCards ==
    [cited: SUBSET (request.signals \cup request.scenario.evidence) \ {{}},
     confidence: Confidences, country: Countries,
     chokepoint: IF request.scenario.chokepoint THEN BOOLEAN ELSE {FALSE}]

WritesCard(cards) == IF stage = "sentinel" THEN card' \in cards ELSE UNCHANGED card

\* The writer is done: its run is recorded and its cost folded into spentUsd.
Emits(run, cards) ==
    /\ runs' = [runs EXCEPT ![writer] = run]
    /\ spent' = spent + run.cost
    /\ attempts' = 0 /\ agg' = 0
    /\ stage' = StageAfterWriter
    /\ WritesCard(cards)
    /\ UNCHANGED <<request, checks, exposure, verdict, outcomeVars, asked, step>>

WriteByRule ==
    /\ Writing /\ ~CallsModel
    /\ Emits(Deterministic(TRUE), {DeterministicCard})
    /\ UNCHANGED <<reserve, billed, lost, calls, broken>>

\* (mutant) the second attempt forgets what the first one was estimated at
BudgetOfFirstAttempt == spent

BudgetOfAttempt == spent + attempts * Estimate

\* The hard stop: the throw is caught around all attempts, so what the
\* earlier ones cost is not in the run.
WriteBlocked ==
    /\ Writing /\ CallsModel
    /\ ~WithinBudget(BudgetOfAttempt, Estimate)
    /\ Emits(Fallback(0), {DeterministicCard})
    /\ lost' = lost + agg
    /\ broken' = broken \cup {writer}
    /\ UNCHANGED <<reserve, billed, calls>>

Bills(cost) ==
    /\ billed' = billed + cost
    /\ calls' = [calls EXCEPT !.writer = @ + 1]

WriteAccepted(cost) ==
    /\ Writing /\ CallsModel
    /\ WithinBudget(BudgetOfAttempt, Estimate)
    /\ Bills(cost)
    /\ Emits(Live(agg + cost), LiveCards)
    /\ UNCHANGED <<reserve, lost, broken>>

WriteThrew(cost) ==
    /\ Writing /\ CallsModel
    /\ WithinBudget(BudgetOfAttempt, Estimate)
    /\ Bills(cost)
    /\ Emits(Fallback(0), {DeterministicCard})
    /\ lost' = lost + agg + cost
    /\ broken' = broken \cup {writer}
    /\ UNCHANGED reserve

\* (mutant) every writer has a reserve of its own
OwnReserve == attempts < Reserve

\* tryConsume can be served from the pool the writers share
ReserveLeft == reserve > 0

WriteRetried(cost) ==
    /\ Writing /\ CallsModel
    /\ WithinBudget(BudgetOfAttempt, Estimate)
    /\ ReserveLeft
    /\ Bills(cost)
    /\ reserve' = reserve - 1
    /\ attempts' = attempts + 1
    /\ agg' = agg + cost
    /\ UNCHANGED <<request, stage, runs, findingVars, outcomeVars, spent, asked,
                   step, lost, broken>>

WriteRejected(cost) ==
    /\ Writing /\ CallsModel
    /\ WithinBudget(BudgetOfAttempt, Estimate)
    /\ ~ReserveLeft
    /\ Bills(cost)
    /\ Emits(Fallback(agg + cost), {DeterministicCard})
    /\ broken' = broken \cup {writer}
    /\ UNCHANGED <<reserve, lost>>

Write ==
    \/ WriteByRule
    \/ WriteBlocked
    \/ \E cost \in LiveCosts : WriteAccepted(cost) \/ WriteRetried(cost) \/ WriteRejected(cost)
    \/ \E cost \in ThrownCosts : WriteThrew(cost)

-----------------------------------------------------------------------------
(* The deterministic agents.                                               *)

\* Atlas fails closed on a claimed chokepoint whose scope a match leaves.
Rejects(threat) ==
    threat.chokepoint /\ ~request.scenario.inScope /\ request.scenario.match # "NONE"

Matched(threat) == IF Rejects(threat) THEN "NONE" ELSE request.scenario.match

\* (mutant) a live waterfall counts every fetched signal
AllSignals(threat) == request.signals

\* The waterfall's verifierCtx; the loop hands the whole ctx to runVerifier.
VerifierSignals(threat) ==
    IF request.live /\ request.route = "WATERFALL"
    THEN request.signals \cap threat.cited
    ELSE request.signals

VerifierRun(found) == Deterministic(found.sources > 0)
AtlasRun(threat) == Deterministic(~Rejects(threat))

\* The waterfall between Sentinel and Skeptic: no call, no await.
Analyse ==
    /\ stage = "analyse"
    /\ checks' = Verify(VerifierSignals(card), card)
    /\ card' = CapUncorroborated(card, request.live, checks'.corroborated)
    /\ exposure' = Matched(card')
    /\ runs' = [runs EXCEPT !["Verifier"] = VerifierRun(checks'),
                            !["Atlas"] = AtlasRun(card'),
                            !["Simulator"] = Deterministic(TRUE)]
    /\ stage' = "challenge"
    /\ UNCHANGED <<request, verdict, outcomeVars, moneyVars, asked, step, broken>>

-----------------------------------------------------------------------------
(* The Skeptic, from the waterfall, from a tool call and from the          *)
(* completion of the loop: challengeFindingLive, one call, no retry.       *)

\* (mutant) duplicate challenges of one step are not memoised
Unmemoised == asked < 2

NotInFlight == asked = 0

CanChallenge ==
    /\ NotInFlight
    /\ \/ stage = "challenge"
       \/ (stage = "tools" /\ checks # None /\ exposure # None /\ verdict = None)

\* Folds the run's cost and stores the verdict.
Judged(run, judgement) ==
    /\ runs' = [runs EXCEPT !["Skeptic"] = run]
    /\ spent' = spent + run.cost
    /\ verdict' = judgement
    /\ stage' = IF stage = "challenge" THEN "decide" ELSE stage
    /\ UNCHANGED <<request, card, checks, exposure, outcomeVars, reserve, attempts,
                   agg, lost, step>>

ChallengeByRule ==
    /\ CanChallenge
    /\ ~(request.live /\ request.critic)
    /\ Judged(Deterministic(TRUE), [accepted |-> TRUE, errored |-> FALSE])
    /\ UNCHANGED <<asked, billed, calls, broken>>

Hold == [accepted |-> FALSE, errored |-> TRUE]

ChallengeBlocked ==
    /\ CanChallenge
    /\ request.live /\ request.critic
    /\ ~WithinBudget(spent, CriticEstimate)
    /\ Judged(Fallback(0), Hold)
    /\ broken' = broken \cup {"Skeptic"}
    /\ UNCHANGED <<asked, billed, calls>>

ChallengeAsked ==
    /\ CanChallenge
    /\ request.live /\ request.critic
    /\ WithinBudget(spent, CriticEstimate)
    /\ asked' = asked + 1
    /\ calls' = [calls EXCEPT !.critic = @ + 1]
    /\ UNCHANGED <<request, stage, runs, findingVars, outcomeVars, spent, reserve,
                   attempts, agg, billed, lost, step, broken>>

ChallengeAnswered ==
    /\ asked > 0
    /\ asked' = asked - 1
    /\ \E accepted \in BOOLEAN :
        Judged(Live(CriticEstimate), [accepted |-> accepted, errored |-> FALSE])
    /\ billed' = billed + CriticEstimate
    /\ UNCHANGED <<calls, broken>>

\* Unparseable, truncated or failed: held, with the usage the provider reported.
ChallengeBroke(cost) ==
    /\ asked > 0
    /\ asked' = asked - 1
    /\ Judged(Fallback(cost), Hold)
    /\ billed' = billed + cost
    /\ broken' = broken \cup {"Skeptic"}
    /\ UNCHANGED calls

Challenge ==
    \/ ChallengeByRule \/ ChallengeBlocked
    \/ ChallengeAsked \/ ChallengeAnswered
    \/ \E cost \in {0, CriticEstimate} : ChallengeBroke(cost)

-----------------------------------------------------------------------------
(* The Investigator loop: generateText with its tools.                     *)

findingComplete == checks # None /\ exposure # None /\ verdict # None

\* (mutant) one step too many
LoopStopsLate(steps) == steps > MaxSteps \/ findingComplete

LoopStops(steps) == steps = MaxSteps \/ findingComplete

onlyStep == <<request, runs, findingVars, outcomeVars, reserve, attempts, agg,
              lost, calls, asked>>

\* prepareStep asserts, then reserves.
PrepareStep ==
    /\ stage = "prepare"
    /\ WithinBudget(spent, step.estimate)
    /\ step' = [step EXCEPT !.reserved = step.estimate]
    /\ spent' = spent + step.estimate
    /\ stage' = "answer"
    /\ UNCHANGED <<onlyStep, billed, broken>>

\* (mutant) the hard stop is waited out
StepBlockedRetries ==
    /\ stage = "prepare"
    /\ ~WithinBudget(spent, step.estimate)
    /\ step' = [step EXCEPT !.degraded = TRUE]
    /\ broken' = broken \cup {"Investigator"}
    /\ UNCHANGED <<stage, onlyStep, billed, spent>>

\* prepareStep throws: the loop is over, degraded, before the call bills.
StepBlocked ==
    /\ stage = "prepare"
    /\ ~WithinBudget(spent, step.estimate)
    /\ step' = [step EXCEPT !.degraded = TRUE]
    /\ broken' = broken \cup {"Investigator"}
    /\ stage' = "complete"
    /\ UNCHANGED <<onlyStep, billed, spent>>

\* (mutant) the catch releases the reservation of a step of unknown cost
ReleasedReservation == spent - step.reserved

KeptReservation == spent

\* The call throws mid-step, at a cost nobody knows.
StepThrew(cost) ==
    /\ stage = "answer"
    /\ billed' = billed + cost
    /\ spent' = KeptReservation
    /\ step' = [step EXCEPT !.reserved = 0, !.degraded = TRUE]
    /\ broken' = broken \cup {"Investigator"}
    /\ stage' = "complete"
    /\ UNCHANGED onlyStep

\* The model answers, with tool calls or with none.
StepAnswered(cost) ==
    /\ stage = "answer"
    /\ cost <= step.reserved
    /\ billed' = billed + cost
    /\ step' = [step EXCEPT !.cost = cost]
    /\ stage' \in {"tools", "close"}
    /\ UNCHANGED <<onlyStep, spent, broken>>

\* The tools of a step run concurrently, so in any order; each keeps the first
\* result.  The ones that only read are no step of this module.
CheckCorroboration ==
    /\ stage = "tools" /\ checks = None
    /\ checks' = Verify(VerifierSignals(card), card)
    /\ runs' = [runs EXCEPT !["Verifier"] = VerifierRun(checks')]
    /\ UNCHANGED <<request, stage, card, exposure, verdict, outcomeVars, moneyVars,
                   asked, step, broken>>

AssessExposure ==
    /\ stage = "tools" /\ exposure = None
    /\ exposure' = Matched(card)
    /\ runs' = [runs EXCEPT !["Atlas"] = AtlasRun(card)]
    /\ UNCHANGED <<request, stage, card, checks, verdict, outcomeVars, moneyVars,
                   asked, step, broken>>

SimulateRunway ==
    /\ stage = "tools" /\ exposure # None /\ runs["Simulator"] = None
    /\ runs' = [runs EXCEPT !["Simulator"] = Deterministic(TRUE)]
    /\ UNCHANGED <<request, stage, findingVars, outcomeVars, moneyVars, asked, step,
                   broken>>

\* getSupplierExposureDetail with a supplier the run never matched: onBreach.
DrillOffContext ==
    /\ stage = "tools" /\ exposure # None
    /\ step' = [step EXCEPT !.degraded = TRUE]
    /\ broken' = broken \cup {"Investigator"}
    /\ UNCHANGED <<request, stage, runs, findingVars, outcomeVars, moneyVars, asked>>

\* onStepFinish replaces the reservation with the cost, once every tool settled.
StepFinished ==
    /\ stage \in {"tools", "close"} /\ asked = 0
    /\ spent' = spent + step.cost - step.reserved
    /\ \E next \in StepEstimates :
        step' = [step EXCEPT !.number = @ + 1, !.reserved = 0, !.estimate = next,
                             !.own = @ + step.cost, !.cost = 0]
    /\ stage' = IF stage = "close" \/ LoopStops(step.number + 1)
                THEN "complete" ELSE "prepare"
    /\ UNCHANGED <<onlyStep, billed, broken>>

InvestigatorRun ==
    IF step.degraded THEN [mode |-> "FAILED_TO_FALLBACK", pass |-> TRUE, cost |-> step.own]
    ELSE Live(step.own)

\* (mutant) the completion does not look whether a tool asked
AsksAgain == TRUE

NoVerdictYet == verdict = None

\* completeInvestigation up to its Skeptic, which follows unless a tool asked it.
CompleteInvestigation ==
    /\ stage = "complete"
    /\ checks' = IF checks = None THEN Verify(VerifierSignals(card), card) ELSE checks
    /\ exposure' = IF exposure = None THEN Matched(card) ELSE exposure
    /\ runs' = [runs EXCEPT !["Verifier"] = VerifierRun(checks'),
                            !["Atlas"] = AtlasRun(card),
                            !["Simulator"] = Deterministic(TRUE),
                            !["Investigator"] = InvestigatorRun]
    /\ stage' = IF NoVerdictYet THEN "challenge" ELSE "decide"
    /\ UNCHANGED <<request, card, verdict, outcomeVars, moneyVars, asked, step, broken>>

Investigate ==
    \/ PrepareStep \/ StepBlocked \/ StepFinished \/ CompleteInvestigation
    \/ \E cost \in ThrownCosts : StepThrew(cost)
    \/ \E cost \in LiveCosts \cup StepEstimates : StepAnswered(cost)
    \/ CheckCorroboration \/ AssessExposure \/ SimulateRunway \/ DrillOffContext

-----------------------------------------------------------------------------
(* The act/refuse gate and the end of the run.                             *)

\* The loop caps the card here; on the waterfall it is capped already.
ActOrRefuse ==
    /\ stage = "decide"
    /\ card' = CapUncorroborated(card, request.live, checks.corroborated)
    /\ decision' = ApplySkepticGate(
           Decide(checks.corroborated, card'.confidence, exposure),
           verdict,
           Strong(checks, card'.confidence, exposure))
    /\ IF decision'.recommendation = "NO_ACTION"
       THEN /\ runs' = [runs EXCEPT !["Strategist"] = Deterministic(TRUE),
                                    !["Dispatcher"] = Deterministic(TRUE)]
            /\ stage' = "gatekeeper"
       ELSE /\ runs' = runs
            /\ stage' = "strategist"
    /\ UNCHANGED <<request, checks, exposure, verdict, clears, moneyVars, asked, step,
                   broken>>

AllRuns == {runs[a] : a \in Agent} \ {None}
Drafts == decision.recommendation = "ACT" /\ exposure # "NONE"

\* The gatekeeper over the runs, and the schema over the packet: a packet the
\* schema refuses is an error of the request, and no packet.
Assemble ==
    /\ stage = "gatekeeper"
    /\ \E citationsHold \in IF Drafts THEN BOOLEAN ELSE {TRUE} :
        clears' = GatekeeperClears(AllRuns, citationsHold)
    /\ stage' = IF SchemaAdmits(decision, Drafts) THEN "packet" ELSE "error"
    /\ UNCHANGED <<request, runs, findingVars, decision, moneyVars, asked, step, broken>>

Next == Write \/ Analyse \/ Challenge \/ Investigate \/ ActOrRefuse \/ Assemble

Spec == Init /\ [][Next]_vars
FairSpec == Spec /\ WF_vars(Next)

-----------------------------------------------------------------------------
(* Properties.                                                             *)

Card == [cited: SUBSET Signals, confidence: Nat, country: Countries \cup {NoCountry},
         chokepoint: BOOLEAN]
Stage == {"sentinel", "analyse", "challenge", "prepare", "answer", "tools", "close",
          "complete", "decide", "strategist", "dispatcher", "gatekeeper", "packet",
          "error"}

\* Every variable keeps the shape its code gives it.
TypeOK ==
    /\ stage \in Stage
    /\ runs \in [Agent -> Run \cup {None}]
    /\ card \in Card \cup {None}
    /\ checks \in Checks \cup {None}
    /\ exposure \in Exposure \cup {None}
    /\ verdict \in Verdict \cup {None}
    /\ decision \in [recommendation: Recommendation, missing: SUBSET Gap,
                     outcome: Outcome] \cup {None}
    /\ clears \in BOOLEAN
    /\ spent \in Nat /\ attempts \in Nat /\ agg \in Nat /\ reserve \in Int
    /\ asked \in Nat
    /\ step \in [number: 0..MaxSteps, reserved: StepEstimates \cup {0},
                 estimate: StepEstimates, cost: Nat, own: Nat, degraded: BOOLEAN]
    /\ billed \in Nat /\ lost \in Nat
    /\ calls \in [writer: Nat, critic: Nat]
    /\ broken \subseteq Agent

\* The hard stop (budget.ts:50-69): through retries, reservations, a critic
\* asked inside a step and steps that fail at an unknown cost, the run's total
\* stays under the cap, and with it every charge the total is told of.
SpendCapped ==
    /\ spent <= Cap
    /\ billed - lost <= spent + agg
    /\ billed - lost <= Cap

\* The documented ceiling of calls (budget.ts:17-23): one per writer and the
\* shared reserve, and at most one call of the cross-family critic, however
\* often and however concurrently the model asks for the challenge.
CallCeiling ==
    /\ calls.writer <= Cardinality(Writer) + Reserve
    /\ calls.critic <= 1

\* What a critic does to a packet (skeptic.ts:614-694): one that broke leaves
\* a refusal nobody can approve; one that objected is overruled only where the
\* packet's own card is corroborated, above the floor and not in another country;
\* and no objection, recorded without an act, makes a packet its schema refuses.
CriticBinds ==
    /\ stage # "error"
    /\ stage = "packet" =>
          /\ "Skeptic" \in broken => decision.recommendation = "NO_ACTION" /\ ~clears
          /\ (~verdict.accepted /\ decision.recommendation = "ACT") =>
                /\ checks.corroborated /\ checks.geo # "CONFLICT"
                /\ card.confidence >= Floor

\* What degraded is held and shown.  A packet can be approved only if no agent
\* whose output it carries fell back (gatekeeper.ts:67-77); a degraded Investigator
\* authored none of it.  And its badge says live exactly when the run was and
\* nothing degraded, and degraded exactly when something did (run.ts:617-642).
DegradedIsHeldAndShown ==
    stage = "packet" =>
        LET mode == EffectiveMode({run.mode : run \in AllRuns})
        IN  /\ clears => broken \subseteq {"Investigator"}
            /\ (mode = "FAILED_TO_FALLBACK") <=> (broken # {})
            /\ (mode = "LIVE_AI") <=> (request.live /\ broken = {})

\* Live corroboration counts only what Sentinel cited for this threat
\* (index.ts:129-137): the loop's Verifier does not.
EvidenceBound ==
    request.live /\ checks # None =>
        checks.sources = Cardinality(Outlets(request.signals \cap card.cited))

\* No number a model wrote moves suppliers (recommendation.ts:13-36): a live run that has
\* something to act on refuses, by whichever route it came, when its Verifier does not
\* corroborate the finding, as it never may on signals that name fewer than two outlets.
\* And on the waterfall an outlet that Sentinel cited nothing from corroborates nothing,
\* whatever was fetched besides (index.ts:138).
EvidenceDecides ==
    LET oneOutlet ==
            \A s, t \in request.signals : Outlet[s] = Outlet[t] \/ Blank \in {Outlet[s], Outlet[t]}
    IN  /\ stage = "packet" /\ request.live /\ Actionable(exposure)
                /\ (~checks.corroborated \/ oneOutlet)
            => decision.recommendation = "NO_ACTION"
        /\ request.route = "WATERFALL" => EvidenceBound

\* Whatever fails, is blocked or is asked again, the run comes to a packet.
RunEnds == <>(stage = "packet")
=============================================================================
