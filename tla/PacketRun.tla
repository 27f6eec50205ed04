------------------------------- MODULE PacketRun -------------------------------
(***************************************************************************)
(* What the packet of a run contains (lib/agents/actionops/index.ts): the  *)
(* waterfall from the signals to the gatekeeper, with every answer a model *)
(* may give to Sentinel, Strategist and Dispatcher.  ActionOpsRun is the   *)
(* same run seen from its calls, their cost and their order; here an       *)
(* answer has a content, and what the firewalls let through is kept.       *)
(*                                                                         *)
(* An agent's outcome is "rules", "fallback", "quoted" (a fallback whose   *)
(* reason quotes the answer refused), "withheld" or "live".                *)
(***************************************************************************)
EXTENDS ActionTaxonomy

CONSTANTS
    Suppliers,              \* the seeded suppliers
    ScenarioIds,            \* the scenarios run
    LiveSignals(_),         \* what a live fetch returned for a scenario
    ThreatAnswers, PlaybookAnswers, DraftAnswers,   \* names of model answers
    ThreatAnswer(_, _),     \* the answer of that name to a scenario
    PlaybookAnswer(_, _),   \* ... to the exposures
    DraftAnswer(_, _, _),   \* ... to the exposures and the runway
    Environments, ProviderAnswers,  \* what may be set, and what a provider may answer
    Reserve,                \* LIVE_RETRY_RESERVE
    Floor, CapGap           \* of the recommendation

VARIABLES
    scenario, live,         \* fixed for the run
    stage,
    reserve,                \* retries left, shared by the writers
    finding,                \* card, checks, exposures, simulation and gaps
    decision,               \* recommendation, missing evidence, outcome of the Skeptic gate
    playbooks, messages,
    trail,                  \* the agents' runs, in order
    packet                  \* what the run returns

vars == <<scenario, live, stage, reserve, finding, decision, playbooks, messages, trail, packet>>

Replayed(name) ==
    {[source |-> s.source, url |-> s.url, country |-> s.country, age |-> 0, summary |-> Prose]
        : s \in ActionOpsScenarios[name].signals}
SignalsOf(name, isLive) == IF isLive THEN LiveSignals(name) ELSE Replayed(name)

AnySignal == UNION {Replayed(n) \cup LiveSignals(n) : n \in ScenarioIds}
Gates ==
    INSTANCE DecisionGates WITH
        Signals <- AnySignal, Outlet <- [s \in AnySignal |-> s.source],
        Origin <- [s \in AnySignal |-> s.country], Blank <- "", NoCountry <- None

Known == {s.id : s \in Suppliers}

ThreatVerdicts(name) ==
    {ApplyThreatFirewall(ThreatAnswer(a, name), ActionOpsScenarios[name], SignalsOf(name, TRUE))
        : a \in ThreatAnswers}
Accepted(verdicts) == {v.value : v \in {v \in verdicts : v.ok}}

\* The threat cards a run may go by, and the exposures of them.
Cards(name) ==
    {DeterministicThreatCard(ActionOpsScenarios[name])} \cup Accepted(ThreatVerdicts(name))
Exposed(name) ==
    {RunAtlas(ActionOpsScenarios[name], card, Suppliers).exposures : card \in Cards(name)}

\* Suppliers have distinct ids and a lead time, an article with an unsafe link is dropped
\* where it is fetched (gdelt.ts:237), and a model's drafts are a list, as the schema of
\* its answers has it.  None is neither a constraint nor a runway.
ASSUME PacketAssumption ==
    /\ IsFiniteSet(Suppliers)
    /\ \A s \in Suppliers : {s.id, s.lead} \subseteq Nat /\ s.riskTier \in DOMAIN RiskTierBase
    /\ \A s, t \in Suppliers : s.id = t.id => s = t
    /\ ScenarioIds \subseteq DOMAIN ActionOpsScenarios
    /\ \A name \in ScenarioIds : \A s \in LiveSignals(name) : IsSafeHttpUrl(s.url)
    /\ \A name \in ScenarioIds, a \in DraftAnswers : \A exposures \in Exposed(name) \ {<<>>} :
          Len(DraftAnswer(a, exposures, RunSimulator(ActionOpsScenarios[name], exposures).simulation))
              \in Nat
    /\ None # Hormuz.match.countries
    /\ \A params \in {Hormuz.simulation, RedSea.simulation, Hurricane.simulation},
          n \in 0..Cardinality(Suppliers) : None # RecomputeSimulation(params, n)

-----------------------------------------------------------------------------
(* The finding: what the waterfall has before it asks the Skeptic.         *)

ExposureKind(exposures) ==
    CASE exposures = <<>> -> "NONE"
      [] exposures # <<>> /\ \A i \in DOMAIN exposures : exposures[i].sector = "OTHER_UNMAPPED" -> "UNMAPPED"
      [] OTHER -> "REAL"

\* A live run is corroborated by the signals its card cites, another by all it was given.
FindingOf(card) ==
    LET heard == {s \in SignalsOf(scenario, live) : live => s.url \in card.evidence}
        checks == Gates!Verify(heard, card)
        capped == Gates!CapUncorroborated(card, live, checks.corroborated)
        atlas == RunAtlas(ActionOpsScenarios[scenario], capped, Suppliers)
        simulator == RunSimulator(ActionOpsScenarios[scenario], atlas.exposures)
    IN  [card |-> capped, checks |-> checks, atlas |-> atlas.status,
         exposures |-> atlas.exposures, simulation |-> simulator.simulation,
         gaps |-> atlas.gaps \cup simulator.gaps]

DecisionOn(found, judged) ==
    LET kind == ExposureKind(found.exposures)
    IN  Gates!ApplySkepticGate(
            Gates!Decide(found.checks.corroborated, found.card.confidence, kind),
            [accepted |-> judged = "accept", errored |-> judged = "broken"],
            Gates!Strong(found.checks, found.card.confidence, kind))

-----------------------------------------------------------------------------
(* The packet.                                                             *)

\* The unsafe link, the figure or the supplier a firewall names in its reason.
Quote == [Prose EXCEPT !.raw = TRUE, !.links = {"quoted"}]

Run(agent, outcome) ==
    [agent |-> agent,
     mode |-> CASE outcome = "live" -> "LIVE_AI"
                [] outcome \in {"fallback", "quoted"} -> "FAILED_TO_FALLBACK"
                [] OTHER -> "DETERMINISTIC_RULES",
     validation |-> IF outcome \in {"fallback", "quoted", "rejected"} THEN "FAIL" ELSE "PASS",
     withheld |-> outcome = "withheld",
     summary |-> IF outcome = "quoted" THEN Quote ELSE Prose]

RulesRuns(found) ==
    <<Run("Verifier", IF found.checks.sources > 0 THEN "rules" ELSE "rejected"),
      Run("Atlas", IF found.atlas = "FAIL" THEN "rejected" ELSE "rules"),
      Run("Simulator", "rules")>>

\* The record returned by runActionOpsAgents.
Assemble(name, signals, found, recommendation, plan, drafts, runs) ==
    LET acts == recommendation = "ACT"
        unchecked ==
            [gatekeeper |-> None, card |-> found.card, signals |-> signals, exposures |-> found.exposures,
             simulation |-> found.simulation,
             gaps |-> found.gaps \cup IF acts THEN {} ELSE {"withheld"},
             recommendation |-> recommendation, playbooks |-> plan, messages |-> drafts,
             items |-> IF acts THEN ActionItems(found.exposures) ELSE {},
             options |-> IF acts THEN BuildRecoveryOptions(found.exposures, found.simulation)
                         ELSE <<>>,
             runs |-> Range(runs)]
    IN  [unchecked EXCEPT !.gatekeeper = RunActionOpsGatekeeper(unchecked, Known)]

-----------------------------------------------------------------------------
(* The run.                                                                *)

Init ==
    /\ scenario \in ScenarioIds /\ live \in BOOLEAN
    /\ stage = "sentinel" /\ reserve = Reserve
    /\ finding = None /\ decision = None /\ packet = None
    /\ playbooks = {} /\ messages = {} /\ trail = <<>>

\* A rejected answer is asked for again while the writers' reserve lasts; a call
\* that throws, or one the budget stops, falls back at once.
MayRetry(answer) == ~answer.ok /\ reserve > 0
Retry ==
    /\ reserve' = reserve - 1
    /\ UNCHANGED <<scenario, live, stage, finding, decision, playbooks, messages, trail, packet>>

\* What a live call comes to, given the rules' own result.
Results(verdicts, byRules) ==
    {[value |-> byRules, outcome |-> "fallback"]}
    \cup {[value |-> byRules, outcome |-> "quoted"] : v \in {v \in verdicts : ~v.ok}}
    \cup {[value |-> v, outcome |-> "live"] : v \in Accepted(verdicts)}
ByRules(value) == {[value |-> value, outcome |-> "rules"]}

ClassifyThreat ==
    LET rules == DeterministicThreatCard(ActionOpsScenarios[scenario])
    IN  /\ stage = "sentinel"
        /\ \/ live /\ (\E a \in ThreatVerdicts(scenario) : MayRetry(a)) /\ Retry
           \/ \E r \in IF live THEN Results(ThreatVerdicts(scenario), rules) ELSE ByRules(rules) :
                 /\ finding' = FindingOf(r.value)
                 /\ trail' = <<Run("Sentinel", r.outcome)>> \o RulesRuns(finding')
                 /\ stage' = "skeptic"
                 /\ UNCHANGED <<scenario, live, reserve, decision, playbooks, messages, packet>>

Finish(recommendation, drafts, runs) ==
    /\ stage' = "done" /\ messages' = drafts /\ trail' = runs
    /\ packet' = Assemble(scenario, SignalsOf(scenario, live), finding, recommendation,
                          playbooks, drafts, runs)

\* The critic's own key may be off: then it accepts.
ChallengeFinding ==
    /\ stage = "skeptic"
    /\ \E judged \in IF live THEN {"accept", "reject", "broken"} ELSE {"accept"} :
          LET runs == Append(trail, Run("Skeptic", IF judged = "broken" THEN "fallback" ELSE "rules"))
          IN  /\ decision' = DecisionOn(finding, judged)
              /\ IF decision'.recommendation = "ACT"
                 THEN stage' = "strategist" /\ trail' = runs /\ UNCHANGED <<messages, packet>>
                 ELSE Finish("NO_ACTION", {},
                             runs \o <<Run("Strategist", "withheld"), Run("Dispatcher", "withheld")>>)
    /\ UNCHANGED <<scenario, live, reserve, finding, playbooks>>

\* Neither writer is asked about a run without exposures.
Asked == live /\ finding.exposures # <<>>

PlaybookVerdicts ==
    {ApplyPlaybookFirewall(PlaybookAnswer(a, finding.exposures), finding.exposures) :
        a \in PlaybookAnswers}

ClassifyPlaybooks ==
    LET rules == DeterministicPlaybooks(finding.exposures)
    IN  /\ stage = "strategist"
        /\ \/ Asked /\ (\E a \in PlaybookVerdicts : MayRetry(a)) /\ Retry
           \/ \E r \in IF Asked THEN Results(PlaybookVerdicts, rules) ELSE ByRules(rules) :
                 /\ playbooks' = r.value
                 /\ trail' = Append(trail, Run("Strategist", r.outcome))
                 /\ stage' = "dispatcher"
                 /\ UNCHANGED <<scenario, live, reserve, finding, decision, messages, packet>>

CitationRoot ==
    [card |-> finding.card, signals |-> SignalsOf(scenario, live),
     exposures |-> finding.exposures, simulation |-> finding.simulation, messages |-> {}]
DraftVerdicts ==
    {ApplyDispatcherFirewall(DraftAnswer(a, finding.exposures, finding.simulation), CitationRoot) :
        a \in DraftAnswers}

ClassifyMessages ==
    LET rules == DeterministicDrafts(finding.exposures, finding.simulation)
    IN  /\ stage = "dispatcher"
        /\ \/ Asked /\ (\E a \in DraftVerdicts : MayRetry(a)) /\ Retry
           \/ \E r \in IF Asked THEN Results(DraftVerdicts, rules) ELSE ByRules(rules) :
                 /\ Finish("ACT", r.value, Append(trail, Run("Dispatcher", r.outcome)))
                 /\ UNCHANGED <<scenario, live, reserve, finding, decision, playbooks>>

Next == ClassifyThreat \/ ChallengeFinding \/ ClassifyPlaybooks \/ ClassifyMessages
Spec == Init /\ [][Next]_vars

-----------------------------------------------------------------------------
(* What a finished packet must be.                                         *)

Done == stage = "done"

Truth ==
    [known |-> Known,
     affected |-> {s.id : s \in MatchSuppliers(Suppliers, ActionOpsScenarios[scenario].match)},
     allowlist |-> EvidenceAllowlist(ActionOpsScenarios[scenario], SignalsOf(scenario, live)),
     offTaxonomy |-> ActionOpsScenarios[scenario].offTaxonomy,
     simInputs |-> ActionOpsScenarios[scenario].simulation]

\* Every figure of a draft, its own supplier's name aside, is a number this run
\* computed or the age of a signal it was given, under the unit it has there, and the
\* draft cites it.
FiguresAreBacked(p) ==
    \A m \in p.messages :
        LET computed ==
                {<<p.exposures[i].recoveryDays, "any">> : i \in DOMAIN p.exposures}
                \cup {<<s.age, "any">> : s \in p.signals} \cup {<<p.card.confidence, "ratio">>}
                \cup (IF p.simulation = None THEN {}
                      ELSE {<<p.simulation.survivalDays, "days">>}
                           \cup UNION {{<<h.days, "days">>, <<h.revenue, "USD">>, <<h.margin, "USD">>}
                                        : h \in Range(p.simulation.horizons)})
        IN  \A text \in {m.subject, m.body} :
                /\ ~text.odd
                /\ \A f \in text.figures \cup UNION {NameFigures(s) : s \in text.names \ {m.supplier}} :
                      \E c \in m.claims : c.value = f /\ {<<f, c.unit>>, <<f, "any">>} \cap computed # {}

\* The packet without what the gatekeeper does not read of it.
WithoutUnread(p) ==
    [card |-> p.card, exposures |-> p.exposures, messages |-> p.messages, items |-> p.items,
     signals |-> {[url |-> s.url, summary |-> Prose] : s \in p.signals},
     playbooks |-> {[summary |-> Prose, steps |-> {}, grounded |-> q.grounded] : q \in p.playbooks}]

\* A packet a human may approve passes the graders (graders.ts:35-40 of the
\* citation check they share), whatever the models answered and however often they
\* were asked again -- but for links in a live plan and in the fetched summaries,
\* which the gatekeeper does not read.
ClearedIsGraded ==
    Done => LET p == packet IN p.gatekeeper # "BLOCKED" =>
        /\ GradeEntityIds(p, Truth) /\ GradeCitationCoverage(p) /\ GradeOffTaxonomy(p, Truth)
        /\ GradeExposureControl(p, Truth) /\ GradeSimulatorArithmetic(p, Truth)
        /\ FiguresAreBacked(p)
        /\ GradeEvidence(WithoutUnread(p), Truth)

\* No draft, of a blocked packet either, links anywhere, tells a risk reading or
\* cites a score; on ACT it goes to the most exposed suppliers, each of them and
\* once, and on a refusal nothing outbound is there (dispatcher.ts, index.ts).
DraftsDiscloseNothing ==
    Done => LET p == packet
                recipients == {m.supplier : m \in p.messages}
            IN  /\ \A m \in p.messages :
                      /\ \A text \in {m.subject, m.body} : FindLinks(text) = {} /\ ~text.risk
                      /\ \A c \in m.claims : c.path.leaf # "exposureScore"
                /\ Cardinality(recipients) = Cardinality(p.messages)
                /\ p.recommendation = "ACT" => recipients = TopExposed(p.exposures)
                /\ p.recommendation = "NO_ACTION" =>
                        p.messages = {} /\ p.playbooks = {} /\ p.items = {} /\ p.options = <<>>

\* The actions the executor is given (action-taxonomy.ts:128-218): one for each thing to
\* be done and no two under one key, or the second would be taken for a retry of the
\* first; outward ones for the drafts alone and none that may fire by itself; and in
\* a digest no word of a model.  With nothing set every channel only logs, half a header
\* wires no webhook, and what is called delivered was accepted and, where the provider
\* gives one, has its reference (action-transport.ts:103-143, transports/).
ActionsAreGoverned ==
    Done =>
        LET actions == DeriveGovernableActions(scenario, packet)
            outward == {a \in actions : a.channel \in {"EMAIL", "N8N"}}
            acts == packet.recommendation = "ACT"
        IN  /\ Cardinality({a.idempotencyKey : a \in actions})
                    = 1 + IF acts THEN 1 + Cardinality(packet.items) + Cardinality(packet.messages) ELSE 0
            /\ {a.digest.supplierId : a \in outward} = IF acts THEN TopExposed(packet.exposures) ELSE {}
            /\ \A a \in outward : ~a.autoFireEligible
            /\ \A a \in actions : a.actionType = "ROLE_OWNER_ALERT" => a.digest.eventType \in ThreatEventTypes
            /\ \A channel \in {a.channel : a \in actions} \cup {"N8N"},
                   env \in Environments, answer \in ProviderAnswers :
                  LET receipt == Deliver(channel, env, answer)
                  IN  /\ receipt.delivered =>
                            /\ answer.status = "ok" /\ (answer.ref \/ channel = "N8N")
                            /\ channel \notin {"INTERNAL", "TICKET"}
                      /\ env = {} => receipt = NoopTransport
                      /\ channel = "N8N" /\ Cardinality(env \cap HeaderPair) = 1 => receipt = NoopTransport

\* The days of a horizon on which the disruption lasts and the stock is gone.
LostDays(params, days) ==
    {d \in 1..days : d <= params.durationDays
        /\ \E i \in DOMAIN params.inventory :
              d * params.inventory[i].dailyUse > params.inventory[i].onHand
                                                 - (params.inventory[i].onHand % params.inventory[i].dailyUse)}

\* The finding is what its inputs say it is (atlas.ts, simulation-math.ts,
\* recovery.ts): no supplier outside the scope of the chokepoint claimed, whatever
\* is claimed; the loss counts exactly the uncovered days; and an option's score,
\* lanes and order are those of the exposures it is for.
FindingIsExact ==
    Done => LET p == packet
                params == ActionOpsScenarios[scenario].simulation
            IN  /\ \A claimed \in {None, "Strait of Hormuz", "Suez Canal", "unmapped"} :
                      LET atlas == RunAtlas(ActionOpsScenarios[scenario],
                                            [p.card EXCEPT !.chokepoint = claimed], Suppliers)
                      IN  \A i \in DOMAIN atlas.exposures :
                              /\ claimed # None => claimed \in DOMAIN AffectedCountries
                                    /\ atlas.exposures[i].country \in AffectedCountries[claimed]
                              /\ \A j \in DOMAIN atlas.exposures :
                                    i < j => atlas.exposures[i].score >= atlas.exposures[j].score
                /\ params # None => \A h \in Range(p.simulation.horizons) :
                      h.revenue = Len(p.exposures) * params.dailyRevenue
                                    * Cardinality(LostDays(params, h.days))
                /\ \A i \in DOMAIN p.options :
                      /\ p.options[i].score \in 0..100
                      /\ p.options[i].lanes # {} /\ p.options[i].lanes \subseteq Ids(p.exposures)
                      /\ \A j \in DOMAIN p.options : i < j => p.options[i].score >= p.options[j].score

\* The rule-based run of the same scenario, which a live one has to match.
Baseline ==
    LET found == [finding EXCEPT !.card = DeterministicThreatCard(ActionOpsScenarios[scenario])]
        heard == Gates!Verify(Replayed(scenario), found.card)
        recommendation == DecisionOn([found EXCEPT !.checks = heard], "accept").recommendation
        acts == recommendation = "ACT"
        runs == <<Run("Sentinel", "rules")>> \o RulesRuns([found EXCEPT !.checks = heard])
                \o <<Run("Skeptic", "rules"), Run("Strategist", IF acts THEN "rules" ELSE "withheld"),
                     Run("Dispatcher", IF acts THEN "rules" ELSE "withheld")>>
    IN  [packet |-> Assemble(scenario, Replayed(scenario), found, recommendation,
                             IF acts THEN DeterministicPlaybooks(found.exposures) ELSE {},
                             IF acts THEN DeterministicDrafts(found.exposures, found.simulation) ELSE {},
                             runs),
         trail |-> runs]

\* The promotion gate (trajectory.ts:254-324): where the baseline decides rightly, no
\* run is promoted that leaks, is held, decides wrongly, drafts on a refusal or was
\* rejected by a tool; and a clean live run that decides so is promoted.
PromotionIsSafe ==
    Done => LET p == packet
                base == Baseline
                expected == base.packet.recommendation
                new == DeriveTrajectory(p, trail, expected)
                old == DeriveTrajectory(base.packet, base.trail, expected)
            IN  CompareTrajectories(old, new) <=>
                    /\ p.gatekeeper # "BLOCKED" /\ p.recommendation = expected
                    /\ \A m \in p.messages : ~m.subject.raw /\ ~m.body.raw
                    /\ \A q \in p.playbooks : \A text \in {q.summary} \cup q.steps :
                          ~text.raw /\ FindLinks(text) = {}
=============================================================================
