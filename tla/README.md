# RESILIX ActionOps: a TLA+ verification project

RESILIX ActionOps is a Next.js / TypeScript service. It turns signals about a
supply-chain disruption into a *decision packet* (agents classify the threat,
match the exposed suppliers, decide whether to act or to refuse, and draft the
actions), lets a human approve or reject the packet, and executes the approved
packet's actions through e-mail, n8n and Slack. Two things in it are hard to get
right: the protocols around its Postgres tables (requests of several server
instances, crashes, lost replies, retries), and the gates that decide what a
run with language models in it may do and spend.

This directory holds TLA+ models of that core, TLC configurations that check
them on small instances, and TLAPS proofs of the theorems that matter most.
Paths below are relative to the repository; line numbers are those of the commit
the project was written for. `PROJECT.json` maps every definition to its lines.

    tlc -workers 2 -config ActionExecutor_safety.cfg MCActionExecutor
    tlapm ActionExecutorProofs.tla

## 1. Inventory

State is in Postgres (`db/schema.ts`) or, without `DATABASE_URL`, in
module-level maps; "instance" means one server process.

| Component | State | Operations | Interacts with | Hard behaviour |
|---|---|---|---|---|
| Packet store, approval (`lib/server/store.ts:375-557`, `decision-packet-service.ts`, approve route, n8n callback) | `decision_packets.approval_status`, the audit trail in its payload, `processed_approval_events` | `transitionApproval`: check the event, lock the packet row, compare-and-set the status, audit, reserve the event id | two routes call it; the executor reads the status and writes the whole packet back | two callers and one event id; commits whose reply is lost; repeats; statements of one transaction failing in the middle |
| Packet store, save (`store.ts:244-330`, `lib/pipeline/run-exception.ts`, run-exception route) | `decision_packets`, `run_idempotency_keys`, and per instance the `inflightRuns` map | run once per key: coalesce on the instance, look up, run, save and reserve the key | runs the agents in between, for minutes and for money | the same key on two instances, restarts, failed runs that stay in the map |
| Executor (`lib/server/action-executor.ts`, execute route, `instrumentation.ts`) | `executed_actions` (an outbox keyed by idempotency key), the packet's trail | `executeApprovedPacketActions`, `dispatchAndFinalize`, `recordNonDispatched`; `reconcileAllStrandedDispatches` at boot | reads approved packets, calls the transports, appends to the packet | crash between claim and finalize; sweeps against live requests; a lease; store failures after delivery; unlocked read-modify-write of the packet |
| Taxonomy, transports (`action-taxonomy.ts`, `action-transport.ts`, `transports/*`) | none | derive the governable actions of a packet, class them REVERSIBLE or OUTWARD, deliver with a 10 s abort | the executor | a provider that acts and whose answer is lost |
| Rate limiter (`lib/server/rate-limit.ts`) | per instance, a map of windows | `checkRateLimit`, pruning, the key cap with eviction | first step of every mutating route | the cap under a flood of keys; a clock set back; rounding |
| Agent run (`lib/agents/actionops/{index,investigator,tools}.ts`, `lib/agents/{run,budget}.ts`, `build-packet.ts`) | of one run: card, findings, `spentUsd`, the retry reserve, the loop's step | waterfall, Investigator loop with concurrent tool calls, hard stop, retries, fallbacks, assembly | model providers; the gates; the store saves the packet | calls that fail at an unknown cost; tools that spend inside a step; the order in which a model calls tools |
| Gates (`verifier`, `recommendation`, `skeptic`, `gatekeeper`, `schemas`) | none | corroborate, cap a live confidence, act or refuse, apply the critic, hold, badge, admit the packet | the agent run | half-applied fixes: a gate on one route and not on the other |
| Writers (`sentinel.ts`, `strategist.ts`, `dispatcher.ts`, `citation-check.ts`, `url-detect.ts`) | none | draft by rules, ask a model, pass its answer through a firewall or reject it | the agent run; the gatekeeper shares the citation check | a wrong number that cites a right field; an answer that is half good; an audience the model would choose |
| Atlas, Simulator, recovery options (`atlas.ts`, `simulation-math.ts`, `recovery.ts`) | none | match suppliers, project runway, score options | the agent run | a claimed chokepoint nobody knows; floors, outages shorter than the cover; ties |
| Graders and promotion (`lib/evals/*`) | none | grade a finished packet, score a trajectory, compare two | evaluation only | a score that hides a leak |
| Supplier store and ingest (`supplier-store.ts`, `supplier-csv.ts`, `seed-suppliers.ts`, upload route) | `suppliers`, keyed by canonical id | parse, validate, de-duplicate, upsert a batch, list, reset | own route; runs read the seed, not this table (`build-packet.ts:95`) | two uploads of the same suppliers in different orders; reset during an upload; the row cap |
| Customs desk (`lib/agents/customsdesk/*`, `app/customs/page.tsx`, `components/customs/counsel-gate.tsx`) | a packet under counsel review, in the browser | generate a case, decide, price, re-derive it, approve, reject, start over, export | own page | a gate that outlives the packet it was mounted with; an artifact that changes after it was graded; bounds of the penalty |
| Signal fetchers (`gdelt.ts`, `fetchers.ts`) | per process: a cache, the time of the last call, the calls in flight | serve fresh, join a call, hold back, call, fall back; assemble the board | live runs | callers during a call; an age read before a call; throttling |
| Security, MCP server, logging, schema, UI, scripts | none that the above does not hold | I/O, parsing, rendering, read access | | |

Every component, also the ones that are not modelled, is listed with its status
and reason in `PROJECT.json` under `components`; what is hard to test in each is
under `hazards`, at its line.

### What makes each component correct

* **Approval.** A packet is decided once and the decision audited once, whatever
  is repeated; an answer UPDATED or EVENT_CONFLICT is true of the database; a
  packet the gatekeeper holds is never decided; calls never deadlock.
* **Save.** One key gives one stored packet on any number of instances; every
  caller of the key gets that packet; a failed run can be tried again.
* **Executor.** Only an approved packet's actions reach the outbox; an outward
  action is never dispatched by code; each delivery has a claim of its own; claims
  of one action are more than a lease apart; a crashed dispatch is recovered.
* **Limiter.** The map stays within its cap; nobody gets twice the limit through
  in the length of a window; Retry-After is honest; eviction is the last resort.
* **Packet.** What a human may approve passes the graders; drafts go to the
  code's audience and disclose nothing; the finding follows from its inputs; a
  live run is promoted over the rules only when it is clean.
* **Suppliers.** The table is some order of whole uploads; a report accounts for
  every row; a deadlock is answered.
* **Customs desk.** Dispositions follow the declared matrix; the Skeptic objects
  to every tampered outcome and to no honest one; penalties keep their bounds;
  what is exported was signed, as it is, for the packet it is.
* **Signals.** What is served says how old it is; calls keep their distance;
  whoever asks is answered.
* **Agent run.** The spend stays under the cap and the calls under their ceiling;
  an uncorroborated live finding refuses; a broken or objecting critic binds; a
  degraded run shows and is held; every run comes to a packet.

## 2. Modules

| Module | What it is | Size of the instance it is checked on |
|---|---|---|
| `GovernedOutbox` | the abstract contract of the executor: a record is held or claimed, a claimed one is delivered under a permit and settled | by refinement |
| `ActionExecutor` | requests, boot sweeps, outbox rows, packet rows, clock, crashes, store faults | `MCActionExecutor` |
| `ActionExecutorProofs` | type correctness; who may dispatch what; deliveries and claims; the trail; the refinement of `GovernedOutbox` | all values |
| `AtomicApproval` | the abstract contract of an approval: one step decides, audits and takes the event | by refinement |
| `ApprovalStore` | `transitionApproval` statement by statement, with row locks and unique keys | `MCApprovalStore` |
| `ApprovalStoreProofs` | its invariants, and the refinement of `AtomicApproval` | all values |
| `RunIdempotency` | runs and callers of a key on several instances | `MCRunIdempotency` |
| `RateLimiter` | the map of windows | `MCRateLimiter` |
| `RunRouteProofs` | the invariants of both, and sums over the ticks of a window | all values |
| `DecisionGates` | the pure gates of a run | through `ActionOpsRun` |
| `ActionOpsRun` | one run of the agents on either route | `MCActionOpsRun` |
| `ActionOpsScenarios` | the eight scenarios, as data | all eight |
| `Exposure` | Atlas, the runway, the recovery options (pure) | through `PacketRun` |
| `OutputFirewalls` | the firewalls, the citation check, the rule-based drafts (pure) | through `PacketRun` |
| `PacketGraders` | the graders and the promotion gate (pure) | through `PacketRun` |
| `ActionTaxonomy` | the actions of a packet, their keys, and the transports (pure) | through `PacketRun` |
| `PacketRun` | one run seen from the content of its packet | `MCPacketRun` |
| `PacketRunProofs` | where each part of a packet comes from; what the firewalls, the ranking, the runway and the graders compute; its five properties | all values |
| `SupplierIngest`, `SupplierStore` | a CSV to suppliers and a report (pure); uploads, resets and listings over the table | `MCSupplierStore` |
| `SupplierStoreProofs` | what a report counts, and the order of the table | all values |
| `Numerals`, `Catair`, `CustomsPolicy`, `CustomsCase`, `CustomsSkeptic` | numerals, entry records, policy table and clocks, a case, its re-derivation (pure) | through `CounselDesk` |
| `CounselDesk` | the page and the counsel gate | `MCCounselDesk` |
| `CounselDeskProofs` | what leaves the desk, what a case comes to, what the Skeptic makes of it | all values |
| `SignalFetch` | the feeds, their cache and calls | `MCSignalFetch` |
| `SignalFetchProofs` | what a caller is served, and the spacing of the calls | all values |
| `ActionOpsRunProofs` | the spend and the number of calls of a run; what it decides and shows | all values |

`MC...` modules extend the module they instantiate and define only values for
its constants. A definition preceded by "(mutant)" or "Mutant" is a plausible
bug: put in the place of the definition it follows or precedes, it makes TLC find the property that
`PROJECT.json` names under `mutants` violated. No mutant is part of a
specification.

### 2.1 The executor

A worker is a thread of an instance: a request of the execute route or the boot
sweep that `instrumentation.ts` awaits before the server serves. One action is
one store call (a statement or a transaction) or one transport call. `Reserve`
and `RecordNonDispatched` are the insert ON CONFLICT DO NOTHING, `Duplicate` its
other outcome; `Deliver` and `Finalize` are the two calls of
`dispatchAndFinalize`; `AuditRead` and `AuditWrite` are the unlocked
read-modify-write of the packet; `SweepList`, `SweepPacket`, `Reclaim`,
`ReclaimRaced` are the recovery sweep with its compare-and-set on
`requested_at`. `RequestFault`, `FinalizeFault` and `SweepFault` are a store call
that throws, before or after it took effect; `Crash` clears every local of an
instance; `Boot` starts its sweep. Time is a logical clock; a dispatch lasts at
most `MaxDelivery`.

### 2.2 Approval

One call goes through `Start`, `ReadEvent`, `ReadOwner`, `LockPacket`,
`Update`..., `Reserve`, `Mark`, `Commit`; each is one statement of the
transaction under READ COMMITTED. `FOR UPDATE` holds the packet's row until
commit; an insert of a unique event id waits for an open transaction that
inserted it. A statement may fail (rollback), and a commit may take effect
without its reply.

### 2.3 Save and idempotency

The map of an instance is read and written without an await in between
(`run-exception.ts:34-52`), so `StartRun` and `Coalesce` are one step each. The
run then looks the key up, builds, and saves in one transaction whose insert of
the key decides between rivals on other instances. `Crash` kills an instance's
runs and callers.

### 2.4 The rate limiter

A check is synchronous, so one action. The client key is the bearer token's
fingerprint, else the first forwarded address. `MakeRoom` is `enforceKeyCap`:
nothing below the cap, then a sweep of elapsed windows, then eviction of the
oldest.

### 2.5 The agent run

`DecisionGates` holds the pure decisions; `ActionOpsRun` the run around them: the
writers (Sentinel, Strategist, Dispatcher: `WriteByRule`, `WriteBlocked`,
`WriteAccepted`, `WriteThrew`, `WriteRetried`, `WriteRejected`), the deterministic
agents (`Analyse`), the Skeptic (`ChallengeByRule`, `ChallengeBlocked`,
`ChallengeAsked`, `ChallengeAnswered`, `ChallengeBroke`), the Investigator loop
(`PrepareStep`, `StepBlocked`, `StepThrew`, `StepAnswered`, the tools,
`StepFinished`, `CompleteInvestigation`), and the end (`ActOrRefuse`,
`Assemble`). A model's answer is a choice among everything its firewall lets
through. What is abstracted:

* a confidence is in hundredths, a signal stands for its URL and has an outlet
  and a country; a threat card has its citations, confidence, country and claimed
  chokepoint and no prose;
* money is in small units and a call never costs more than its estimate. The code
  guarantees that by the cap on output tokens and by pricing the input at a fixed
  envelope; that the input stays within the envelope is an assumption of the
  model, except for the loop, whose estimate grows with its context
  (`StepEstimates`);
* a critic's failure reports its usage or bills nothing; an unpriced critic model,
  which throws at start, is a configuration error and left out;
* tools that only read change nothing and are no steps; branches that no input
  reaches (a WARN of the Verifier, RETRY_EXHAUSTED) are left out.

### 2.6 The packet's content

`PacketRun` is the waterfall again, seen from what it produces: `ClassifyThreat`,
`ChallengeFinding`, `ClassifyPlaybooks`, `ClassifyMessages` each take the rules'
result, a model answer the firewall lets through, or the fallback, and a rejected
answer is asked for again while the shared reserve lasts (`Retry`). A model
answers with one of a set of named answers, one for each thing a firewall looks
at. A text is a record of what the checks can tell of it: links, links past the
length cap, figures, unparsable numerals, names, risk language, untrusted text,
nothing left after sanitising. A draft may cite what the run computed and the age of a
signal it was given (`Reaches`). When an answer is refused for good, the agent's run may
quote it in its summary (`Quote`), which the leak scan reads (`OutputProse`); such a run
has failed, so the gatekeeper holds the packet in any case. The agents without a model are functions:
`RunAtlas`, `RunSimulator`, `BuildRecoveryOptions`. `ActionOpsRun` and `PacketRun`
share the gates of `DecisionGates`; the first leaves the content out, the second
the cost, the loop and the order of calls.

`ActionTaxonomy` says which actions a finished packet gives rise to and what a
transport makes of one. That no two of them share a key is what `ActionExecutor`
takes for granted when it has one row per action ("one per idempotency key"); a
provider's answer that comes too late or not at all is its failed delivery. Nothing
derives `RFQ_DISPATCH` or `ERP_CASE`, so the webhook is looked at with a made-up
message, as the repository's smoke test does.

### 2.7 Suppliers

`IngestSupplierCsv` is the streaming parse: `ParseStep` is the parser's callback, which
reads the header, skips empty rows, aborts at the cap, and rejects or accepts a row,
and `Report` is what the route answers with. The table of country names is a plain
object, so a country text like `constructor` finds an inherited member that is no code:
making the identity of it throws (`Thrown`), the route answers 500 and nothing is
written. The refusals are in the order of the route: the bytes are counted before the
text is looked at (`Refusal`). An upload is a transaction that
writes its suppliers one statement at a time and holds each row's lock until it
commits (`Write`, `Commit`); `BreakDeadlock` is Postgres aborting one transaction
of a cycle of waits; `Fault` a failed statement, or a commit whose reply is lost.
A reset's DELETE sees the rows that were committed when it began.

### 2.8 The customs desk

A case is generated (`GenerateCase`), run (`RunCustomsDefenseCase`) and re-derived
(`SkepticObjections`), all pure. The desk is the page: `Open`, `Leave` for
navigation, `TypeName` (also back to nothing), `TypeNote`, `Approve`, `Reject`, `Reset`, `Download`,
`Copy` for the gate, and the clipboard's promise that settles later. The gate is
a client component without a key, so it keeps its packet when the browser's
history goes from one case that proceeds to another; the model keeps the packet
shown and the packet held apart. A reviewer's name is its text and the numerals in it,
also those of a form nobody can parse. Duties are exact cents with halves rounded up; the
code's float product rounds to the same cent for every value up to a million dollars.
The desk scopes a case with no criteria and over entries the generator made, so the
tariff prefix and the fields that do not parse (`entry-scoper.ts:34-47`, `:79`) are never
met and left out.

### 2.9 The signal feeds

One process. What runs between two awaits is one step: `ServeFresh`, `Join`,
`HoldBack`, `Call` are the branches of a request; `LiveAnswer` and
`DegradeOnFailure` the end of a call, which answers everyone who joined it. The
abort timers bound how long a call lasts. A run asks only the default query; the
exported function takes any, so queries are a parameter. The clock is monotone.

## 3. What the runs check

All cfgs state CHECK_DEADLOCK FALSE: a finished run, a server nobody calls, or a
model whose bounds are used up rightly stops.

| Run | Shows | Bounds, and why they are enough |
|---|---|---|
| `executor_safety` | governance of the executor (`OutwardNeverDispatched`, `OnlyApprovedExecutes`, `ApprovalForwardOnly`, `TrailIsSound`, types); repeated delivery always has its own claim, more than a lease from any other (`CallsSpentClaims`, `OneDriverPerClaim`); it implements `GovernedOutbox` | one packet with an internal and an outward action, two requests and two sweeps on two instances, two crashes, one store fault, the flag on or off, dispatches that may last several leases: every pair of actors, each failure against each step, and a strand recovered twice |
| `executor_liveness` | a stranded row is re-driven (`StrandsRecovered`) | one instance, two crashes; a reboot later than the lease, no store faults: see the gap below |
| `approval_safety` | one decision, one audit (`DecisionAuditedOnce`), true answers (`AnswersAreTrue`), atomic (`ImplementsAtomic`), and every call ends (`CallsEnd`) | three callers, three calls, two cleared packets, a blocked and a missing one, one event id, one fault: three concurrent calls are the most that can meet on one event and one row |
| `runs_safety` | a key is run once on an instance and never after it is stored (`RunsOncePerKey`), all callers get the stored packet and none is orphaned (`AnswersAreCanonical`), calls end and failed runs leave the map (`RequestsEnd`) | two callers, two instances, three runs, one fault, one crash: a rival, and a run after either failure |
| `limiter_safety` | nobody is admitted past the limit, and who waits as told is admitted (`AdmittedAsTold`); eviction only when full (`EvictsOnlyWhenFull`) | three client keys over a cap of two, a window of three ticks over a clock of four and one step back: every key can be evicted and every window renewed |
| `run_spend` | the cap on the spend, the ceiling of calls, held and shown degradation, and that every run ends | both routes, calls of cost one or two against a cap of nine, six steps, two retries: paths that exhaust the budget at every stage, and paths that do not |
| `run_gates` | a run acts or refuses by its evidence (`EvidenceDecides`), and the critic binds (`CriticBinds`) | three signals (two outlets, one blank), all eight fetches, five scenarios, confidences on both sides of the floor |
| `run_loop_evidence` (violation) | the loop corroborates with signals the card does not cite | the loop only |
| `packet_content` | what is cleared passes the graders (`ClearedIsGraded`), drafts (`DraftsDiscloseNothing`), the actions derived and what is called delivered (`ActionsAreGoverned`), the finding against its definition (`FindingIsExact`), the promotion gate against what it is to guard (`PromotionIsSafe`) | all eight scenarios, thirteen suppliers (six in one scope, so that one is past the cap on drafts), thirteen threat answers, nine plans, nineteen drafts, two retries: one answer for each check of a firewall, and any of them for each writer; nothing, everything or all but one of the transports' variables set, every answer of a provider |
| `supplier_intake` | `TableIsSerial`, `RowsAccounted`, `UploadsEnd` | three uploads and a reset, one fault; files that write the same rows in opposite orders, one with every kind of row and one row past the cap, one whose parse throws, one body that lies about its length: three transactions make every cycle of waits that two rows allow |
| `customs_desk` | `DispositionFollowsMatrix`, `SkepticIsExact`, `PenaltyIsBounded`, `RecordsAreRead`, `ExportsWereSigned` | every cell of the matrix and one outside it, one or three lines, two entry numbers, every set of missing exhibits; three of the cases before counsel, three names (one with a figure nothing cites, one with a numeral in words), two approvals, one artifact: the gate outlives a packet after one change of case |
| `signal_feed` | `ServedAsWhatItIs`, `CallsSpacedAndAnswered` | two callers, two queries, one cached entry; calls of up to three ticks against a spacing of two, a freshness of three and a limit of five, ten ticks: an entry can be fresh, stale, too old, evicted and refreshed |

The properties of a case or a file alone (`SkepticIsExact`, `RowsAccounted` and
their like) are looked at in one representative state per case, when its page has
just opened or when its upload is alone.

In production the cap ($5) is some fifty calls, and a run makes at most about
fourteen; the model's cap is small so that the hard stop is reached in every
place it can be. Nothing in the code depends on its size.

### Fairness

* Executor: workers that started a dispatch or a sweep go on (`WF` on their
  steps), because every await in them ends by a timeout of a transport or of the
  pool; the clock advances; a crashed instance is booted. No fairness on clients.
* Approval, save: a statement that can run runs. A statement that waits for a
  lock is not enabled, so a deadlock would show.
* Suppliers: `WF` on each call's steps, the deadlock detector among them; a
  statement that waits is not enabled.
* Signals: the abort timers end every call (`WF` on its two outcomes, and on the
  weather feed's). A timer is never overdue (`Tick`).
* Customs desk, packet: none; nobody has to act.
* Agent run: `WF_vars(Next)`: every provider call settles, by an answer, an error
  or its timeout.

### Where the code and its words differ

One is a run, `run_loop_evidence`: the loop's Verifier counts every fetched signal
(`tools.ts:156`, `investigator.ts:133`), the waterfall's only the cited ones (of the
waterfall `EvidenceDecides` holds). The others are what the models of the code say,
and the properties are stated so that they hold of the code:

* `action-executor.ts:461`: recording EXECUTED is inside the try of the delivery,
  so a store error after a successful delivery records FAILED, against the header's
  "FAILED (transport threw" (`:39`). `CallsSpentClaims` has the sound direction.
* `store.ts:453`: the repeat path ignores that its insert of the event lost, so a
  caller can be told IDEMPOTENT for an event that belongs to another packet, against
  "no TOCTOU window" (`:53-55`). `AnswersAreTrue` promises an event only with UPDATED.
* `action-taxonomy.ts:206` "a content change yields a NEW key": a digest holds ids
  only, so another text of the same draft has the same key. A packet's id is random
  and its text is never rewritten, so one key still means one text;
  `ActionsAreGoverned` asks for distinct keys within a packet.
* `run.ts:261` ("the EXACT gross spend"), `sentinel.ts:459`: a retry that throws loses
  the usage of the attempt before it. `SpendCapped` counts such charges as lost.
* The repository's `README.md:81`, `docs/architecture.md:30` and
  `docs/Success_Criteria.md:34` have the gatekeeper check every URL;
  `gatekeeper.ts` checks none, and the Strategist's firewall (`strategist.ts:176-244`)
  scans no links, so a live plan with a foreign link clears. `ClearedIsGraded`
  therefore grades links of the drafts, the card and the signals' sources only.
* `trajectory.ts:302` looks for a leak or a wrong decision only where the candidate's
  outcome score is the lower one, against the criterion at `:278-291`.
  `PromotionIsSafe` is stated for baselines that decide rightly, where it holds.
* `gdelt.ts:21` "a failure never serves cache older than this": the age is taken
  before a call of up to 25 s (`:109`, `:135`), so an entry can be served older by the
  length of the call. `ServedAsWhatItIs` allows exactly that.
* `supplier-store.ts:79-80` "an upload either lands fully or not at all": a reset whose
  DELETE began before an upload landed spares the rows it inserted and deletes those
  it updated. Only tests call `resetSuppliers`; `TableIsSerial` excepts that overlap
  and says what is kept in it.

Known limits of the executor that are no disagreement with its code but narrow
its comments: a process restarted *within* the lease finds its strand still in
lease, and nothing sweeps again until the next boot (`action-executor.ts:621`;
hence the reboot delay of `executor_liveness`); a reclaim is stamped with the
time its sweep reached the packet (`:612`), so a very slow sweep's claim can be
stale at birth, which is why claims are only "more than a lease apart"; and
`finalizeAction` (`:306`) updates by id, so a driver that outlived its lease may
overwrite the terminal status of the one that replaced it.

## 4. What is proved

TLAPS proves the following for every value of the constants that satisfies the
modules' ASSUMEs: any number of packets, actions, instances, workers, callers,
keys and windows, any lease, limit, cap, estimates, prices, steps and retries.

| Theorem | States | Argument |
|---|---|---|
| `ActionExecutorProofs!TypeCorrect` | `TypeOK` | inductive as it stands |
| `ActionExecutorProofs!ApprovalComesFirst` | `OnlyApprovedExecutes` | a worker past its read of the packet holds a snapshot that was approved, and approval never goes back |
| `...!DecisionIsFinal` | `ApprovalForwardOnly` | the unlocked write of the packet writes back a snapshot that is approved already, so it can undo nothing |
| `...!OutwardIsHeld` | `OutwardNeverDispatched` | a worker dispatches only a reversible action whose row it claimed, and only dispatching workers settle rows (`DriverInv`) |
| `...!ClaimsHaveOneDriver` | `OneDriverPerClaim` | a driver's claim is never newer than the row's, and a reclaim moves the row's past every older claim by more than a lease (`DriverInv`) |
| `...!CallsAreSpentClaims` | `CallsSpentClaims` | the calls of an action are at most the claims nobody holds any more (`SpentInv`), and a row that says EXECUTED had a call that returned (`ReturnedInv`) |
| `...!TrailSpeaksOnce` | `TrailIsSound` | what a run still owes the trail is disjoint from what any snapshot of the packet in flight already says (`TrailInv`) |
| `...!ContractImplemented` | `ImplementsContract` | a permit is a driver, so a step takes, spends or drops at most one; `StepKinds` sorts every action by what it does to the rows |
| `ApprovalStoreProofs!DecisionAuditedOnceAlways` | `DecisionAuditedOnce` | an update or an audit in flight belongs to the one call that holds the row's lock (`TxInv`) |
| `...!AnswersAreTrueAlways` | `AnswersAreTrue` | what a call read, inserted or waited for is still in the tables when it answers (`TxInv`, `AnswersKnown`) |
| `...!AtomicImplemented` | `ImplementsAtomic` | only a commit changes committed tables, and by `TxInv` it changes them as one decision |
| `RunRouteProofs!RunsOncePerKeyAlways` | `RunsOncePerKey` | the map of an instance names the run of a key, and a run that began after the key was stored finds it (`TxInv`) |
| `...!AnswersAreCanonicalAlways` | `AnswersAreCanonical` | two open reservations never name one key, and a stored packet owns its key (`ReservationsDiffer`, `OwnersStored`) |
| `...!EvictsOnlyWhenFullAlways` | `EvictsOnlyWhenFull` | the map is within its cap, and a sweep leaves only running windows |
| `...!AdmittedAsToldAlways` | `AdmittedAsTold` | a window's count bounds what its ticks admitted, and two neighbouring windows cover any window's length |
| `ActionOpsRunProofs!SpendStaysCapped` | `SpendCapped` | between the assertion of the budget and the fold of a cost, each attempt in no run yet is covered by an estimate, each step by its reservation, a challenge inside a step by what was asserted for it (`SpendInv`) |
| `...!CallsStayCapped` | `CallCeiling` | every writer that is done used one call and what it took from the shared reserve; the critic was asked only if a challenge is under way or judged (`CallInv`) |
| `...!TypesKept` | `TypeOK` | which parts of a finding exist at which stage (`Flow`), and that the loop goes on only below its last step (`StepBounded`) |
| `...!EvidenceDecidesAlways` | `EvidenceDecides` | the checks counted outlets of fetched signals (`EvidenceKnown`), and the decision was computed from the very finding the packet carries, over a capped card (`Gated`) |
| `...!CriticAlwaysBinds` | `CriticBinds` | a critic that broke left the hold and a failing run (`BrokenKnown`, `RunsKnown`); `GateDecides` is the gate for every input |
| `...!DegradedAlwaysShown` | `DegradedIsHeldAndShown` | a recorded run is degraded exactly when its agent broke, and nobody overwrites it (`RunsKnown`) |
| `CounselDeskProofs!ExportsAlwaysSigned` | `ExportsWereSigned` | a mounted gate and the page it is on may both proceed, since a reset takes the page's packet; an approval in the gate is a click on its own packet; what waits for the clipboard has passed the door (`DeskInv`) |
| `...!MatrixAlwaysFollowed` | `DispositionFollowsMatrix` | the gaps of a generated case depend on its posture, its workflow and its deadline alone (`GapsAre`), and `DispositionClass` of the same two sorts every declared cell (`CellsAre`) |
| `...!PenaltyBoundedAlways` | `PenaltyIsBounded` | both rates of a culpability are ordered and every cap is the domestic value (`CaughtIsBounded`, `FloorIsInRange`); the scope's duty is within twice its value (`ScopeIsWithin`); rounding keeps order (`Rounding`); the interest on a disclosure is within the smallest multiple of the duty |
| `...!RecordsAlwaysRead` | `RecordsAreRead` | where a layout's fields end is a total of widths (`SlicesAre`); a number's check digit is what its weight lacks to a ten (`CheckIs`), a slip moves the weight by two shares of one place (`WeightMoves`), and doubling parts any two digits, its gain any two but 0 and 9 (`DoubledParts`) |
| `...!SkepticAlwaysExact` | `SkepticIsExact` | what the packet cites, and the citations and clocks it carries, are what the Skeptic expects (`RunIsExpected`), its text states nothing else (`PacketKnown`, `KnownText`); each kind of edit leaves a figure, a date, a body or a verdict that is not expected, or leaves the outcome as it was |
| `SupplierStoreProofs!EveryRowIsCounted` | of `IngestSupplierCsv`, for every file (the counting part of `RowsAccounted`) | by induction over the rows: what the callback keeps (`Reading`) is kept by each of its branches |
| `...!RowsAlwaysAccounted` | `RowsAccounted` | by the same induction, the callback stands at a known place of the file (`Placed`), each line says what its row is worth, and a supplier is its last row in the place of its first (`ReadsFile`); a seed is clean exactly when its file is (`SeedMeans`), which its rows' order does not touch (`TurnedIs`), and a backup is found in the set of suppliers (`LinkIs`) |
| `...!TableStaysSerial` | `TableIsSerial` | a reset under way holds, or has still to come to, every row of the table, unless an upload landed since it began (`ComesToAll`); with it the table stays the end of the log's history (`IsSerial`), and every row knows the last upload that wrote it (`RowsAreLast`) |
| `SignalFetchProofs!AlwaysServedAsWhatItIs` | `ServedAsWhatItIs` | a call in flight is within its abort timer and holds the entry of when it began (`FeedInv`), so a fallback is older than it says by that timer at most, and two roundings of ages together lose a minute (`MinutesIs`) |
| `...!CallsStaySpaced` | `CallsSpaced`, the safety part of `CallsSpacedAndAnswered` | the guard reads the time of the last call, which is what was heard of it (`Times`), and only a call begins a flight |
| `PacketRunProofs!PacketInvAlways` | where each part of a run comes from, stage by stage | inductive as it stands: a writer leaves the rules' part or one its firewall accepted, and the end assembles these, or nothing |
| `...!DraftsDiscloseNothingAlways` | `DraftsDiscloseNothing` | a ranking lists a finite set once each and in order (`RankedIs`), so its first places are the most exposed; what the Dispatcher's firewall accepts is discreet and covers exactly these, and so do the rules' drafts |
| `...!ActionsAreGovernedAlways` | `ActionsAreGoverned` | digests of one type differ where the drafts do; a transport that is not wired, or whose provider did not say so, delivers nothing, for every subset of the environment |
| `...!FindingIsExactAlways` | `FindingIsExact` | a claimed scope is checked before anybody is exposed; the days left uncovered, for a cover that ends before, in or after a horizon; the options are ranked, and of the exposed (`OptionsAre`) |
| `...!ClearedIsGradedAlways` | `ClearedIsGraded` | each grader follows from a firewall, from the arithmetic of the runway, or from the gatekeeper, which blocks on a citation that fails |
| `...!PromotionIsSafeAlways` | `PromotionIsSafe` | both trajectories take the same seven steps in the same order (`GatheredSteps`, `JoinedInTurn`, `RunIsOrderly`), so that their scores differ in the outcome at most (`OrderlyScores`); what can be left of a leak is a model's words (`LeaksAre`) |

Except for the executor's `TypeOK` and the packet's `PacketInv`, none of these is inductive by itself: each says
something of the end of a protocol whose middle it does not mention. The
strengthening each proof uses is defined and explained at the head of its module,
and was checked by TLC on the instance of its run before it was proved.

What the proofs assume are the ASSUMEs of the modules, which TLC evaluates in every
run. Those that say more than the kind of a constant: `RunAssumption`, "a call never
costs more than its estimate", on which the spend theorem rests;
`ApprovalAssumption` and `RunAssumption` of `RunIdempotency` (some packet, some
instance exists); `InputAssumption` of `ActionOpsRun` (a scenario and a fetch are of
the declared kind, and `None` is neither a run nor checks). `GatesAssumption` has the
live cap below the floor of confidence, as `recommendation.ts` computes it.
`FeedAssumption` has an entry fresh for no longer than it may be served, five minutes
against an hour in `gdelt.ts`: without it a "fresh" entry could be past the limit.
`DocketAssumption` says of each case of the docket that its cell, its exhibits, its
commencement, its seed and its entries are the generator's (`synthetic-entries.ts:93`):
a number of seven digits with the digit that checks them, and lines of any value, each
with the two and a half percent of it (`synthetic-entries.ts:133`). What the scoper
adds these up to is not assumed: `ScopeIsWithin` proves it, for any entries and any
criteria.

`CallsAssumption` of `SupplierStore` has a file be a sequence of rows, `None` no status
of an answer and no inherited member, and the order of the digests
(`supplier-csv.ts:117-133`) one of distinct numbers: two suppliers whose digests collide would be one supplier to the code, and are not modelled.

`PacketAssumption` says of the data of a packet what the code makes sure of before a
run: suppliers have distinct ids and a lead time, the live feeds drop an article whose
link is unsafe (`gdelt.ts:237`), the drafts of a model are a list
(`DispatcherLlmResultSchema`), and `None` is no constraint and no runway.

Induction over numbers is done without the library's induction theorem, whose
operator parameter the provers cannot instantiate: `LeastNumber` (in the
modules of proofs that count) takes the least counterexample of a *set* of numbers, and `Induct` follows from it;
a recursive function is reasoned about through the set of numbers up to which it exists.
No module declares a `RECURSIVE` operator, which the provers could not expand.

Only model-checked:

* liveness (`StrandsRecovered`, `CallsEnd`, `RequestsEnd`, `RunEnds`, `UploadsEnd`,
  and that who asks is answered in `CallsSpacedAndAnswered`), whose fairness the
  prover's backends do not reach.

Every other property that a passing run checks is stated by a theorem above.

## 5. Assumptions about the outside

* Postgres: a statement is atomic; READ COMMITTED; `FOR UPDATE` and a unique
  insert wait for the transaction that holds the row or the key.
* Next.js serves requests after `register()` has returned.
* A transport call ends within its 10 s abort; the lease is 60 s. The models
  allow longer dispatches where a bound would hide an interleaving.
* Packet ids are random UUIDs, and two runs never share one.
* The instances' clocks agree.

## 6. What is not modelled, and the plan

The in-memory stores are the special case in which each store call is one step of
one thread, and have no models of their own. An integrity mismatch of a stored
packet cannot arise in the modelled states. `DISABLE_BOOT_RECONCILE` is the sweep
whose listing failed. Text is left out throughout, but for what a check can tell of
it: prompts, wording, quarantine, HTML.

Not modelled at all, with the reason in `PROJECT.json`: the legacy impact arithmetic
and the legacy gatekeeper, which only the retained V1 path and a re-check of its
schema use; the replay loaders, the price tables and the HTTP layer, which hold no
state; the user interface but for the counsel gate; the offline judge, the
deobfuscation and the failure clustering; workflows, scripts and recorded data. Partly:
the ranking of the policy corpus; the projection tables of a save.

Order of work, the most important first:

1. done: executor, approval, save, limiter, agent run, and the theorems above;
2. done: the packet's content with its firewalls and graders, suppliers, the customs
   desk, the signal feeds;
3. done: the inductive invariants of the approval, the save, the limiter, the executor
   and the gates of a run; the refinements of `GovernedOutbox` and `AtomicApproval`;
4. done: what leaves the customs desk and what its cases come to (`ExportsWereSigned`,
   `DispositionFollowsMatrix`, `PenaltyIsBounded`, `SkepticIsExact`), the supplier
   table (`TableIsSerial`, with the report of every file), and what the feeds serve
   (`ServedAsWhatItIs`);
5. done: what a finished packet holds, discloses, sets going and is promoted for (the
   five properties of `PacketRun`);
6. model: the approval state that the packet view keeps in the browser.
