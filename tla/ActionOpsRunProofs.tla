------------------------- MODULE ActionOpsRunProofs --------------------------
(***************************************************************************)
(* What a run of the agents may spend and how often it may call, what it   *)
(* may decide and what its packet may show: for every cap, estimate,       *)
(* price, number of retries and number of steps, every scenario and        *)
(* fetched signal, every answer of the models and every order of the       *)
(* Investigator's tool calls.                                              *)
(*                                                                         *)
(* The cap is not inductive: between the assertion of the budget and the   *)
(* moment a cost is folded into spentUsd there are attempts that nothing   *)
(* records, a reservation of unknown outcome, and a challenge inside a     *)
(* step.  SpendInv says what each of them still owes.                      *)
(*                                                                         *)
(* Nor is what a packet says, which was computed many steps earlier from   *)
(* parts that other steps write.  GateInv says, for each stage of the      *)
(* orchestrator, which parts of the finding exist, what the checks         *)
(* counted, what the decision was computed from, and what each agent's     *)
(* recorded run says of how it ended.                                      *)
(***************************************************************************)
EXTENDS ActionOpsRun, FiniteSetTheorems, TLAPS

Writers == {"sentinel", "strategist", "dispatcher"}
Stepping == {"answer", "tools", "close"}

MoneyTypes ==
    /\ spent \in Nat /\ attempts \in Nat /\ agg \in Nat /\ reserve \in Nat
    /\ billed \in Nat /\ lost \in Nat
    /\ calls \in [writer: Nat, critic: Nat]
    /\ asked \in {0, 1}
    /\ step \in [number: Nat, reserved: Nat, estimate: StepEstimates, cost: Nat,
                 own: Nat, degraded: BOOLEAN]

\* The attempts of a writer are covered by estimates below the cap.
AttemptsCovered ==
    /\ spent + attempts * Estimate <= Cap
    /\ agg <= attempts * Estimate
    /\ stage \notin Writers => attempts = 0 /\ agg = 0
    /\ ~CallsModel => agg = 0

\* A challenge under way is covered, and only a step's tools or the
\* orchestrator itself have one.
ChallengeCovered ==
    asked = 1 => stage \in {"challenge", "tools"} /\ spent + CriticEstimate <= Cap

\* A step's cost is covered by its reservation.
StepCovered ==
    /\ stage = "answer" => step.reserved = step.estimate /\ step.cost = 0
    /\ stage \in {"tools", "close"} => step.cost <= step.reserved
    /\ stage \notin Stepping => step.reserved = 0 /\ step.cost = 0
    /\ step.reserved <= spent

\* What was charged and not lost is in the total, in the attempts or reserved.
LedgerCovered == billed - lost + step.reserved - step.cost <= spent + agg

SpendInv ==
    /\ MoneyTypes
    /\ AttemptsCovered
    /\ ChallengeCovered
    /\ StepCovered
    /\ LedgerCovered

-----------------------------------------------------------------------------

LEMMA SpendInit == Init => SpendInv
  BY RunAssumption
  DEF Init, SpendInv, MoneyTypes, AttemptsCovered, ChallengeCovered, StepCovered,
      LedgerCovered, Writers, Stepping

\* The product with the number of attempts, as the steps use it.
LEMMA AnotherAttempt ==
  ASSUME NEW n \in Nat
  PROVE  /\ n * Estimate \in Nat
         /\ (n + 1) * Estimate = n * Estimate + Estimate
         /\ 0 * Estimate = 0
  BY RunAssumption

-----------------------------------------------------------------------------
(* The writers.                                                            *)

\* What the end of a writer does to the money: its cost is in the total.
Finishes(cost) ==
    /\ spent' = spent + cost
    /\ attempts' = 0 /\ agg' = 0
    /\ asked' = asked /\ step' = step
    /\ stage' \notin Stepping \cup {"challenge"}

LEMMA EmitsFinishes ==
  ASSUME Writing, NEW run, NEW cards, Emits(run, cards)
  PROVE  Finishes(run.cost)
<1>1. stage' \notin Stepping \cup {"challenge"}
  BY DEF Emits, Writing, WriterAt, Stepping, StageAfterWriter
<1> QED
  BY <1>1 DEF Emits, Finishes

LEMMA FinishSpends ==
  ASSUME SpendInv, Writing, NEW cost \in Nat, Finishes(cost),
         spent + cost <= Cap,
         reserve' \in Nat, billed' \in Nat, lost' \in Nat,
         calls' \in [writer: Nat, critic: Nat],
         billed' - lost' <= spent + cost
  PROVE  SpendInv'
<1>1. stage \in Writers
  BY DEF Writing, WriterAt, Writers
<1>2. asked = 0 /\ step.reserved = 0 /\ step.cost = 0
  BY <1>1 DEF SpendInv, MoneyTypes, ChallengeCovered, StepCovered, Writers, Stepping
<1>3. MoneyTypes'
  BY DEF SpendInv, MoneyTypes, Finishes
<1>4. AttemptsCovered'
  BY <1>3, AnotherAttempt, RunAssumption DEF AttemptsCovered, MoneyTypes, Finishes
<1>5. ChallengeCovered' /\ StepCovered'
  BY <1>2, <1>3 DEF ChallengeCovered, StepCovered, Stepping, Finishes, MoneyTypes
<1>6. LedgerCovered'
  BY <1>2, <1>3 DEF LedgerCovered, MoneyTypes, Finishes
<1> QED
  BY <1>3, <1>4, <1>5, <1>6 DEF SpendInv

\* One more billable call keeps the counters numbers.
LEMMA BillsTypes ==
  ASSUME MoneyTypes, NEW cost \in Nat, Bills(cost)
  PROVE  /\ billed' = billed + cost /\ billed' \in Nat
         /\ calls' \in [writer: Nat, critic: Nat]
<1>1. \A c \in [writer: Nat, critic: Nat] :
          [c EXCEPT !.writer = @ + 1] \in [writer: Nat, critic: Nat]
  OBVIOUS
<1> QED
  BY <1>1 DEF MoneyTypes, Bills

LEMMA WriteSpends ==
  ASSUME SpendInv, Write
  PROVE  SpendInv'
<1> USE RunAssumption
<1>n. /\ MoneyTypes
      /\ spent \in Nat /\ attempts \in Nat /\ agg \in Nat /\ reserve \in Nat
      /\ billed \in Nat /\ lost \in Nat /\ calls \in [writer: Nat, critic: Nat]
  BY DEF SpendInv, MoneyTypes
<1>a. /\ attempts * Estimate \in Nat
      /\ (attempts + 1) * Estimate = attempts * Estimate + Estimate
  BY <1>n, AnotherAttempt
<1>c. spent + attempts * Estimate <= Cap /\ agg <= attempts * Estimate
  BY DEF SpendInv, AttemptsCovered
<1>w. ASSUME Writing
      PROVE  /\ asked = 0 /\ step.reserved = 0 /\ step.cost = 0
             /\ stage \in Writers /\ billed - lost <= spent + agg
  <2>1. stage \in Writers
    BY <1>w DEF Writing, WriterAt, Writers
  <2>2. asked = 0 /\ step.reserved = 0 /\ step.cost = 0
    BY <2>1 DEF SpendInv, MoneyTypes, ChallengeCovered, StepCovered, Writers, Stepping
  <2> QED
    BY <2>1, <2>2, <1>n DEF SpendInv, LedgerCovered
<1>1. CASE WriteByRule
  <2>1. Writing /\ UNCHANGED <<reserve, billed, lost, calls>>
        /\ Emits(Deterministic(TRUE), {DeterministicCard})
    BY <1>1 DEF WriteByRule
  <2>2. Finishes(0)
    BY <2>1, EmitsFinishes DEF Deterministic
  <2>3. agg = 0
    BY <1>1 DEF WriteByRule, SpendInv, AttemptsCovered
  <2>4. billed' - lost' <= spent + 0
    BY <1>n, <1>w, <2>1, <2>3
  <2> QED
    BY <2>1, <2>2, <2>4, <1>n, <1>a, <1>c, FinishSpends
<1>2. CASE WriteBlocked
  <2>1. /\ Writing /\ UNCHANGED <<reserve, billed, calls>> /\ lost' = lost + agg
        /\ Emits(Fallback(0), {DeterministicCard})
    BY <1>2 DEF WriteBlocked
  <2>2. Finishes(0)
    BY <2>1, EmitsFinishes DEF Fallback
  <2>3. billed' - lost' <= spent + 0 /\ lost' \in Nat
    BY <2>1, <1>n, <1>w
  <2> QED
    BY <2>1, <2>2, <2>3, <1>n, <1>a, <1>c, FinishSpends
<1>3. ASSUME NEW cost \in LiveCosts, WriteAccepted(cost) PROVE SpendInv'
  <2>1. /\ Writing /\ UNCHANGED <<reserve, lost>> /\ Bills(cost)
        /\ Emits(Live(agg + cost), LiveCards)
        /\ spent + attempts * Estimate + Estimate <= Cap
    BY <1>3 DEF WriteAccepted, WithinBudget, BudgetOfAttempt
  <2>2. Finishes(agg + cost)
    BY <2>1, EmitsFinishes DEF Live
  <2>3. cost \in Nat /\ cost <= Estimate /\ agg + cost \in Nat
    BY <1>3, <1>n
  <2>4. /\ billed' = billed + cost /\ billed' \in Nat
        /\ calls' \in [writer: Nat, critic: Nat]
    BY <2>1, <2>3, <1>n, BillsTypes
  <2>5. spent + (agg + cost) <= Cap /\ billed' - lost' <= spent + (agg + cost)
    BY <2>1, <2>3, <2>4, <1>n, <1>a, <1>c, <1>w
  <2> QED
    BY <2>1, <2>2, <2>3, <2>4, <2>5, <1>n, FinishSpends
<1>4. ASSUME NEW cost \in LiveCosts, WriteRetried(cost) PROVE SpendInv'
  <2>1. /\ Writing /\ Bills(cost) /\ reserve > 0 /\ reserve' = reserve - 1
        /\ attempts' = attempts + 1 /\ agg' = agg + cost
        /\ UNCHANGED <<spent, stage, asked, step, lost>> /\ CallsModel'
        /\ spent + attempts * Estimate + Estimate <= Cap
    BY <1>4 DEF WriteRetried, ReserveLeft, WithinBudget, BudgetOfAttempt, CallsModel,
                findingVars
  <2>2. cost \in Nat /\ cost <= Estimate
    BY <1>4
  <2>3. /\ billed' = billed + cost /\ billed' \in Nat
        /\ calls' \in [writer: Nat, critic: Nat]
    BY <2>1, <2>2, <1>n, BillsTypes
  <2>4. MoneyTypes'
    BY <2>1, <2>2, <2>3, <1>n DEF MoneyTypes
  <2>5. AttemptsCovered'
    <3>1. attempts' * Estimate = attempts * Estimate + Estimate
      BY <2>1, <1>a
    <3>2. spent' + attempts' * Estimate <= Cap /\ agg' <= attempts' * Estimate
      BY <3>1, <2>1, <2>2, <1>n, <1>a, <1>c
    <3>3. stage' \in Writers /\ CallsModel'
      BY <2>1, <1>w
    <3> QED
      BY <3>2, <3>3 DEF AttemptsCovered
  <2>6. ChallengeCovered' /\ StepCovered'
    BY <2>1, <1>w DEF SpendInv, ChallengeCovered, StepCovered
  <2>7. LedgerCovered'
    BY <2>1, <2>2, <2>3, <1>n, <1>w DEF LedgerCovered
  <2> QED
    BY <2>4, <2>5, <2>6, <2>7 DEF SpendInv
<1>5. ASSUME NEW cost \in LiveCosts, WriteRejected(cost) PROVE SpendInv'
  <2>1. /\ Writing /\ UNCHANGED <<reserve, lost>> /\ Bills(cost)
        /\ Emits(Fallback(agg + cost), {DeterministicCard})
        /\ spent + attempts * Estimate + Estimate <= Cap
    BY <1>5 DEF WriteRejected, WithinBudget, BudgetOfAttempt
  <2>2. Finishes(agg + cost)
    BY <2>1, EmitsFinishes DEF Fallback
  <2>3. cost \in Nat /\ cost <= Estimate /\ agg + cost \in Nat
    BY <1>5, <1>n
  <2>4. /\ billed' = billed + cost /\ billed' \in Nat
        /\ calls' \in [writer: Nat, critic: Nat]
    BY <2>1, <2>3, <1>n, BillsTypes
  <2>5. spent + (agg + cost) <= Cap /\ billed' - lost' <= spent + (agg + cost)
    BY <2>1, <2>3, <2>4, <1>n, <1>a, <1>c, <1>w
  <2> QED
    BY <2>1, <2>2, <2>3, <2>4, <2>5, <1>n, FinishSpends
<1>6. ASSUME NEW cost \in ThrownCosts, WriteThrew(cost) PROVE SpendInv'
  <2>1. /\ Writing /\ UNCHANGED reserve /\ Bills(cost) /\ lost' = lost + agg + cost
        /\ Emits(Fallback(0), {DeterministicCard})
    BY <1>6 DEF WriteThrew
  <2>2. Finishes(0)
    BY <2>1, EmitsFinishes DEF Fallback
  <2>3. cost \in Nat
    BY <1>6
  <2>4. /\ billed' = billed + cost /\ billed' \in Nat
        /\ calls' \in [writer: Nat, critic: Nat]
    BY <2>1, <2>3, <1>n, BillsTypes
  <2>5. billed' - lost' <= spent + 0 /\ lost' \in Nat
    BY <2>1, <2>3, <2>4, <1>n, <1>w
  <2> QED
    BY <2>1, <2>2, <2>4, <2>5, <1>n, <1>a, <1>c, FinishSpends
<1> QED
  BY <1>1, <1>2, <1>3, <1>4, <1>5, <1>6 DEF Write
-----------------------------------------------------------------------------
(* The critic.                                                             *)

\* No step outside the writers touches their attempts.
LEMMA NoAttempts ==
  ASSUME SpendInv, stage \notin Writers, spent' \in Nat, spent' <= Cap,
         UNCHANGED <<attempts, agg>>
  PROVE  AttemptsCovered'
<1>1. attempts' = 0 /\ agg' = 0
  BY DEF SpendInv, AttemptsCovered
<1>2. attempts' * Estimate = 0
  BY <1>1, RunAssumption
<1>3. spent' + attempts' * Estimate <= Cap
  <2>1. \A m, n \in Nat : n = 0 /\ m <= Cap => m + n <= Cap
    BY RunAssumption
  <2>2. attempts' * Estimate \in Nat
    BY <1>2
  <2> QED
    BY <1>2, <2>1, <2>2
<1>4. agg' <= attempts' * Estimate
  BY <1>1, <1>2
<1> QED
  BY <1>1, <1>3, <1>4 DEF AttemptsCovered

\* What the steps outside the writers start from.
LEMMA BetweenWriters ==
  ASSUME SpendInv, stage \notin Writers
  PROVE  /\ MoneyTypes /\ attempts = 0 /\ agg = 0
         /\ spent \in Nat /\ spent <= Cap /\ billed \in Nat /\ lost \in Nat
         /\ step.reserved \in Nat /\ step.cost \in Nat
         /\ billed - lost + step.reserved - step.cost <= spent
<1>1. /\ MoneyTypes /\ attempts = 0 /\ agg = 0 /\ spent \in Nat /\ billed \in Nat
      /\ lost \in Nat /\ step.reserved \in Nat /\ step.cost \in Nat
  BY DEF SpendInv, MoneyTypes, AttemptsCovered
<1>2. attempts * Estimate = 0
  BY <1>1, RunAssumption
<1> QED
  BY <1>1, <1>2, RunAssumption DEF SpendInv, AttemptsCovered, LedgerCovered

\* A challenge that ends adds what it cost, which was asserted when it began.
LEMMA JudgedSpends ==
  ASSUME SpendInv, stage \in {"challenge", "tools"}, NEW cost \in Nat,
         spent' = spent + cost, spent + cost <= Cap, billed' = billed + cost,
         stage' \in {stage, "decide"}, stage' = "decide" <=> stage = "challenge",
         asked' = 0, UNCHANGED <<reserve, attempts, agg, lost, step, calls>>
  PROVE  SpendInv'
<1>1. stage \notin Writers
  BY DEF Writers
<1>2. MoneyTypes'
  BY <1>1, BetweenWriters DEF MoneyTypes
<1>3. AttemptsCovered'
  BY <1>1, <1>2, NoAttempts DEF MoneyTypes
<1>4. ChallengeCovered' /\ StepCovered'
  BY <1>1, BetweenWriters DEF SpendInv, StepCovered, ChallengeCovered, Stepping
<1>5. LedgerCovered'
  BY <1>1, BetweenWriters DEF LedgerCovered
<1> QED
  BY <1>2, <1>3, <1>4, <1>5 DEF SpendInv

LEMMA ChallengeSpends ==
  ASSUME SpendInv, Challenge
  PROVE  SpendInv'
<1> USE RunAssumption
<1>c. ASSUME CanChallenge
      PROVE  stage \in {"challenge", "tools"} /\ asked = 0
  BY <1>c DEF CanChallenge, NotInFlight
<1>u. ASSUME asked > 0
      PROVE  /\ asked = 1 /\ stage \in {"challenge", "tools"}
             /\ spent + CriticEstimate <= Cap
  BY <1>u DEF SpendInv, MoneyTypes, ChallengeCovered
<1>n. stage \in {"challenge", "tools"} =>
          /\ MoneyTypes /\ spent \in Nat /\ spent <= Cap /\ billed \in Nat
  BY BetweenWriters DEF Writers
<1>1. CASE ChallengeByRule
  <2>1. /\ CanChallenge /\ spent' = spent + 0 /\ billed' = billed
        /\ stage' = (IF stage = "challenge" THEN "decide" ELSE stage)
        /\ UNCHANGED <<asked, reserve, attempts, agg, lost, step, calls>>
    BY <1>1 DEF ChallengeByRule, Judged, Deterministic
  <2> QED
    BY <2>1, <1>c, <1>n, JudgedSpends
<1>2. CASE ChallengeBlocked
  <2>1. /\ CanChallenge /\ spent' = spent + 0 /\ billed' = billed
        /\ stage' = (IF stage = "challenge" THEN "decide" ELSE stage)
        /\ UNCHANGED <<asked, reserve, attempts, agg, lost, step, calls>>
    BY <1>2 DEF ChallengeBlocked, Judged, Fallback
  <2> QED
    BY <2>1, <1>c, <1>n, JudgedSpends
<1>3. CASE ChallengeAsked
  <2>1. /\ CanChallenge /\ spent + CriticEstimate <= Cap /\ asked' = asked + 1
        /\ calls' = [calls EXCEPT !.critic = @ + 1]
        /\ UNCHANGED <<stage, spent, reserve, attempts, agg, billed, lost, step>>
    BY <1>3 DEF ChallengeAsked, WithinBudget
  <2>2. \A c \in [writer: Nat, critic: Nat] :
            [c EXCEPT !.critic = @ + 1] \in [writer: Nat, critic: Nat]
    OBVIOUS
  <2>3. stage \notin Writers /\ asked' = 1
    BY <2>1, <1>c DEF Writers
  <2>4. calls' \in [writer: Nat, critic: Nat]
    BY <2>1, <2>2 DEF SpendInv, MoneyTypes
  <2>5. MoneyTypes'
    BY <2>1, <2>3, <2>4 DEF SpendInv, MoneyTypes
  <2>6. AttemptsCovered'
    BY <2>1, <2>3, <2>5, <1>c, <1>n, NoAttempts
  <2>7. ChallengeCovered' /\ StepCovered'
    BY <2>1, <1>c DEF SpendInv, ChallengeCovered, StepCovered
  <2>8. LedgerCovered'
    BY <2>1 DEF SpendInv, LedgerCovered
  <2> QED
    BY <2>5, <2>6, <2>7, <2>8 DEF SpendInv
<1>4. CASE ChallengeAnswered
  <2>1. /\ asked > 0 /\ asked' = asked - 1 /\ billed' = billed + CriticEstimate
        /\ spent' = spent + CriticEstimate
        /\ stage' = (IF stage = "challenge" THEN "decide" ELSE stage)
        /\ UNCHANGED <<reserve, attempts, agg, lost, step, calls>>
    BY <1>4 DEF ChallengeAnswered, Judged, Live
  <2> QED
    BY <2>1, <1>u, <1>n, JudgedSpends
<1>5. ASSUME NEW cost \in {0, CriticEstimate}, ChallengeBroke(cost) PROVE SpendInv'
  <2>1. /\ asked > 0 /\ asked' = asked - 1 /\ billed' = billed + cost
        /\ spent' = spent + cost
        /\ stage' = (IF stage = "challenge" THEN "decide" ELSE stage)
        /\ UNCHANGED <<reserve, attempts, agg, lost, step, calls>>
    BY <1>5 DEF ChallengeBroke, Judged, Fallback
  <2>2. cost \in Nat /\ spent + cost <= Cap
    BY <2>1, <1>u, <1>n
  <2> QED
    BY <2>1, <2>2, <1>u, <1>n, JudgedSpends
<1> QED
  BY <1>1, <1>2, <1>3, <1>4, <1>5 DEF Challenge
-----------------------------------------------------------------------------
(* The Investigator loop.                                                  *)

StepRecord == [number: Nat, reserved: Nat, estimate: StepEstimates, cost: Nat,
               own: Nat, degraded: BOOLEAN]

\* A step of the loop that moves no money.
LEMMA IdleSpends ==
  ASSUME SpendInv, stage \notin Writers, stage' \notin Stepping \/ stage' = stage,
         asked = 1 => stage' \in {"challenge", "tools"},
         step' \in StepRecord, step'.reserved = step.reserved,
         step'.cost = step.cost, step'.estimate = step.estimate,
         stage \in Stepping => stage' = stage,
         UNCHANGED <<moneyVars, asked>>
  PROVE  SpendInv'
<1>1. UNCHANGED <<spent, reserve, attempts, agg, billed, lost, calls>>
  BY DEF moneyVars
<1>2. MoneyTypes'
  BY <1>1, BetweenWriters DEF MoneyTypes, StepRecord
<1>3. AttemptsCovered'
  BY <1>1, <1>2, BetweenWriters, NoAttempts
<1>4. ChallengeCovered'
  BY <1>1 DEF SpendInv, ChallengeCovered
<1>5. StepCovered'
  BY <1>1 DEF SpendInv, StepCovered, Stepping
<1>6. LedgerCovered'
  BY <1>1 DEF SpendInv, LedgerCovered
<1> QED
  BY <1>2, <1>3, <1>4, <1>5, <1>6 DEF SpendInv

\* The fields of the step record after one of them is set.
LEMMA StepFields ==
  ASSUME NEW s \in StepRecord, NEW r \in Nat, NEW b \in BOOLEAN
  PROVE  /\ [s EXCEPT !.reserved = r] \in StepRecord
         /\ [s EXCEPT !.cost = r] \in StepRecord
         /\ [s EXCEPT !.degraded = b] \in StepRecord
         /\ [s EXCEPT !.reserved = r, !.degraded = b] \in StepRecord
  BY DEF StepRecord

LEMMA PrepareStepSpends ==
  ASSUME SpendInv, PrepareStep
  PROVE  SpendInv'
<1>1. /\ stage = "prepare" /\ spent + step.estimate <= Cap
      /\ step' = [step EXCEPT !.reserved = step.estimate]
      /\ spent' = spent + step.estimate /\ stage' = "answer"
      /\ UNCHANGED <<reserve, attempts, agg, lost, calls, asked, billed>>
  BY DEF PrepareStep, WithinBudget, onlyStep
<1>2. stage \notin Writers
  BY <1>1 DEF Writers
<1>3. step \in StepRecord /\ step.estimate \in Nat /\ step.reserved = 0 /\ step.cost = 0
  BY <1>1, RunAssumption DEF SpendInv, MoneyTypes, StepCovered, Stepping, StepRecord
<1>4. /\ step' \in StepRecord
      /\ step'.reserved = step.estimate /\ step'.cost = 0 /\ step'.estimate = step.estimate
  BY <1>1, <1>3, StepFields DEF StepRecord
<1>5. asked = 0
  BY <1>1 DEF SpendInv, MoneyTypes, ChallengeCovered
<1>6. MoneyTypes'
  BY <1>1, <1>2, <1>3, <1>4, BetweenWriters DEF MoneyTypes, StepRecord
<1>7. AttemptsCovered'
  BY <1>1, <1>2, <1>3, BetweenWriters, NoAttempts
<1>8. ChallengeCovered' /\ StepCovered'
  BY <1>1, <1>2, <1>3, <1>4, <1>5, BetweenWriters
  DEF SpendInv, ChallengeCovered, StepCovered, Stepping
<1>9. LedgerCovered'
  BY <1>1, <1>2, <1>3, <1>4, BetweenWriters DEF LedgerCovered
<1> QED
  BY <1>6, <1>7, <1>8, <1>9 DEF SpendInv

LEMMA StepThrewSpends ==
  ASSUME SpendInv, NEW cost \in ThrownCosts, StepThrew(cost)
  PROVE  SpendInv'
<1>1. /\ stage = "answer" /\ billed' = billed + cost /\ spent' = spent
      /\ step' = [step EXCEPT !.reserved = 0, !.degraded = TRUE]
      /\ stage' = "complete"
      /\ UNCHANGED <<reserve, attempts, agg, lost, calls, asked>>
  BY DEF StepThrew, KeptReservation, onlyStep
<1>2. stage \notin Writers /\ cost \in Nat /\ cost <= Estimate
  BY <1>1, RunAssumption DEF Writers
<1>3. step \in StepRecord /\ step.reserved = step.estimate /\ step.cost = 0
  BY <1>1 DEF SpendInv, MoneyTypes, StepCovered, StepRecord
<1>4. step.estimate \in StepEstimates
  BY <1>3 DEF StepRecord
<1>5. step.reserved >= cost
  <2>1. step.estimate \in Nat /\ step.estimate >= Estimate
    BY <1>4, RunAssumption
  <2> QED
    BY <2>1, <1>2, <1>3, RunAssumption
<1>6. step' \in StepRecord /\ step'.reserved = 0 /\ step'.cost = 0
  BY <1>1, <1>3, StepFields DEF StepRecord
<1>7. asked = 0
  BY <1>1 DEF SpendInv, MoneyTypes, ChallengeCovered
<1>8. MoneyTypes'
  BY <1>1, <1>2, <1>6, BetweenWriters DEF MoneyTypes, StepRecord
<1>9. AttemptsCovered'
  BY <1>1, <1>2, BetweenWriters, NoAttempts
<1>10. ChallengeCovered' /\ StepCovered'
  BY <1>1, <1>2, <1>6, <1>7, BetweenWriters DEF ChallengeCovered, StepCovered, Stepping
<1>11. LedgerCovered'
  BY <1>1, <1>2, <1>3, <1>5, <1>6, BetweenWriters DEF LedgerCovered
<1> QED
  BY <1>8, <1>9, <1>10, <1>11 DEF SpendInv

LEMMA StepAnsweredSpends ==
  ASSUME SpendInv, NEW cost \in Nat, StepAnswered(cost)
  PROVE  SpendInv'
<1>1. /\ stage = "answer" /\ cost <= step.reserved /\ billed' = billed + cost
      /\ step' = [step EXCEPT !.cost = cost] /\ stage' \in {"tools", "close"}
      /\ UNCHANGED <<reserve, attempts, agg, lost, calls, asked, spent>>
  BY DEF StepAnswered, onlyStep
<1>2. stage \notin Writers
  BY <1>1 DEF Writers
<1>3. step \in StepRecord /\ step.cost = 0
  BY <1>1 DEF SpendInv, MoneyTypes, StepCovered, StepRecord
<1>4. step' \in StepRecord /\ step'.reserved = step.reserved /\ step'.cost = cost
  BY <1>1, <1>3, StepFields DEF StepRecord
<1>5. asked = 0
  BY <1>1 DEF SpendInv, MoneyTypes, ChallengeCovered
<1>6. MoneyTypes'
  BY <1>1, <1>2, <1>4, BetweenWriters DEF MoneyTypes, StepRecord
<1>7. AttemptsCovered'
  BY <1>1, <1>2, BetweenWriters, NoAttempts
<1>8. ChallengeCovered' /\ StepCovered'
  BY <1>1, <1>2, <1>3, <1>4, <1>5, BetweenWriters
  DEF SpendInv, ChallengeCovered, StepCovered, Stepping
<1>9. LedgerCovered'
  BY <1>1, <1>2, <1>3, <1>4, BetweenWriters DEF LedgerCovered
<1> QED
  BY <1>6, <1>7, <1>8, <1>9 DEF SpendInv

LEMMA NextStepFields ==
  ASSUME NEW s \in StepRecord, NEW next \in StepEstimates,
         s.number + 1 \in Nat, s.own + s.cost \in Nat, NEW t,
         t = [s EXCEPT !.number = @ + 1, !.reserved = 0, !.estimate = next,
                       !.own = @ + s.cost, !.cost = 0]
  PROVE  t \in StepRecord /\ t.reserved = 0 /\ t.cost = 0
<1>1. PICK z \in Nat : z = 0
  OBVIOUS
<1>2. PICK n \in Nat, o \in Nat : n = s.number + 1 /\ o = s.own + s.cost
  OBVIOUS
<1>3. t = [s EXCEPT !.number = n, !.reserved = z, !.estimate = next, !.own = o, !.cost = z]
  BY <1>1, <1>2
<1>4. t \in StepRecord
  BY <1>3, Zenon DEF StepRecord
<1>5. t.reserved = z /\ t.cost = z
  BY <1>3, Zenon DEF StepRecord
<1> QED
  BY <1>1, <1>4, <1>5

LEMMA StepFinishedSpends ==
  ASSUME SpendInv, StepFinished
  PROVE  SpendInv'
<1>1. /\ stage \in {"tools", "close"} /\ asked = 0
      /\ spent' = spent + step.cost - step.reserved
      /\ stage' \in {"complete", "prepare"}
      /\ UNCHANGED <<reserve, attempts, agg, lost, calls, asked, billed>>
  BY DEF StepFinished, onlyStep
<1>2. PICK next \in StepEstimates :
          step' = [step EXCEPT !.number = @ + 1, !.reserved = 0, !.estimate = next,
                               !.own = @ + step.cost, !.cost = 0]
  BY DEF StepFinished
<1>3. stage \notin Writers
  BY <1>1 DEF Writers
<1>4. step \in StepRecord /\ step.cost <= step.reserved
  BY <1>1 DEF SpendInv, MoneyTypes, StepCovered, StepRecord
<1>5. step' \in StepRecord /\ step'.reserved = 0 /\ step'.cost = 0
  <2>1. step.number + 1 \in Nat /\ step.own + step.cost \in Nat
    BY <1>4 DEF StepRecord
  <2> QED
    BY <2>1, <1>2, <1>4, NextStepFields, Zenon
<1>6. billed - lost <= spent'  /\ spent' \in Int /\ spent' <= Cap
  BY <1>1, <1>3, <1>4, BetweenWriters, RunAssumption
<1>7. spent' >= 0
  BY <1>1, <1>3, BetweenWriters DEF SpendInv, StepCovered
<1>8. MoneyTypes'
  BY <1>1, <1>3, <1>5, <1>6, <1>7, BetweenWriters DEF MoneyTypes, StepRecord
<1>9. AttemptsCovered'
  BY <1>1, <1>3, <1>6, <1>8, NoAttempts DEF MoneyTypes
<1>10. ChallengeCovered' /\ StepCovered'
  BY <1>1, <1>5, <1>8 DEF ChallengeCovered, StepCovered, Stepping, MoneyTypes
<1>11. LedgerCovered'
  BY <1>1, <1>3, <1>5, <1>6, BetweenWriters DEF LedgerCovered
<1> QED
  BY <1>8, <1>9, <1>10, <1>11 DEF SpendInv
-----------------------------------------------------------------------------
(* The whole run.                                                          *)

LEMMA InvestigateSpends ==
  ASSUME SpendInv, Investigate
  PROVE  SpendInv'
<1>t. step \in StepRecord
  BY DEF SpendInv, MoneyTypes, StepRecord
<1>q. asked = 1 => stage \in {"challenge", "tools"}
  BY DEF SpendInv, ChallengeCovered
<1>s. stage \in {"prepare", "answer", "tools", "close", "complete"} => stage \notin Writers
  BY DEF Writers
<1>1. CASE PrepareStep
  BY <1>1, PrepareStepSpends
<1>2. CASE StepBlocked
  <2>1. /\ stage = "prepare" /\ stage' = "complete" /\ UNCHANGED <<moneyVars, asked>>
        /\ step' = [step EXCEPT !.degraded = TRUE]
    BY <1>2 DEF StepBlocked, onlyStep, moneyVars
  <2>2. /\ step' \in StepRecord /\ step'.reserved = step.reserved
        /\ step'.cost = step.cost /\ step'.estimate = step.estimate
    BY <2>1, <1>t, StepFields DEF StepRecord
  <2>3. asked # 1
    BY <2>1, <1>q
  <2> QED
    BY <2>1, <2>2, <2>3, <1>s, IdleSpends DEF Stepping
<1>3. CASE StepFinished
  BY <1>3, StepFinishedSpends
<1>4. CASE CompleteInvestigation
  <2>1. /\ stage = "complete" /\ stage' \in {"challenge", "decide"}
        /\ UNCHANGED <<moneyVars, asked, step>>
    BY <1>4 DEF CompleteInvestigation
  <2>2. asked # 1
    BY <2>1, <1>q
  <2> QED
    BY <2>1, <2>2, <1>s, <1>t, IdleSpends DEF Stepping
<1>5. ASSUME NEW cost \in ThrownCosts, StepThrew(cost) PROVE SpendInv'
  BY <1>5, StepThrewSpends
<1>6. ASSUME NEW cost \in LiveCosts \cup StepEstimates, StepAnswered(cost) PROVE SpendInv'
  BY <1>6, RunAssumption, StepAnsweredSpends
<1>7. CASE CheckCorroboration \/ AssessExposure \/ SimulateRunway
  <2>1. stage = "tools" /\ stage' = stage /\ UNCHANGED <<moneyVars, asked, step>>
    BY <1>7 DEF CheckCorroboration, AssessExposure, SimulateRunway
  <2> QED
    BY <2>1, <1>s, <1>t, IdleSpends
<1>8. CASE DrillOffContext
  <2>1. /\ stage = "tools" /\ stage' = stage /\ UNCHANGED <<moneyVars, asked>>
        /\ step' = [step EXCEPT !.degraded = TRUE]
    BY <1>8 DEF DrillOffContext
  <2>2. /\ step' \in StepRecord /\ step'.reserved = step.reserved
        /\ step'.cost = step.cost /\ step'.estimate = step.estimate
    BY <2>1, <1>t, StepFields DEF StepRecord
  <2> QED
    BY <2>1, <2>2, <1>s, IdleSpends
<1> QED
  BY <1>1, <1>2, <1>3, <1>4, <1>5, <1>6, <1>7, <1>8 DEF Investigate

LEMMA SpendStep ==
  ASSUME SpendInv, [Next]_vars
  PROVE  SpendInv'
<1>t. step \in StepRecord
  BY DEF SpendInv, MoneyTypes, StepRecord
<1>q. asked = 1 => stage \in {"challenge", "tools"}
  BY DEF SpendInv, ChallengeCovered
<1>1. CASE Write
  BY <1>1, WriteSpends
<1>2. CASE Challenge
  BY <1>2, ChallengeSpends
<1>3. CASE Investigate
  BY <1>3, InvestigateSpends
<1>4. CASE Analyse
  <2>1. /\ stage = "analyse" /\ stage' = "challenge"
        /\ UNCHANGED <<moneyVars, asked, step>>
    BY <1>4 DEF Analyse
  <2> QED
    BY <2>1, <1>t, IdleSpends DEF Stepping, Writers
<1>5. CASE ActOrRefuse \/ Assemble
  <2>1. /\ stage \in {"decide", "gatekeeper"}
        /\ stage' \in {"gatekeeper", "strategist", "packet", "error"}
        /\ UNCHANGED <<moneyVars, asked, step>>
    BY <1>5 DEF ActOrRefuse, Assemble
  <2>2. asked # 1
    BY <2>1, <1>q
  <2> QED
    BY <2>1, <2>2, <1>t, IdleSpends DEF Stepping, Writers
<1>6. CASE UNCHANGED vars
  <2>1. UNCHANGED <<stage, spent, reserve, attempts, agg, billed, lost, calls, asked, step,
                    request, exposure>>
    BY <1>6 DEF vars, moneyVars, findingVars
  <2>2. CallsModel' = CallsModel
    BY <2>1 DEF CallsModel
  <2>3. MoneyTypes' /\ ChallengeCovered' /\ StepCovered' /\ LedgerCovered'
    BY <2>1 DEF SpendInv, MoneyTypes, ChallengeCovered, StepCovered, LedgerCovered
  <2>4. AttemptsCovered'
    BY <2>1, <2>2 DEF SpendInv, AttemptsCovered
  <2> QED
    BY <2>3, <2>4 DEF SpendInv
<1> QED
  BY <1>1, <1>2, <1>3, <1>4, <1>5, <1>6 DEF Next

LEMMA SpendInvImplies == SpendInv => SpendCapped
<1> SUFFICES ASSUME SpendInv PROVE SpendCapped
  OBVIOUS
<1>1. /\ spent \in Nat /\ attempts \in Nat /\ agg \in Nat /\ billed \in Nat /\ lost \in Nat
      /\ step.reserved \in Nat /\ step.cost \in Nat
  BY DEF SpendInv, MoneyTypes
<1>2. attempts * Estimate \in Nat
  BY <1>1, AnotherAttempt
<1>3. spent + attempts * Estimate <= Cap /\ agg <= attempts * Estimate
  BY DEF SpendInv, AttemptsCovered
<1>4. step.cost <= step.reserved
  <2>1. stage \in Stepping => stage = "answer" \/ stage \in {"tools", "close"}
    BY DEF Stepping
  <2> QED
    BY <2>1, <1>1 DEF SpendInv, StepCovered
<1>5. billed - lost + step.reserved - step.cost <= spent + agg
  BY DEF SpendInv, LedgerCovered
<1>6. billed - lost <= spent + agg
  BY <1>1, <1>4, <1>5
<1>7. spent <= Cap /\ billed - lost <= Cap
  BY <1>1, <1>2, <1>3, <1>6, RunAssumption
<1> QED
  BY <1>6, <1>7 DEF SpendCapped

\* The hard stop of budget.ts holds whatever the cap, the estimates, the prices
\* below them and the number of retries and steps are: the run's total, and
\* every charge it was told of, stay under the cap.
THEOREM SpendStaysCapped == Spec => []SpendCapped
<1>1. SpendInv /\ [Next]_vars => SpendInv'
  BY SpendStep
<1> QED
  BY SpendInit, <1>1, SpendInvImplies, PTL DEF Spec
-----------------------------------------------------------------------------
(* How often the run calls: a writer that is done has used one call and what *)
(* it took from the reserve the writers share.                              *)

AfterSentinel == {"analyse", "challenge", "prepare", "answer", "tools", "close",
                  "complete", "decide", "strategist"}

WriterCalls ==
    /\ calls.writer + reserve <= 3 + Reserve
    /\ stage = "sentinel" => calls.writer + reserve <= Reserve
    /\ stage \in AfterSentinel => calls.writer + reserve <= 1 + Reserve
    /\ stage = "dispatcher" => calls.writer + reserve <= 2 + Reserve

\* The critic was asked only if a challenge is under way or has been judged.
CriticCalls ==
    /\ calls.critic <= 1
    /\ asked = 0 /\ verdict = None => calls.critic = 0
    /\ stage \in {"sentinel", "analyse", "challenge"} => verdict = None

CallInv == MoneyTypes /\ WriterCalls /\ CriticCalls

LEMMA CallInit == Init => CallInv
<1> SUFFICES ASSUME Init PROVE CallInv
  OBVIOUS
<1>1. MoneyTypes
  BY SpendInit DEF SpendInv
<1> QED
  BY <1>1, RunAssumption DEF Init, CallInv, WriterCalls, CriticCalls, AfterSentinel

\* Where a writer leaves the orchestrator.
LEMMA WriterLeadsTo ==
  ASSUME Writing, stage' = StageAfterWriter
  PROVE  /\ stage = "sentinel" => stage' \in {"prepare", "analyse"}
         /\ stage = "strategist" => stage' = "dispatcher"
         /\ stage = "dispatcher" => stage' = "gatekeeper"
         /\ stage \in Writers
  BY DEF Writing, WriterAt, StageAfterWriter, Writers

\* What a step of a writer does to the counters: it is done after at most one
\* more call, or it calls once more at the cost of the reserve.
LEMMA WriteShape ==
  ASSUME MoneyTypes, Write
  PROVE  /\ Writing /\ UNCHANGED <<verdict, asked>>
         /\ calls'.critic = calls.critic
         /\ \/ /\ stage' = StageAfterWriter /\ reserve' = reserve
               /\ calls'.writer \in {calls.writer, calls.writer + 1}
            \/ /\ stage' = stage /\ reserve' = reserve - 1
               /\ calls'.writer = calls.writer + 1
<1>b. ASSUME NEW cost, Bills(cost)
      PROVE  calls'.writer = calls.writer + 1 /\ calls'.critic = calls.critic
  <2>1. \A c \in [writer: Nat, critic: Nat] : \A n \in Nat :
            [c EXCEPT !.writer = n].writer = n /\ [c EXCEPT !.writer = n].critic = c.critic
    OBVIOUS
  <2>2. calls \in [writer: Nat, critic: Nat] /\ calls.writer + 1 \in Nat
    BY DEF MoneyTypes
  <2>3. calls' = [calls EXCEPT !.writer = calls.writer + 1]
    BY <1>b DEF Bills
  <2> QED
    BY <2>1, <2>2, <2>3
<1>1. CASE WriteByRule
  BY <1>1 DEF WriteByRule, Emits
<1>2. CASE WriteBlocked
  BY <1>2 DEF WriteBlocked, Emits
<1>3. ASSUME NEW cost, WriteAccepted(cost) \/ WriteRejected(cost) \/ WriteThrew(cost)
      PROVE  /\ Writing /\ UNCHANGED <<verdict, asked, reserve>> /\ Bills(cost)
             /\ stage' = StageAfterWriter
  BY <1>3 DEF WriteAccepted, WriteRejected, WriteThrew, Emits
<1>4. ASSUME NEW cost, WriteRetried(cost)
      PROVE  /\ Writing /\ UNCHANGED <<verdict, asked, stage>> /\ Bills(cost)
             /\ reserve' = reserve - 1
  BY <1>4 DEF WriteRetried, findingVars
<1> QED
  BY <1>b, <1>1, <1>2, <1>3, <1>4 DEF Write

LEMMA WriteKeepsCalls ==
  ASSUME CallInv, MoneyTypes', Write
  PROVE  CallInv'
<1>1. /\ calls.writer \in Nat /\ calls'.writer \in Nat /\ reserve \in Nat /\ reserve' \in Nat
      /\ MoneyTypes
  BY DEF CallInv, MoneyTypes
<1>2. CriticCalls'
  <2>1. stage' \notin {"challenge", "sentinel", "analyse"} \/ stage = "sentinel" \/ stage' = stage
    BY <1>1, WriteShape, WriterLeadsTo DEF Writers
  <2> QED
    BY <1>1, <2>1, WriteShape DEF CallInv, CriticCalls
<1>3. WriterCalls'
  <2>1. CASE /\ stage' = StageAfterWriter /\ reserve' = reserve
             /\ calls'.writer \in {calls.writer, calls.writer + 1}
    BY <1>1, <2>1, WriteShape, WriterLeadsTo, RunAssumption
    DEF CallInv, WriterCalls, AfterSentinel, Writers
  <2>2. CASE stage' = stage /\ reserve' = reserve - 1 /\ calls'.writer = calls.writer + 1
    BY <1>1, <2>2, RunAssumption DEF CallInv, WriterCalls
  <2> QED
    BY <1>1, <2>1, <2>2, WriteShape
<1> QED
  BY <1>2, <1>3 DEF CallInv

LEMMA ChallengeKeepsCalls ==
  ASSUME SpendInv, CallInv, MoneyTypes', Challenge
  PROVE  CallInv'
<1>1. /\ calls \in [writer: Nat, critic: Nat] /\ reserve \in Nat /\ asked \in {0, 1}
  BY DEF CallInv, MoneyTypes
<1>2. ASSUME NEW run, NEW judgement, Judged(run, judgement), judgement \in Verdict,
             UNCHANGED calls, stage \in {"challenge", "tools"}
      PROVE  CallInv'
  <2>1. /\ verdict' # None /\ UNCHANGED <<reserve, calls>>
        /\ stage' = (IF stage = "challenge" THEN "decide" ELSE stage)
    BY <1>2, RunAssumption DEF Judged
  <2> QED
    BY <1>2, <2>1 DEF CallInv, WriterCalls, CriticCalls, AfterSentinel
<1>3. CASE ChallengeAsked
  <2>1. /\ CanChallenge /\ asked' = asked + 1 /\ UNCHANGED <<stage, reserve, verdict>>
        /\ calls' = [calls EXCEPT !.critic = @ + 1]
    BY <1>3 DEF ChallengeAsked, findingVars
  <2>2. asked = 0 /\ verdict = None /\ calls.critic = 0
    BY <2>1 DEF CanChallenge, NotInFlight, CallInv, CriticCalls
  <2>3. calls'.critic = 1 /\ calls'.writer = calls.writer
    <3>1. \A c \in [writer: Nat, critic: Nat] : \A n \in Nat :
              [c EXCEPT !.critic = n].critic = n /\ [c EXCEPT !.critic = n].writer = c.writer
      OBVIOUS
    <3>2. calls' = [calls EXCEPT !.critic = calls.critic + 1] /\ calls.critic + 1 = 1
      BY <2>1, <2>2
    <3> QED
      BY <1>1, <3>1, <3>2
  <2> QED
    BY <1>1, <2>1, <2>2, <2>3 DEF CallInv, WriterCalls, CriticCalls
<1>4. [accepted |-> TRUE, errored |-> FALSE] \in Verdict /\ Hold \in Verdict
  BY DEF Verdict, Hold
<1>5. CanChallenge \/ asked > 0 => stage \in {"challenge", "tools"}
  BY <1>1 DEF CanChallenge, SpendInv, ChallengeCovered
<1>6. CASE ChallengeByRule
  BY <1>2, <1>4, <1>5, <1>6 DEF ChallengeByRule
<1>7. CASE ChallengeBlocked
  BY <1>2, <1>4, <1>5, <1>7 DEF ChallengeBlocked
<1>8. CASE ChallengeAnswered
  <2>1. PICK accepted \in BOOLEAN :
            Judged(Live(CriticEstimate), [accepted |-> accepted, errored |-> FALSE])
    BY <1>8 DEF ChallengeAnswered
  <2>2. [accepted |-> accepted, errored |-> FALSE] \in Verdict
    BY DEF Verdict
  <2>3. UNCHANGED calls /\ asked > 0
    BY <1>8 DEF ChallengeAnswered
  <2> QED
    BY <1>2, <1>5, <2>1, <2>2, <2>3
<1>9. ASSUME NEW cost, ChallengeBroke(cost) PROVE CallInv'
  BY <1>2, <1>4, <1>5, <1>9 DEF ChallengeBroke
<1> QED
  BY <1>3, <1>6, <1>7, <1>8, <1>9 DEF Challenge

LEMMA CallStep ==
  ASSUME SpendInv, CallInv, [Next]_vars
  PROVE  CallInv'
<1>1. MoneyTypes'
  BY SpendStep DEF SpendInv
<1>2. CASE Write
  BY <1>1, <1>2, WriteKeepsCalls
<1>3. CASE Challenge
  BY <1>1, <1>3, ChallengeKeepsCalls
<1>4. ASSUME UNCHANGED <<calls, reserve, verdict, asked>>,
             \/ stage \in AfterSentinel /\ stage' \in AfterSentinel
                /\ (stage' \in {"analyse", "challenge"} => verdict = None)
             \/ stage \in AfterSentinel \cup {"gatekeeper"}
                /\ stage' \in {"gatekeeper", "packet", "error"}
             \/ stage' = stage
      PROVE  CallInv'
  <2>1. calls.writer \in Nat /\ reserve \in Nat
    BY DEF CallInv, MoneyTypes
  <2>2. WriterCalls'
    BY <1>4, <2>1, RunAssumption DEF CallInv, WriterCalls, AfterSentinel
  <2>3. CriticCalls'
    BY <1>4 DEF CallInv, CriticCalls, AfterSentinel
  <2> QED
    BY <1>1, <2>2, <2>3 DEF CallInv
<1>5. CASE Analyse
  <2>1. /\ stage = "analyse" /\ stage' = "challenge"
        /\ UNCHANGED <<calls, reserve, verdict, asked>>
    BY <1>5 DEF Analyse, moneyVars
  <2> QED
    BY <1>4, <2>1 DEF AfterSentinel, CallInv, CriticCalls
<1>6. CASE Investigate
  <2>1. UNCHANGED <<calls, reserve, verdict, asked>>
    BY <1>6
    DEF Investigate, PrepareStep, StepBlocked, StepThrew, StepAnswered, StepFinished,
        CheckCorroboration, AssessExposure, SimulateRunway, DrillOffContext,
        CompleteInvestigation, onlyStep, moneyVars, findingVars
  <2>2. /\ stage \in AfterSentinel /\ stage' \in AfterSentinel
        /\ stage' \in {"analyse", "challenge"} => verdict = None
    BY <1>6
    DEF Investigate, PrepareStep, StepBlocked, StepThrew, StepAnswered, StepFinished,
        CheckCorroboration, AssessExposure, SimulateRunway, DrillOffContext,
        CompleteInvestigation, NoVerdictYet, AfterSentinel
  <2> QED
    BY <1>4, <2>1, <2>2
<1>7. CASE ActOrRefuse \/ Assemble
  <2>1. UNCHANGED <<calls, reserve, verdict, asked>>
    BY <1>7 DEF ActOrRefuse, Assemble, moneyVars, findingVars
  <2>2. \/ stage = "decide" /\ stage' \in {"gatekeeper", "strategist"}
        \/ stage = "gatekeeper" /\ stage' \in {"packet", "error"}
    BY <1>7 DEF ActOrRefuse, Assemble
  <2> QED
    BY <1>4, <2>1, <2>2 DEF AfterSentinel
<1>8. CASE UNCHANGED vars
  BY <1>4, <1>8 DEF vars, moneyVars, findingVars
<1> QED
  BY <1>2, <1>3, <1>5, <1>6, <1>7, <1>8 DEF Next

LEMMA ThreeWriters == Cardinality(Writer) = 3
<1>1. IsFiniteSet({}) /\ Cardinality({}) = 0
  BY FS_EmptySet
<1>2. IsFiniteSet({"Sentinel"}) /\ Cardinality({"Sentinel"}) = 1
  BY FS_Singleton
<1>3. /\ IsFiniteSet({"Sentinel"} \cup {"Strategist"})
      /\ Cardinality({"Sentinel"} \cup {"Strategist"}) = 2
  BY <1>2, FS_AddElement
<1>4. Cardinality(({"Sentinel"} \cup {"Strategist"}) \cup {"Dispatcher"}) = 3
  BY <1>3, FS_AddElement
<1>5. Writer = ({"Sentinel"} \cup {"Strategist"}) \cup {"Dispatcher"}
  BY DEF Writer
<1> QED
  BY <1>4, <1>5

\* The documented ceiling of calls holds for every size of the retry reserve,
\* every number of steps and every order of the tool calls.
THEOREM CallsStayCapped == Spec => []CallCeiling
<1>1. SpendInv /\ [Next]_vars => SpendInv'
  BY SpendStep
<1>2. SpendInv /\ CallInv /\ [Next]_vars => CallInv'
  BY CallStep
<1>3. CallInv => CallCeiling
  <2>1. CallInv => calls.writer \in Nat /\ reserve \in Nat
    BY DEF CallInv, MoneyTypes
  <2> QED
    BY <2>1, ThreeWriters, RunAssumption DEF CallInv, WriterCalls, CriticCalls, CallCeiling
<1> QED
  BY SpendInit, CallInit, <1>1, <1>2, <1>3, PTL DEF Spec

-----------------------------------------------------------------------------
(* What a run decides and what its packet shows.                           *)

LoopStages == {"prepare", "answer", "tools", "close", "complete"}
Decided == {"strategist", "dispatcher", "gatekeeper", "packet", "error"}
Judging == {"decide"} \cup Decided

Request == [scenario: Scenarios, signals: Fetches, live: BOOLEAN, route: Routes,
            critic: BOOLEAN]
Decision == [recommendation: Recommendation, missing: SUBSET Gap, outcome: Outcome]

FindingTypes ==
    /\ request \in Request
    /\ stage \in Stage
    /\ runs \in [Agent -> Run \cup {None}]
    /\ card \in Card \cup {None}
    /\ checks \in Checks \cup {None}
    /\ exposure \in Exposure \cup {None}
    /\ verdict \in Verdict \cup {None}
    /\ decision \in Decision \cup {None}
    /\ clears \in BOOLEAN
    /\ broken \subseteq Writer \cup {"Skeptic", "Investigator"}

\* The loop goes on only below its last step, and reserves what it estimated.
StepBounded ==
    /\ step.number \in 0..MaxSteps
    /\ stage \in {"sentinel", "prepare", "answer", "tools", "close"} => step.number < MaxSteps
    /\ step.reserved \in StepEstimates \cup {0}

\* Which parts of the finding a stage has.
Flow ==
    /\ stage # "sentinel" => card \in Card
    /\ stage = "sentinel" => checks = None
    /\ stage \in {"challenge"} \cup Judging => checks \in Checks /\ exposure \in Exposure
    /\ stage \in Judging => verdict \in Verdict
    /\ stage \in {"sentinel", "analyse", "challenge"} => verdict = None
    /\ asked = 1 => verdict = None /\ request.live
    /\ stage \in LoopStages => Looping

\* The checks counted outlets of signals that the run fetched, and on the
\* waterfall of those that Sentinel cited.
EvidenceKnown ==
    checks # None =>
        /\ checks.corroborated <=> checks.sources >= 2
        /\ \E signals \in SUBSET request.signals :
               checks.sources = Cardinality(Outlets(signals))
        /\ request.live /\ request.route = "WATERFALL" =>
               checks.sources = Cardinality(Outlets(request.signals \cap card.cited))

\* The decision was computed from the finding the packet carries, over a card
\* whose live confidence nothing but corroboration lifts over the floor.
Gated ==
    stage \in Decided =>
        /\ request.live /\ ~checks.corroborated => card.confidence < Floor
        /\ decision = ApplySkepticGate(
               Decide(checks.corroborated, card.confidence, exposure),
               verdict,
               Strong(checks, card.confidence, exposure))

\* What a recorded run says of its agent: it degraded exactly when the agent
\* broke, it does not pass then, and it is live only in a live run.
RunKnown(run, agent) ==
    /\ run.mode = "FAILED_TO_FALLBACK" <=> agent \in broken
    /\ agent \in broken /\ agent # "Investigator" => ~run.pass
    /\ run.mode = "LIVE_AI" => request.live

RunsKnown ==
    \A a \in Agent :
        /\ runs[a] # None => RunKnown(runs[a], a)
        /\ a \in broken => runs[a] # None \/ (a = "Investigator" /\ stage \in LoopStages)

\* When an agent can have broken, and what it left.
BrokenKnown ==
    /\ stage = "sentinel" => "Sentinel" \notin broken
    /\ stage # "sentinel" =>
           /\ runs["Sentinel"] # None
           /\ request.live => runs["Sentinel"].mode # "DETERMINISTIC_RULES"
    /\ "Strategist" \in broken => stage \in Decided \ {"strategist"}
    /\ "Dispatcher" \in broken => stage \in Decided \ {"strategist", "dispatcher"}
    /\ "Skeptic" \in broken => verdict = Hold
    /\ stage \in LoopStages \cup {"sentinel"} =>
           /\ "Investigator" \in broken <=> step.degraded
           /\ runs["Investigator"] = None

\* What the gatekeeper let through had no failing run.
ClearedKnown ==
    clears => /\ stage \in {"packet", "error"}
              /\ \A a \in Agent : runs[a] # None => runs[a].pass

GateInv ==
    /\ FindingTypes /\ StepBounded /\ Flow /\ EvidenceKnown /\ Gated
    /\ RunsKnown /\ BrokenKnown /\ ClearedKnown

-----------------------------------------------------------------------------
(* The gates of DecisionGates, for every input.                            *)

LEMMA OutletsFinite ==
  ASSUME NEW signals \in SUBSET Signals
  PROVE  IsFiniteSet(Outlets(signals)) /\ Cardinality(Outlets(signals)) \in Nat
<1>1. IsFiniteSet(signals)
  BY GatesAssumption, FS_Subset
<1>2. IsFiniteSet({Outlet[s] : s \in signals})
  <2> DEFINE named == [s \in signals |-> Outlet[s]]
             labels == {Outlet[s] : s \in signals}
  <2>1. named \in Surjection(signals, labels)
    BY DEF Surjection
  <2> QED
    BY <1>1, <2>1, FS_Surjection, Zenon
<1>3. Outlets(signals) \subseteq {Outlet[s] : s \in signals}
  BY DEF Outlets
<1> QED
  BY <1>2, <1>3, FS_Subset, FS_CardinalityType

\* Signals that name one outlet are no two sources.
LEMMA OneOutletIsOne ==
  ASSUME NEW signals \in SUBSET Signals,
         \A s, t \in signals : Outlet[s] = Outlet[t] \/ Blank \in {Outlet[s], Outlet[t]}
  PROVE  Cardinality(Outlets(signals)) < 2
<1>1. CASE Outlets(signals) = {}
  BY <1>1, FS_EmptySet
<1>2. CASE Outlets(signals) # {}
  <2>1. PICK o \in Outlets(signals) : TRUE
    BY <1>2
  <2>2. Outlets(signals) \subseteq {o}
    BY <2>1 DEF Outlets
  <2>3. Cardinality({o}) = 1 /\ IsFiniteSet({o})
    BY FS_Singleton
  <2> QED
    BY <2>2, <2>3, FS_Subset, OutletsFinite
<1> QED
  BY <1>1, <1>2

LEMMA VerifyCounts ==
  ASSUME NEW signals \in SUBSET Signals, NEW c
  PROVE  /\ Verify(signals, c) \in Checks
         /\ Verify(signals, c).sources = Cardinality(Outlets(signals))
         /\ Verify(signals, c).corroborated <=> Verify(signals, c).sources >= 2
<1>1. GeoStatus(signals, c.country) \in Geo
  BY DEF GeoStatus, Geo
<1> DEFINE count == Cardinality(Outlets(signals))
           enough == count >= 2
<1>2. count \in Nat /\ enough \in BOOLEAN
  BY OutletsFinite
<1>3. Verify(signals, c) = [sources |-> count, corroborated |-> enough,
                            geo |-> GeoStatus(signals, c.country)]
  BY DEF Verify
<1> HIDE DEF count, enough
<1>4. Verify(signals, c) \in Checks
  BY <1>1, <1>2, <1>3 DEF Checks
<1>5. Verify(signals, c).sources = count /\ Verify(signals, c).corroborated = enough
  BY <1>3
<1>6. enough <=> count >= 2
  BY DEF enough
<1> QED
  BY <1>4, <1>5, <1>6, Zenon DEF count

LEMMA CapKeeps ==
  ASSUME NEW c \in Card, NEW live \in BOOLEAN, NEW corroborated \in BOOLEAN
  PROVE  /\ CapUncorroborated(c, live, corroborated) \in Card
         /\ CapUncorroborated(c, live, corroborated).cited = c.cited
         /\ live /\ ~corroborated => CapUncorroborated(c, live, corroborated).confidence < Floor
<1>1. Floor \in Nat /\ Floor - CapGap \in Nat /\ Floor - CapGap < Floor
  BY GatesAssumption
<1>2. /\ [c EXCEPT !.confidence = Floor - CapGap] \in Card
      /\ [c EXCEPT !.confidence = Floor - CapGap].cited = c.cited
      /\ [c EXCEPT !.confidence = Floor - CapGap].confidence = Floor - CapGap
  BY <1>1 DEF Card
<1>3. c.confidence \in Nat
  BY DEF Card
<1> QED
  BY <1>1, <1>2, <1>3 DEF CapUncorroborated

\* What the decision and the Skeptic's gate make of a finding.
LEMMA GateDecides ==
  ASSUME NEW corroborated \in BOOLEAN, NEW confidence \in Nat, NEW e \in Exposure,
         NEW v \in Verdict, NEW strong \in BOOLEAN,
         strong => corroborated /\ confidence >= Floor,
         NEW d, d = ApplySkepticGate(Decide(corroborated, confidence, e), v, strong)
  PROVE  /\ d \in Decision
         /\ Refuses(corroborated, confidence, e) => d.recommendation = "NO_ACTION"
         /\ v.errored => d.recommendation = "NO_ACTION"
         /\ ~v.accepted /\ d.recommendation = "ACT" => strong
         /\ d.recommendation = "NO_ACTION" => d.missing # {}
         /\ d.outcome = "ANNOTATED" => d.recommendation = "ACT"
         /\ d.outcome = "VETOED" => d.recommendation = "NO_ACTION"
<1> DEFINE base == Decide(corroborated, confidence, e)
<1>1. /\ base.recommendation \in Recommendation /\ base.missing \in SUBSET Gap
      /\ base.recommendation = "NO_ACTION" => base.missing # {}
      /\ base.recommendation = "NO_ACTION" <=> Refuses(corroborated, confidence, e)
  BY DEF Decide, Recommendation, Gap
<1>2. strong => ~Refuses(corroborated, confidence, e)
  BY DEF Refuses
<1>3. v.accepted \in BOOLEAN /\ v.errored \in BOOLEAN
  BY DEF Verdict
<1> HIDE DEF base
<1>4. /\ Veto(base) \in Decision /\ Veto(base).recommendation = "NO_ACTION"
      /\ Veto(base).missing # {} /\ Veto(base).outcome = "VETOED"
  BY <1>1 DEF Veto, Decision, Recommendation, Gap, Outcome
<1>5. ASSUME NEW o \in {"ACCEPTED", "ANNOTATED"}
      PROVE  /\ Keep(base, o) \in Decision /\ Keep(base, o).outcome = o
             /\ Keep(base, o).recommendation = base.recommendation
             /\ Keep(base, o).missing = base.missing
  BY <1>1 DEF Keep, Decision, Recommendation, Gap, Outcome
<1>6. d = ApplySkepticGate(base, v, strong)
  BY DEF base
<1>7. CASE v.errored
  BY <1>3, <1>4, <1>6, <1>7 DEF ApplySkepticGate
<1>8. CASE ~v.errored /\ v.accepted
  <2>1. d = Keep(base, "ACCEPTED")
    BY <1>3, <1>6, <1>8 DEF ApplySkepticGate
  <2> QED
    BY <1>1, <1>5, <1>8, <2>1
<1>9. CASE ~v.errored /\ ~v.accepted /\ strong
  <2>1. d = Keep(base, "ANNOTATED")
    BY <1>3, <1>6, <1>9 DEF ApplySkepticGate
  <2>2. base.recommendation = "ACT"
    BY <1>1, <1>2, <1>9 DEF Recommendation
  <2> QED
    BY <1>1, <1>5, <1>9, <2>1, <2>2
<1>10. CASE ~v.errored /\ ~v.accepted /\ ~strong
  <2>1. d = Veto(base)
    BY <1>3, <1>6, <1>10 DEF ApplySkepticGate
  <2> QED
    BY <1>4, <1>10, <2>1
<1> QED
  BY <1>7, <1>8, <1>9, <1>10

-----------------------------------------------------------------------------
(* The parts of the invariant under the steps that leave them alone.       *)

LEMMA GateInit == Init => GateInv
<1> SUFFICES ASSUME Init PROVE GateInv
  OBVIOUS
<1>1. FindingTypes
  BY DEF Init, FindingTypes, Request, Stage, Agent, Writer
<1>2. StepBounded
  BY RunAssumption DEF Init, StepBounded, LoopStages
<1>3. Flow /\ EvidenceKnown /\ Gated /\ ClearedKnown
  BY DEF Init, Flow, EvidenceKnown, Gated, ClearedKnown, Judging, Decided, LoopStages
<1>4. RunsKnown /\ BrokenKnown
  BY DEF Init, RunsKnown, BrokenKnown, LoopStages, Decided, Agent, Writer
<1> QED
  BY <1>1, <1>2, <1>3, <1>4 DEF GateInv

finding == <<request, card, checks, exposure, verdict, decision>>

\* Where a step may go that decides nothing.
Onward ==
    \/ stage' = stage
    \/ stage \in LoopStages /\ stage' \in LoopStages

LEMMA FindingKept ==
  ASSUME Flow, EvidenceKnown, Gated, UNCHANGED finding, Onward,
         asked' = 1 => asked = 1 \/ (verdict = None /\ request.live)
  PROVE  Flow' /\ EvidenceKnown' /\ Gated'
<1>1. UNCHANGED <<request, card, checks, exposure, verdict, decision>>
  BY DEF finding
<1>2. /\ stage' \in LoopStages \/ stage' = stage
      /\ stage \in LoopStages \/ stage' = stage
  BY DEF Onward
<1>3. Flow'
  BY <1>1, <1>2 DEF Flow, Looping, LoopStages, Judging, Decided
<1>4. EvidenceKnown'
  BY <1>1 DEF EvidenceKnown
<1>5. Gated'
  BY <1>1, <1>2 DEF Gated, LoopStages, Decided
<1> QED
  BY <1>3, <1>4, <1>5

\* A step that records no run, and breaks at most the Investigator inside its loop.
LEMMA RunsKept ==
  ASSUME RunsKnown, BrokenKnown, ClearedKnown, Onward,
         UNCHANGED <<request, runs, verdict, clears>>,
         \/ broken' = broken /\ step'.degraded = step.degraded
         \/ /\ stage \in LoopStages /\ broken' = broken \cup {"Investigator"}
            /\ step'.degraded
  PROVE  RunsKnown' /\ BrokenKnown' /\ ClearedKnown'
<1>1. \A a \in Agent : a # "Investigator" => (a \in broken' <=> a \in broken)
  OBVIOUS
<1>2. /\ stage' \in LoopStages \/ stage' = stage
      /\ stage \in LoopStages \/ stage' = stage
  BY DEF Onward
<1>3. {"Sentinel", "Strategist", "Dispatcher", "Skeptic", "Investigator"} \subseteq Agent
  BY DEF Agent, Writer
<1>4. "Investigator" \in broken' => "Investigator" \in broken \/ stage \in LoopStages
  OBVIOUS
<1>5. RunsKnown'
  <2> SUFFICES ASSUME NEW a \in Agent
               PROVE  /\ runs'[a] # None => RunKnown(runs[a], a)'
                      /\ a \in broken' => \/ runs'[a] # None
                                          \/ a = "Investigator" /\ stage' \in LoopStages
    BY DEF RunsKnown
  <2>1. CASE a # "Investigator" \/ broken' = broken
    <3>1. a \in broken' <=> a \in broken
      BY <1>1, <2>1
    <3> QED
      BY <1>2, <3>1 DEF RunsKnown, RunKnown
  <2>2. CASE a = "Investigator" /\ stage \in LoopStages
    BY <1>2, <2>2 DEF BrokenKnown, LoopStages
  <2> QED
    BY <2>1, <2>2
<1>6. BrokenKnown'
  <2>1. \A a \in {"Sentinel", "Strategist", "Dispatcher", "Skeptic"} :
            a \in broken' <=> a \in broken
    BY <1>1, <1>3
  <2>2. stage' \in LoopStages \cup {"sentinel"} =>
            /\ "Investigator" \in broken' <=> step'.degraded
            /\ runs'["Investigator"] = None
    BY <1>2 DEF BrokenKnown, LoopStages
  <2> QED
    BY <1>2, <2>1, <2>2 DEF BrokenKnown, LoopStages, Decided
<1>7. ClearedKnown'
  BY <1>2 DEF ClearedKnown, LoopStages
<1> QED
  BY <1>5, <1>6, <1>7

\* A step that records the runs of some agents, none of which had broken.
LEMMA RunsRecorded ==
  ASSUME FindingTypes, RunsKnown, NEW fresh \in SUBSET Agent, request' = request,
         \A a \in fresh : /\ runs'[a] \in Run
                          /\ RunKnown(runs[a], a)',
         \A a \in Agent \ fresh : runs'[a] = runs[a] /\ (a \in broken' <=> a \in broken),
         "Investigator" \notin fresh /\ stage \in LoopStages
             => stage' \in LoopStages \/ "Investigator" \notin broken
  PROVE  RunsKnown'
<1> SUFFICES ASSUME NEW a \in Agent
             PROVE  /\ runs'[a] # None => RunKnown(runs[a], a)'
                    /\ a \in broken' => \/ runs'[a] # None
                                        \/ a = "Investigator" /\ stage' \in LoopStages
  BY DEF RunsKnown
<1>1. CASE a \in fresh
  BY <1>1, InputAssumption
<1>2. CASE a \notin fresh
  BY <1>2 DEF RunsKnown, RunKnown
<1> QED
  BY <1>1, <1>2

-----------------------------------------------------------------------------
(* The writers.                                                            *)

\* What a writer may put on the threat card is a card.
LEMMA CardsAreCards ==
  ASSUME request \in Request
  PROVE  LiveCards \subseteq Card /\ DeterministicCard \in Card
<1>1. request.signals \in SUBSET Signals
  BY InputAssumption DEF Request
<1>2. request.scenario \in
          [match: Exposure, evidence: SUBSET Signals, confidence: Nat,
           country: Countries \cup {NoCountry}, chokepoint: BOOLEAN, inScope: BOOLEAN]
  BY InputAssumption DEF Request
<1>3. DeterministicCard \in Card
  BY <1>2 DEF DeterministicCard, Card
<1>4. LiveCards \subseteq Card
  <2> SUFFICES ASSUME NEW c \in LiveCards PROVE c \in Card
    OBVIOUS
  <2>1. c \in [cited: SUBSET Signals, confidence: Confidences, country: Countries,
               chokepoint: BOOLEAN]
    BY <1>1, <1>2 DEF LiveCards
  <2> QED
    BY <2>1, InputAssumption DEF Card
<1> QED
  BY <1>3, <1>4

\* The stages of a writer and the agent at work, as facts.
LEMMA WriterIs ==
  ASSUME Writing
  PROVE  /\ stage \in Writers /\ writer \in Writer /\ writer \in Agent
         /\ stage = "sentinel" <=> writer = "Sentinel"
         /\ stage = "strategist" <=> writer = "Strategist"
         /\ stage = "dispatcher" <=> writer = "Dispatcher"
  BY DEF Writing, WriterAt, writer, Writers, Writer, Agent

\* A writer that is done, however it ended: run is what it records, and it is
\* broken exactly if that run says so.
LEMMA WriterEnds ==
  ASSUME GateInv, asked = 0, Writing, NEW run \in Run, NEW cards \in SUBSET Card,
         Emits(run, cards),
         \/ run.mode # "FAILED_TO_FALLBACK" /\ broken' = broken
         \/ /\ run.mode = "FAILED_TO_FALLBACK" /\ ~run.pass
            /\ broken' = broken \cup {writer},
         run.mode = "LIVE_AI" => request.live,
         request.live /\ stage = "sentinel" => run.mode # "DETERMINISTIC_RULES"
  PROVE  FindingTypes' /\ Flow' /\ EvidenceKnown' /\ Gated' /\ RunsKnown' /\ BrokenKnown'
         /\ ClearedKnown'
<1>1. /\ runs' = [runs EXCEPT ![writer] = run]
      /\ stage' = StageAfterWriter
      /\ stage = "sentinel" => card' \in cards
      /\ stage # "sentinel" => card' = card
      /\ UNCHANGED <<request, checks, exposure, verdict, decision, clears, asked, step>>
  BY DEF Emits, WritesCard, outcomeVars
<1>2. /\ stage = "sentinel" => stage' = (IF Looping THEN "prepare" ELSE "analyse")
      /\ stage = "strategist" => stage' = "dispatcher"
      /\ stage = "dispatcher" => stage' = "gatekeeper"
      /\ stage \in {"sentinel", "strategist", "dispatcher"}
  BY <1>1, WriterIs DEF StageAfterWriter, Writers
<1>3. FindingTypes
  BY DEF GateInv
<1>4. runs \in [Agent -> Run \cup {None}]
  BY <1>3 DEF FindingTypes
<1>w. PICK w \in Writer :
          /\ w = writer /\ w \in Agent
          /\ stage = "sentinel" <=> w = "Sentinel"
          /\ stage = "strategist" <=> w = "Strategist"
          /\ stage = "dispatcher" <=> w = "Dispatcher"
  BY WriterIs
<1>5. /\ runs'[w] = run
      /\ \A a \in Agent \ {w} : runs'[a] = runs[a] /\ (a \in broken' <=> a \in broken)
      /\ runs' \in [Agent -> Run \cup {None}]
  BY <1>1, <1>4, <1>w
<1>6. w \notin broken
  BY <1>2, <1>w DEF GateInv, BrokenKnown, Decided
<1>7. FindingTypes'
  <2>1. card' \in Card \cup {None}
    BY <1>1, <1>3 DEF FindingTypes
  <2>2. stage' \in Stage
    BY <1>2 DEF Stage
  <2>3. broken' \subseteq Writer \cup {"Skeptic", "Investigator"}
    BY <1>3, <1>w DEF FindingTypes
  <2> QED
    BY <1>1, <1>3, <1>5, <2>1, <2>2, <2>3 DEF FindingTypes
<1>8. Flow'
  BY <1>1, <1>2 DEF GateInv, Flow, Looping, LoopStages, Judging, Decided
<1>9. EvidenceKnown'
  BY <1>1 DEF GateInv, Flow, EvidenceKnown
<1>10. Gated'
  BY <1>1, <1>2 DEF GateInv, Gated, Decided
<1>11. RunKnown(runs[w], w)'
  BY <1>1, <1>5, <1>6, <1>w DEF RunKnown, Writer
<1>12. RunsKnown'
  <2>1. runs'[w] \in Run /\ {w} \in SUBSET Agent
    BY <1>5, <1>w
  <2>2. stage \notin LoopStages
    BY <1>2 DEF LoopStages
  <2>3. RunsKnown /\ request' = request
    BY <1>1 DEF GateInv
  <2> QED
    BY <1>3, <1>5, <1>11, <2>1, <2>2, <2>3, RunsRecorded
<1>13. BrokenKnown'
  <2>1. {"Sentinel", "Strategist", "Dispatcher", "Skeptic", "Investigator"} \subseteq Agent
    BY DEF Agent, Writer
  <2>2. /\ "Skeptic" \in broken' => "Skeptic" \in broken
        /\ "Investigator" \in broken' <=> "Investigator" \in broken
        /\ "Strategist" \in broken' => "Strategist" \in broken \/ stage = "strategist"
        /\ "Dispatcher" \in broken' => "Dispatcher" \in broken \/ stage = "dispatcher"
        /\ runs'["Investigator"] = runs["Investigator"]
    BY <1>5, <2>1, <1>w DEF Writer
  <2>3. /\ runs'["Sentinel"] # None
        /\ request.live => runs'["Sentinel"].mode # "DETERMINISTIC_RULES"
    <3>1. CASE stage = "sentinel"
      BY <1>5, <3>1, <1>w, InputAssumption
    <3>2. CASE stage # "sentinel"
      BY <1>5, <2>1, <3>2, <1>w DEF GateInv, BrokenKnown
    <3> QED
      BY <3>1, <3>2
  <2> QED
    BY <1>1, <1>2, <2>2, <2>3 DEF GateInv, BrokenKnown, LoopStages, Decided
<1>14. ClearedKnown'
  BY <1>1, <1>2 DEF GateInv, ClearedKnown
<1> QED
  BY <1>7, <1>8, <1>9, <1>10, <1>12, <1>13, <1>14

\* The runs the code records, by how an agent ended.
LEMMA RunsAreRuns ==
  ASSUME NEW cost \in Nat
  PROVE  /\ Deterministic(TRUE) \in Run /\ Deterministic(FALSE) \in Run
         /\ Live(cost) \in Run /\ Fallback(cost) \in Run
         /\ \A pass \in BOOLEAN : Deterministic(pass).mode = "DETERMINISTIC_RULES"
         /\ Live(cost).mode = "LIVE_AI"
         /\ Fallback(cost).mode = "FAILED_TO_FALLBACK" /\ ~Fallback(cost).pass
  BY DEF Deterministic, Live, Fallback, Run, Mode

GateParts ==
    FindingTypes /\ Flow /\ EvidenceKnown /\ Gated /\ RunsKnown /\ BrokenKnown /\ ClearedKnown

LEMMA WriteGates ==
  ASSUME SpendInv, GateInv, Write
  PROVE  GateParts'
<1>r. request \in Request
  BY DEF GateInv, FindingTypes
<1>c. LiveCards \in SUBSET Card /\ {DeterministicCard} \in SUBSET Card
  BY <1>r, CardsAreCards
<1>w. Writing
  BY DEF Write, WriteByRule, WriteBlocked, WriteAccepted, WriteThrew, WriteRetried,
         WriteRejected
<1>a. asked = 0 /\ agg \in Nat
  BY <1>w, WriterIs DEF SpendInv, MoneyTypes, ChallengeCovered, Writers
<1>m. ASSUME NEW cost \in LiveCosts PROVE cost \in Nat /\ agg + cost \in Nat
  BY <1>a, RunAssumption
<1>f. ASSUME NEW cost \in Nat, Emits(Fallback(cost), {DeterministicCard}),
             broken' = broken \cup {writer}
      PROVE  GateParts'
  BY <1>a, <1>c, <1>f, <1>w, RunsAreRuns, WriterEnds DEF GateParts
<1>1. CASE WriteByRule
  <2>1. /\ Emits(Deterministic(TRUE), {DeterministicCard}) /\ broken' = broken
        /\ ~(request.live /\ stage = "sentinel")
    BY <1>1 DEF WriteByRule, CallsModel
  <2>2. Deterministic(TRUE) \in Run /\ Deterministic(TRUE).mode = "DETERMINISTIC_RULES"
    BY RunsAreRuns
  <2> QED
    BY <1>a, <1>c, <1>w, <2>1, <2>2, WriterEnds DEF GateParts
<1>2. CASE WriteBlocked
  BY <1>2, <1>f DEF WriteBlocked
<1>3. ASSUME NEW cost \in LiveCosts, WriteAccepted(cost) PROVE GateParts'
  <2>1. Emits(Live(agg + cost), LiveCards) /\ broken' = broken /\ request.live
    BY <1>3 DEF WriteAccepted, CallsModel
  <2> QED
    BY <1>a, <1>c, <1>m, <1>w, <2>1, RunsAreRuns, WriterEnds DEF GateParts
<1>4. ASSUME NEW cost \in LiveCosts, WriteRetried(cost) PROVE GateParts'
  <2>1. /\ UNCHANGED finding /\ Onward /\ asked' = asked
        /\ UNCHANGED <<request, runs, verdict, clears>>
        /\ broken' = broken /\ step' = step /\ stage' = stage
    BY <1>4 DEF WriteRetried, finding, Onward, findingVars, outcomeVars
  <2>2. Flow' /\ EvidenceKnown' /\ Gated'
    BY <2>1, FindingKept DEF GateInv
  <2>3. RunsKnown' /\ BrokenKnown' /\ ClearedKnown'
    BY <2>1, RunsKept DEF GateInv
  <2>4. FindingTypes'
    BY <2>1 DEF GateInv, FindingTypes, finding
  <2> QED
    BY <2>2, <2>3, <2>4 DEF GateParts
<1>5. ASSUME NEW cost \in LiveCosts, WriteRejected(cost) PROVE GateParts'
  BY <1>5, <1>f, <1>m DEF WriteRejected
<1>6. ASSUME NEW cost \in ThrownCosts, WriteThrew(cost) PROVE GateParts'
  BY <1>6, <1>f DEF WriteThrew
<1> QED
  BY <1>1, <1>2, <1>3, <1>4, <1>5, <1>6 DEF Write

-----------------------------------------------------------------------------
(* The critic.                                                             *)

\* A challenge that ends: the critic is broken exactly if its run says so, and
\* then what it leaves is the hold.
LEMMA JudgedGates ==
  ASSUME GateInv, stage \in {"challenge", "tools"}, verdict = None,
         NEW run \in Run, NEW judgement \in Verdict, Judged(run, judgement), asked' = 0,
         \/ run.mode # "FAILED_TO_FALLBACK" /\ broken' = broken
         \/ /\ run.mode = "FAILED_TO_FALLBACK" /\ ~run.pass /\ judgement = Hold
            /\ broken' = broken \cup {"Skeptic"},
         run.mode = "LIVE_AI" => request.live
  PROVE  GateParts'
<1>1. /\ runs' = [runs EXCEPT !["Skeptic"] = run]
      /\ verdict' = judgement
      /\ stage' = (IF stage = "challenge" THEN "decide" ELSE stage)
      /\ UNCHANGED <<request, card, checks, exposure, decision, clears, step>>
  BY DEF Judged, outcomeVars
<1>2. {"Sentinel", "Strategist", "Dispatcher", "Skeptic", "Investigator"} \subseteq Agent
  BY DEF Agent, Writer
<1>3. FindingTypes
  BY DEF GateInv
<1>4. runs \in [Agent -> Run \cup {None}]
  BY <1>3 DEF FindingTypes
<1>5. /\ runs'["Skeptic"] = run
      /\ \A a \in Agent \ {"Skeptic"} : runs'[a] = runs[a] /\ (a \in broken' <=> a \in broken)
      /\ runs' \in [Agent -> Run \cup {None}]
  BY <1>1, <1>2, <1>4
<1>6. "Skeptic" \notin broken
  <2>1. Hold \in Verdict
    BY DEF Hold, Verdict
  <2>2. Hold # None
    BY <2>1, RunAssumption
  <2> QED
    BY <2>2 DEF GateInv, BrokenKnown
<1>7. FindingTypes'
  <2>1. stage' \in Stage
    BY <1>1 DEF Stage
  <2>2. broken' \subseteq Writer \cup {"Skeptic", "Investigator"}
    BY <1>3 DEF FindingTypes
  <2> QED
    BY <1>1, <1>3, <1>5, <2>1, <2>2 DEF FindingTypes
<1>8. Flow'
  BY <1>1 DEF GateInv, Flow, Looping, LoopStages, Judging, Decided
<1>9. EvidenceKnown'
  BY <1>1 DEF GateInv, EvidenceKnown
<1>10. Gated'
  BY <1>1 DEF Gated, Decided
<1>11. RunKnown(runs["Skeptic"], "Skeptic")'
  BY <1>1, <1>5, <1>6 DEF RunKnown
<1>12. RunsKnown'
  <2>1. runs'["Skeptic"] \in Run /\ {"Skeptic"} \in SUBSET Agent
    BY <1>2, <1>5
  <2>2. stage \in LoopStages => stage' \in LoopStages
    BY <1>1 DEF LoopStages
  <2>3. RunsKnown /\ request' = request
    BY <1>1 DEF GateInv
  <2> QED
    BY <1>3, <1>5, <1>11, <2>1, <2>2, <2>3, RunsRecorded
<1>13. BrokenKnown'
  <2>1. /\ \A a \in {"Sentinel", "Strategist", "Dispatcher", "Investigator"} :
               runs'[a] = runs[a] /\ (a \in broken' <=> a \in broken)
        /\ "Skeptic" \in broken' => verdict' = Hold
    BY <1>1, <1>2, <1>5, <1>6
  <2> QED
    BY <1>1, <2>1 DEF GateInv, BrokenKnown, LoopStages, Decided
<1>14. ClearedKnown'
  BY <1>1 DEF GateInv, ClearedKnown
<1> QED
  BY <1>7, <1>8, <1>9, <1>10, <1>12, <1>13, <1>14 DEF GateParts

LEMMA ChallengeGates ==
  ASSUME SpendInv, GateInv, Challenge
  PROVE  GateParts'
<1>a. asked \in {0, 1} /\ (asked = 1 => stage \in {"challenge", "tools"})
  BY DEF SpendInv, MoneyTypes, ChallengeCovered
<1>c. CanChallenge => asked = 0 /\ stage \in {"challenge", "tools"} /\ verdict = None
  BY DEF CanChallenge, NotInFlight, GateInv, Flow
<1>u. asked > 0 => /\ asked = 1 /\ stage \in {"challenge", "tools"}
                   /\ verdict = None /\ request.live
  BY <1>a DEF GateInv, Flow
<1>v. Hold \in Verdict
  BY DEF Hold, Verdict
<1>1. CASE ChallengeByRule
  <2> DEFINE yes == [accepted |-> TRUE, errored |-> FALSE]
  <2>1. /\ CanChallenge /\ Judged(Deterministic(TRUE), yes) /\ broken' = broken
        /\ asked' = asked
    BY <1>1 DEF ChallengeByRule
  <2>2. yes \in Verdict
    BY DEF Verdict
  <2>3. Deterministic(TRUE) \in Run /\ Deterministic(TRUE).mode = "DETERMINISTIC_RULES"
    BY RunsAreRuns
  <2> HIDE DEF yes
  <2> QED
    BY <1>c, <2>1, <2>2, <2>3, JudgedGates
<1>2. CASE ChallengeBlocked
  <2>1. /\ CanChallenge /\ Judged(Fallback(0), Hold) /\ broken' = broken \cup {"Skeptic"}
        /\ asked' = asked
    BY <1>2 DEF ChallengeBlocked
  <2> QED
    BY <1>c, <1>v, <2>1, RunsAreRuns, JudgedGates
<1>3. CASE ChallengeAsked
  <2>1. /\ CanChallenge /\ request.live
        /\ UNCHANGED finding /\ Onward
        /\ UNCHANGED <<request, runs, verdict, clears>>
        /\ broken' = broken /\ step' = step /\ stage' = stage
    BY <1>3 DEF ChallengeAsked, finding, Onward, findingVars, outcomeVars
  <2>2. Flow' /\ EvidenceKnown' /\ Gated'
    BY <1>c, <2>1, FindingKept DEF GateInv
  <2>3. RunsKnown' /\ BrokenKnown' /\ ClearedKnown'
    BY <2>1, RunsKept DEF GateInv
  <2>4. FindingTypes'
    BY <2>1 DEF GateInv, FindingTypes, finding
  <2> QED
    BY <2>2, <2>3, <2>4 DEF GateParts
<1>4. CASE ChallengeAnswered
  <2>1. asked > 0 /\ asked' = asked - 1 /\ broken' = broken
    BY <1>4 DEF ChallengeAnswered
  <2>2. PICK accepted \in BOOLEAN :
            Judged(Live(CriticEstimate), [accepted |-> accepted, errored |-> FALSE])
    BY <1>4 DEF ChallengeAnswered
  <2>3. [accepted |-> accepted, errored |-> FALSE] \in Verdict
    BY DEF Verdict
  <2>4. Live(CriticEstimate) \in Run /\ Live(CriticEstimate).mode = "LIVE_AI"
    BY RunsAreRuns, RunAssumption
  <2>5. asked' = 0
    BY <1>u, <2>1
  <2> QED
    BY <1>u, <2>1, <2>2, <2>3, <2>4, <2>5, JudgedGates
<1>5. ASSUME NEW cost \in {0, CriticEstimate}, ChallengeBroke(cost) PROVE GateParts'
  <2>1. /\ asked > 0 /\ asked' = asked - 1 /\ broken' = broken \cup {"Skeptic"}
        /\ Judged(Fallback(cost), Hold)
    BY <1>5 DEF ChallengeBroke
  <2>2. cost \in Nat
    BY RunAssumption
  <2>3. asked' = 0
    BY <1>u, <2>1
  <2> QED
    BY <1>u, <1>v, <2>1, <2>2, <2>3, RunsAreRuns, JudgedGates
<1> QED
  BY <1>1, <1>2, <1>3, <1>4, <1>5 DEF Challenge

-----------------------------------------------------------------------------
(* The deterministic agents, on the waterfall and in the loop.             *)

\* What a deterministic agent records, when it cannot have broken.
LEMMA ByRule ==
  ASSUME NEW agent \in {"Verifier", "Atlas", "Simulator"}, NEW pass \in BOOLEAN,
         NEW gone, gone \subseteq Writer \cup {"Skeptic", "Investigator"}
  PROVE  /\ Deterministic(pass) \in Run
         /\ Deterministic(pass).mode \notin {"FAILED_TO_FALLBACK", "LIVE_AI"}
         /\ agent \notin gone
  BY DEF Deterministic, Run, Mode, Writer

\* A step that records runs of deterministic agents only.
LEMMA RulesRecorded ==
  ASSUME GateInv, NEW fresh \in SUBSET {"Verifier", "Atlas", "Simulator"},
         \A a \in fresh : \E pass \in BOOLEAN : runs'[a] = Deterministic(pass),
         \A a \in Agent \ fresh : runs'[a] = runs[a],
         runs' \in [Agent -> Run \cup {None}],
         stage \notin {"packet", "error", "sentinel"}, stage' # "sentinel",
         stage' \in LoopStages \/ stage \notin LoopStages \cup Decided,
         stage' \in LoopStages => stage \in LoopStages,
         UNCHANGED <<request, verdict, clears, broken, step>>
  PROVE  RunsKnown' /\ BrokenKnown' /\ ClearedKnown'
<1>1. FindingTypes /\ RunsKnown /\ broken \subseteq Writer \cup {"Skeptic", "Investigator"}
  BY DEF GateInv, FindingTypes
<1>2. ASSUME NEW a \in fresh PROVE runs'[a] \in Run /\ RunKnown(runs[a], a)'
  <2>1. PICK pass \in BOOLEAN : runs'[a] = Deterministic(pass)
    OBVIOUS
  <2>2. /\ Deterministic(pass) \in Run
        /\ Deterministic(pass).mode \notin {"FAILED_TO_FALLBACK", "LIVE_AI"}
        /\ a \notin broken
    BY <1>1, ByRule
  <2> QED
    BY <2>1, <2>2 DEF RunKnown
<1>3. fresh \in SUBSET Agent
  BY DEF Agent
<1>4. RunsKnown'
  <2>1. \A a \in Agent \ fresh : runs'[a] = runs[a] /\ (a \in broken' <=> a \in broken)
    OBVIOUS
  <2>2. stage \in LoopStages => stage' \in LoopStages
    OBVIOUS
  <2> QED
    BY <1>1, <1>2, <1>3, <2>1, <2>2, RunsRecorded
<1>5. \A a \in {"Sentinel", "Investigator"} : runs'[a] = runs[a]
  BY DEF Agent, Writer
<1>6. BrokenKnown'
  BY <1>5 DEF GateInv, BrokenKnown, LoopStages, Decided
<1>7. ClearedKnown'
  BY DEF GateInv, ClearedKnown
<1> QED
  BY <1>4, <1>6, <1>7

\* What the Verifier and Atlas are run on, and what they answer.
LEMMA VerifierSees ==
  ASSUME FindingTypes, NEW c \in Card
  PROVE  /\ VerifierSignals(c) \in SUBSET request.signals
         /\ VerifierSignals(c) \in SUBSET Signals
         /\ Matched(c) \in Exposure
         /\ AtlasRun(c) = Deterministic(~Rejects(c))
         /\ (~Rejects(c)) \in BOOLEAN
         /\ request.live /\ request.route = "WATERFALL" =>
                VerifierSignals(c) = request.signals \cap c.cited
<1>1. request.signals \in SUBSET Signals
  BY InputAssumption DEF FindingTypes, Request
<1>2. request.scenario.match \in Exposure
  BY InputAssumption DEF FindingTypes, Request
<1>3. Matched(c) \in Exposure
  BY <1>2 DEF Matched, Exposure
<1> QED
  BY <1>1, <1>3 DEF VerifierSignals, AtlasRun, Rejects

\* The Verifier's checks are known as the invariant says, over the same card.
LEMMA VerifyKnown ==
  ASSUME FindingTypes, NEW c \in Card, c = card, NEW d \in Card, d.cited = c.cited,
         checks' = Verify(VerifierSignals(c), c), card' = d, request' = request
  PROVE  /\ EvidenceKnown' /\ checks' \in Checks
         /\ \E pass \in BOOLEAN : VerifierRun(checks)' = Deterministic(pass)
<1> DEFINE seen == VerifierSignals(c)
<1>1. /\ seen \in SUBSET request.signals /\ seen \in SUBSET Signals
      /\ request.live /\ request.route = "WATERFALL" => seen = request.signals \cap c.cited
  BY VerifierSees
<1> HIDE DEF seen
<1>2. /\ checks' \in Checks
      /\ checks'.sources = Cardinality(Outlets(seen))
      /\ checks'.corroborated <=> checks'.sources >= 2
  BY <1>1, VerifyCounts DEF seen
<1>3. EvidenceKnown'
  <2>1. \E signals \in SUBSET request'.signals :
            checks'.sources = Cardinality(Outlets(signals))
    BY <1>1, <1>2
  <2>2. request'.live /\ request'.route = "WATERFALL" =>
            checks'.sources = Cardinality(Outlets(request'.signals \cap card'.cited))
    BY <1>1, <1>2, Zenon
  <2> QED
    BY <1>2, <2>1, <2>2 DEF EvidenceKnown
<1>4. (checks'.sources > 0) \in BOOLEAN
  OBVIOUS
<1>5. VerifierRun(checks)' = Deterministic(checks'.sources > 0)
  BY DEF VerifierRun
<1> QED
  BY <1>2, <1>3, <1>4, <1>5

LEMMA AnalyseGates ==
  ASSUME SpendInv, GateInv, Analyse
  PROVE  GateParts'
<1>1. /\ stage = "analyse" /\ stage' = "challenge"
      /\ checks' = Verify(VerifierSignals(card), card)
      /\ card' = CapUncorroborated(card, request.live, checks'.corroborated)
      /\ exposure' = Matched(card')
      /\ runs' = [runs EXCEPT !["Verifier"] = VerifierRun(checks'),
                              !["Atlas"] = AtlasRun(card'),
                              !["Simulator"] = Deterministic(TRUE)]
      /\ UNCHANGED <<request, verdict, decision, clears, asked, step, broken>>
  BY DEF Analyse, outcomeVars
<1>2. FindingTypes /\ Flow
  BY DEF GateInv
<1>3. PICK c \in Card : c = card
  BY <1>1, <1>2 DEF Flow
<1>4. checks' \in Checks /\ checks' = Verify(VerifierSignals(c), c)
  BY <1>1, <1>2, <1>3, VerifierSees, VerifyCounts
<1>5. PICK d \in Card : d = card' /\ d.cited = c.cited
  <2>1. checks'.corroborated \in BOOLEAN /\ request.live \in BOOLEAN
    BY <1>2, <1>4 DEF Checks, FindingTypes, Request
  <2> QED
    BY <1>1, <1>3, <2>1, CapKeeps
<1>6. EvidenceKnown' /\ \E pass \in BOOLEAN : VerifierRun(checks)' = Deterministic(pass)
  BY <1>1, <1>2, <1>3, <1>4, <1>5, VerifyKnown
<1>7. exposure' \in Exposure /\ \E pass \in BOOLEAN : AtlasRun(d) = Deterministic(pass)
  BY <1>1, <1>2, <1>5, VerifierSees
<1>8. /\ \A a \in {"Verifier", "Atlas", "Simulator"} :
             \E pass \in BOOLEAN : runs'[a] = Deterministic(pass)
      /\ \A a \in Agent \ {"Verifier", "Atlas", "Simulator"} : runs'[a] = runs[a]
      /\ runs' \in [Agent -> Run \cup {None}]
  <2>1. runs \in [Agent -> Run \cup {None}]
    BY <1>2 DEF FindingTypes
  <2>2. {"Verifier", "Atlas", "Simulator"} \subseteq Agent
    BY DEF Agent
  <2>3. PICK p \in BOOLEAN : VerifierRun(checks') = Deterministic(p)
    BY <1>6 DEF VerifierRun
  <2>4. PICK q \in BOOLEAN : AtlasRun(card') = Deterministic(q)
    BY <1>5, <1>7
  <2>5. \A b \in BOOLEAN : Deterministic(b) \in Run
    BY DEF Deterministic, Run, Mode
  <2> QED
    BY <1>1, <2>1, <2>2, <2>3, <2>4, <2>5
<1>9. RunsKnown' /\ BrokenKnown' /\ ClearedKnown'
  <2>1. stage \notin LoopStages \cup Decided /\ stage' \notin LoopStages
    BY <1>1 DEF LoopStages, Decided
  <2> DEFINE fresh == {"Verifier", "Atlas", "Simulator"}
  <2>2. /\ fresh \in SUBSET {"Verifier", "Atlas", "Simulator"}
        /\ \A a \in fresh : \E pass \in BOOLEAN : runs'[a] = Deterministic(pass)
        /\ \A a \in Agent \ fresh : runs'[a] = runs[a]
    BY <1>8
  <2> HIDE DEF fresh
  <2> QED
    BY <1>1, <1>8, <2>1, <2>2, RulesRecorded
<1>10. FindingTypes'
  BY <1>1, <1>2, <1>4, <1>5, <1>7, <1>8 DEF FindingTypes, Stage
<1>11. Flow'
  <2>1. asked # 1
    BY <1>1 DEF SpendInv, ChallengeCovered
  <2> QED
    BY <1>1, <1>2, <1>4, <1>5, <1>7, <2>1 DEF Flow, Judging, Decided, LoopStages
<1>12. Gated'
  BY <1>1 DEF Gated, Decided
<1> QED
  BY <1>6, <1>9, <1>10, <1>11, <1>12 DEF GateParts

\* The tool calls that fill a part of the finding, each once.
LEMMA ToolGates ==
  ASSUME SpendInv, GateInv, CheckCorroboration \/ AssessExposure \/ SimulateRunway
  PROVE  GateParts'
<1>1. /\ stage = "tools" /\ stage' = stage
      /\ UNCHANGED <<request, card, verdict, decision, clears, asked, step, broken>>
  BY DEF CheckCorroboration, AssessExposure, SimulateRunway, outcomeVars, findingVars
<1>2. FindingTypes /\ Flow
  BY DEF GateInv
<1>3. PICK c \in Card : c = card
  BY <1>1, <1>2 DEF Flow
<1>4. /\ checks' \in Checks \cup {None} /\ exposure' \in Exposure \cup {None}
      /\ EvidenceKnown'
      /\ \E fresh \in SUBSET {"Verifier", "Atlas", "Simulator"} :
             /\ \A a \in fresh : \E pass \in BOOLEAN : runs'[a] = Deterministic(pass)
             /\ \A a \in Agent \ fresh : runs'[a] = runs[a]
             /\ runs' \in [Agent -> Run \cup {None}]
  <2>r. ASSUME NEW a \in {"Verifier", "Atlas", "Simulator"}, NEW run,
               runs' = [runs EXCEPT ![a] = run],
               \E pass \in BOOLEAN : run = Deterministic(pass)
        PROVE  \E fresh \in SUBSET {"Verifier", "Atlas", "Simulator"} :
                   /\ \A b \in fresh : \E pass \in BOOLEAN : runs'[b] = Deterministic(pass)
                   /\ \A b \in Agent \ fresh : runs'[b] = runs[b]
                   /\ runs' \in [Agent -> Run \cup {None}]
    <3>1. runs \in [Agent -> Run \cup {None}] /\ a \in Agent
      BY <1>2 DEF FindingTypes, Agent
    <3>2. run \in Run
      BY <2>r DEF Deterministic, Run, Mode
    <3>3. /\ \A b \in {a} : \E pass \in BOOLEAN : runs'[b] = Deterministic(pass)
          /\ \A b \in Agent \ {a} : runs'[b] = runs[b]
          /\ runs' \in [Agent -> Run \cup {None}]
      BY <2>r, <3>1, <3>2
    <3>4. {a} \in SUBSET {"Verifier", "Atlas", "Simulator"}
      OBVIOUS
    <3> QED
      BY <3>3, <3>4, Zenon
  <2>1. CASE CheckCorroboration
    <3>1. /\ checks' = Verify(VerifierSignals(c), c) /\ exposure' = exposure
          /\ runs' = [runs EXCEPT !["Verifier"] = VerifierRun(checks')]
      BY <1>3, <2>1 DEF CheckCorroboration
    <3>2. /\ checks' \in Checks /\ EvidenceKnown'
          /\ \E pass \in BOOLEAN : VerifierRun(checks)' = Deterministic(pass)
      BY <1>1, <1>2, <1>3, <3>1, VerifyKnown
    <3>3. \E pass \in BOOLEAN : VerifierRun(checks') = Deterministic(pass)
      BY <3>2 DEF VerifierRun
    <3> QED
      BY <1>2, <2>r, <3>1, <3>2, <3>3 DEF FindingTypes
  <2>2. CASE AssessExposure
    <3>1. /\ exposure' = Matched(c) /\ checks' = checks
          /\ runs' = [runs EXCEPT !["Atlas"] = AtlasRun(c)]
      BY <1>3, <2>2 DEF AssessExposure
    <3>2. EvidenceKnown'
      BY <1>1, <3>1 DEF GateInv, EvidenceKnown
    <3>3. exposure' \in Exposure /\ \E pass \in BOOLEAN : AtlasRun(c) = Deterministic(pass)
      BY <1>2, <3>1, VerifierSees
    <3> QED
      BY <1>2, <2>r, <3>1, <3>2, <3>3 DEF FindingTypes
  <2>3. CASE SimulateRunway
    <3>1. /\ UNCHANGED <<checks, exposure>>
          /\ runs' = [runs EXCEPT !["Simulator"] = Deterministic(TRUE)]
      BY <2>3 DEF SimulateRunway, findingVars
    <3>2. EvidenceKnown'
      BY <1>1, <3>1 DEF GateInv, EvidenceKnown
    <3>3. \E pass \in BOOLEAN : Deterministic(TRUE) = Deterministic(pass)
      OBVIOUS
    <3> QED
      BY <1>2, <2>r, <3>1, <3>2, <3>3 DEF FindingTypes
  <2> QED
    BY <2>1, <2>2, <2>3
<1>5. RunsKnown' /\ BrokenKnown' /\ ClearedKnown'
  <2>1. stage \in LoopStages
    BY <1>1 DEF LoopStages
  <2> QED
    BY <1>1, <1>4, <2>1, RulesRecorded
<1>6. FindingTypes'
  BY <1>1, <1>2, <1>4 DEF FindingTypes
<1>7. Flow'
  BY <1>1, <1>2 DEF Flow, Judging, Decided, LoopStages, Looping
<1>8. Gated'
  BY <1>1 DEF Gated, Decided
<1> QED
  BY <1>4, <1>5, <1>6, <1>7, <1>8 DEF GateParts

\* completeInvestigation: what the loop left out is filled in, and the
\* Investigator's own run recorded, degraded if anything of it was.
LEMMA CompleteGates ==
  ASSUME SpendInv, GateInv, CompleteInvestigation
  PROVE  GateParts'
<1>1. /\ stage = "complete" /\ stage' = (IF verdict = None THEN "challenge" ELSE "decide")
      /\ checks' = (IF checks = None THEN Verify(VerifierSignals(card), card) ELSE checks)
      /\ exposure' = (IF exposure = None THEN Matched(card) ELSE exposure)
      /\ runs' = [runs EXCEPT !["Verifier"] = VerifierRun(checks'),
                              !["Atlas"] = AtlasRun(card),
                              !["Simulator"] = Deterministic(TRUE),
                              !["Investigator"] = InvestigatorRun]
      /\ UNCHANGED <<request, card, verdict, decision, clears, asked, step, broken>>
  BY DEF CompleteInvestigation, outcomeVars, NoVerdictYet
<1>2. FindingTypes /\ Flow
  BY DEF GateInv
<1>3. PICK c \in Card : c = card
  BY <1>1, <1>2 DEF Flow
<1>4. checks' \in Checks /\ EvidenceKnown'
  <2>1. CASE checks = None
    BY <1>1, <1>2, <1>3, <2>1, VerifyKnown
  <2>2. CASE checks # None
    BY <1>1, <1>2, <2>2 DEF GateInv, EvidenceKnown, FindingTypes
  <2> QED
    BY <2>1, <2>2
<1>5. exposure' \in Exposure /\ \E pass \in BOOLEAN : AtlasRun(card) = Deterministic(pass)
  BY <1>1, <1>2, <1>3, VerifierSees DEF FindingTypes
<1>6. InvestigatorRun \in Run
  BY DEF SpendInv, MoneyTypes, InvestigatorRun, Live, Run, Mode
<1>7. /\ "Investigator" \in broken <=> step.degraded
      /\ InvestigatorRun.mode = "FAILED_TO_FALLBACK" <=> step.degraded
      /\ request.live
  <2>1. stage \in LoopStages /\ step.degraded \in BOOLEAN
    BY <1>1 DEF LoopStages, SpendInv, MoneyTypes
  <2> QED
    BY <1>2, <2>1 DEF GateInv, BrokenKnown, Flow, Looping, InvestigatorRun, Live
<1> DEFINE fresh == {"Verifier", "Atlas", "Simulator", "Investigator"}
<1>8. /\ \A a \in fresh \ {"Investigator"} : \E pass \in BOOLEAN : runs'[a] = Deterministic(pass)
      /\ runs'["Investigator"] = InvestigatorRun
      /\ \A a \in Agent \ fresh : runs'[a] = runs[a]
      /\ runs' \in [Agent -> Run \cup {None}]
  <2>1. runs \in [Agent -> Run \cup {None}]
    BY <1>2 DEF FindingTypes
  <2>2. fresh \subseteq Agent
    BY DEF Agent
  <2>3. PICK p \in BOOLEAN : VerifierRun(checks') = Deterministic(p)
    <3>1. (checks'.sources > 0) \in BOOLEAN
      BY <1>4 DEF Checks
    <3>2. VerifierRun(checks') = Deterministic(checks'.sources > 0)
      BY DEF VerifierRun
    <3> QED
      BY <3>1, <3>2
  <2>4. PICK q \in BOOLEAN : AtlasRun(card) = Deterministic(q)
    BY <1>5
  <2>5. \A b \in BOOLEAN : Deterministic(b) \in Run
    BY DEF Deterministic, Run, Mode
  <2> QED
    BY <1>1, <1>6, <2>1, <2>2, <2>3, <2>4, <2>5
<1>9. RunsKnown'
  <2>1. ASSUME NEW a \in fresh PROVE runs'[a] \in Run /\ RunKnown(runs[a], a)'
    <3>1. CASE a = "Investigator"
      BY <1>1, <1>6, <1>7, <1>8, <3>1 DEF RunKnown
    <3>2. CASE a # "Investigator"
      <4>1. PICK pass \in BOOLEAN : runs'[a] = Deterministic(pass)
        BY <1>8, <3>2
      <4>2. /\ Deterministic(pass) \in Run
            /\ Deterministic(pass).mode \notin {"FAILED_TO_FALLBACK", "LIVE_AI"}
            /\ a \notin broken
        BY <1>2, <3>2, ByRule DEF FindingTypes
      <4> QED
        BY <1>1, <4>1, <4>2 DEF RunKnown
    <3> QED
      BY <3>1, <3>2
  <2>2. fresh \in SUBSET Agent
    BY DEF Agent
  <2>3. \A a \in Agent \ fresh : runs'[a] = runs[a] /\ (a \in broken' <=> a \in broken)
    BY <1>1, <1>8
  <2>4. RunsKnown /\ request' = request /\ "Investigator" \in fresh
    BY <1>1 DEF GateInv
  <2> HIDE DEF fresh
  <2> QED
    BY <1>2, <2>1, <2>2, <2>3, <2>4, RunsRecorded
<1>10. BrokenKnown'
  <2>1. runs'["Sentinel"] = runs["Sentinel"]
    BY <1>8 DEF Agent, Writer
  <2> QED
    BY <1>1, <2>1 DEF GateInv, BrokenKnown, LoopStages, Decided
<1>11. ClearedKnown'
  BY <1>1 DEF GateInv, ClearedKnown
<1>12. FindingTypes'
  BY <1>1, <1>2, <1>4, <1>5, <1>8 DEF FindingTypes, Stage
<1>13. Flow'
  <2>1. asked # 1
    BY <1>1 DEF SpendInv, ChallengeCovered
  <2>2. verdict \in Verdict \cup {None}
    BY <1>2 DEF FindingTypes
  <2> QED
    BY <1>1, <1>3, <1>4, <1>5, <2>1, <2>2 DEF Flow, Judging, Decided, LoopStages
<1>14. Gated'
  BY <1>1 DEF Gated, Decided
<1> QED
  BY <1>4, <1>9, <1>10, <1>11, <1>12, <1>13, <1>14 DEF GateParts

\* The steps of the loop that record nothing.
LEMMA LoopGates ==
  ASSUME SpendInv, GateInv,
         \/ PrepareStep \/ StepBlocked \/ StepFinished \/ DrillOffContext
         \/ \E cost \in ThrownCosts : StepThrew(cost)
         \/ \E cost \in LiveCosts \cup StepEstimates : StepAnswered(cost)
  PROVE  GateParts'
<1>s. step \in StepRecord
  BY DEF SpendInv, MoneyTypes, StepRecord
<1>1. /\ stage \in LoopStages /\ stage' \in LoopStages
      /\ UNCHANGED <<request, runs, card, checks, exposure, verdict, decision, clears, asked>>
      /\ \/ broken' = broken /\ step'.degraded = step.degraded
         \/ broken' = broken \cup {"Investigator"} /\ step'.degraded
  <2>1. CASE PrepareStep
    BY <1>s, <2>1 DEF PrepareStep, onlyStep, findingVars, outcomeVars, LoopStages, StepRecord
  <2>2. CASE StepBlocked
    BY <1>s, <2>2 DEF StepBlocked, onlyStep, findingVars, outcomeVars, LoopStages, StepRecord
  <2>3. CASE StepFinished
    BY <1>s, <2>3 DEF StepFinished, onlyStep, findingVars, outcomeVars, LoopStages, StepRecord
  <2>4. CASE DrillOffContext
    BY <1>s, <2>4 DEF DrillOffContext, findingVars, outcomeVars, LoopStages, StepRecord
  <2>5. ASSUME NEW cost, StepThrew(cost) \/ StepAnswered(cost)
        PROVE  /\ stage \in LoopStages /\ stage' \in LoopStages
               /\ UNCHANGED <<request, runs, card, checks, exposure, verdict, decision,
                              clears, asked>>
               /\ \/ broken' = broken /\ step'.degraded = step.degraded
                  \/ broken' = broken \cup {"Investigator"} /\ step'.degraded
    BY <1>s, <2>5
    DEF StepThrew, StepAnswered, onlyStep, findingVars, outcomeVars, LoopStages, StepRecord
  <2> QED
    BY <2>1, <2>2, <2>3, <2>4, <2>5
<1>2. UNCHANGED finding /\ Onward
  BY <1>1 DEF finding, Onward
<1>3. Flow' /\ EvidenceKnown' /\ Gated'
  BY <1>1, <1>2, FindingKept DEF GateInv
<1>4. RunsKnown' /\ BrokenKnown' /\ ClearedKnown'
  BY <1>1, <1>2, RunsKept DEF GateInv
<1>5. FindingTypes'
  BY <1>1 DEF GateInv, FindingTypes, LoopStages, Stage
<1> QED
  BY <1>3, <1>4, <1>5 DEF GateParts

-----------------------------------------------------------------------------
(* The decision and the packet.                                            *)

LEMMA DecisionGated ==
  ASSUME GateInv, ActOrRefuse
  PROVE  /\ card' \in Card /\ card'.cited = card.cited
         /\ decision' \in Decision
         /\ stage' \in {"strategist", "gatekeeper"}
         /\ Gated'
<1>1. /\ stage = "decide"
      /\ card' = CapUncorroborated(card, request.live, checks.corroborated)
      /\ decision' = ApplySkepticGate(
             Decide(checks.corroborated, card'.confidence, exposure),
             verdict,
             Strong(checks, card'.confidence, exposure))
      /\ stage' \in {"strategist", "gatekeeper"}
      /\ UNCHANGED <<request, checks, exposure, verdict>>
  BY DEF ActOrRefuse
<1>2. card \in Card /\ checks \in Checks /\ exposure \in Exposure /\ verdict \in Verdict
  BY <1>1 DEF GateInv, Flow, Judging
<1>3. checks.corroborated \in BOOLEAN /\ request.live \in BOOLEAN
  BY <1>2 DEF Checks, GateInv, FindingTypes, Request
<1>4. /\ card' \in Card /\ card'.cited = card.cited
      /\ request.live /\ ~checks.corroborated => card'.confidence < Floor
  BY <1>1, <1>2, <1>3, CapKeeps
<1>5. decision' \in Decision
  <2>1. PICK confidence \in Nat : confidence = card'.confidence
    BY <1>4 DEF Card
  <2>2. PICK strong \in BOOLEAN : strong = Strong(checks, confidence, exposure)
    BY <1>3 DEF Strong
  <2>3. strong => checks.corroborated /\ confidence >= Floor
    BY <2>2 DEF Strong
  <2>4. decision' = ApplySkepticGate(Decide(checks.corroborated, confidence, exposure),
                                     verdict, strong)
    BY <1>1, <2>1, <2>2, Zenon
  <2> QED
    BY <1>2, <1>3, <2>1, <2>3, <2>4, GateDecides
<1>6. Gated'
  BY <1>1, <1>4 DEF Gated
<1> QED
  BY <1>1, <1>4, <1>5, <1>6

LEMMA ActOrRefuseGates ==
  ASSUME SpendInv, GateInv, ActOrRefuse
  PROVE  GateParts'
<1>1. /\ stage = "decide"
      /\ UNCHANGED <<request, checks, exposure, verdict, clears, asked, step, broken>>
      /\ \/ /\ runs' = [runs EXCEPT !["Strategist"] = Deterministic(TRUE),
                                    !["Dispatcher"] = Deterministic(TRUE)]
            /\ stage' = "gatekeeper"
         \/ runs' = runs /\ stage' = "strategist"
  BY DEF ActOrRefuse
<1>2. /\ card' \in Card /\ card'.cited = card.cited /\ decision' \in Decision
      /\ stage' \in {"strategist", "gatekeeper"} /\ Gated'
  BY DecisionGated
<1>3. FindingTypes /\ Flow /\ runs \in [Agent -> Run \cup {None}]
  BY DEF GateInv, FindingTypes
<1>4. asked # 1
  BY <1>1 DEF SpendInv, ChallengeCovered
<1>5. Flow'
  BY <1>1, <1>2, <1>3, <1>4 DEF Flow, Judging, Decided, LoopStages
<1>6. EvidenceKnown'
  BY <1>1, <1>2 DEF GateInv, EvidenceKnown
<1>7. /\ Deterministic(TRUE) \in Run
      /\ Deterministic(TRUE).mode \notin {"FAILED_TO_FALLBACK", "LIVE_AI"}
  BY DEF Deterministic, Run, Mode
<1>8. /\ "Strategist" \notin broken /\ "Dispatcher" \notin broken
      /\ {"Strategist", "Dispatcher", "Sentinel", "Investigator"} \subseteq Agent
  BY <1>1 DEF GateInv, BrokenKnown, Decided, Agent, Writer
<1>9. FindingTypes'
  BY <1>1, <1>2, <1>3, <1>7, <1>8 DEF FindingTypes, Stage
<1>10. RunsKnown' /\ runs'["Sentinel"] = runs["Sentinel"]
  <2>1. stage \notin LoopStages /\ RunsKnown
    BY <1>1 DEF LoopStages, GateInv
  <2>2. CASE runs' = runs
    BY <1>1, <2>1, <2>2 DEF RunsKnown, RunKnown
  <2>3. CASE runs' = [runs EXCEPT !["Strategist"] = Deterministic(TRUE),
                                  !["Dispatcher"] = Deterministic(TRUE)]
    <3> DEFINE fresh == {"Strategist", "Dispatcher"}
    <3>1. /\ fresh \in SUBSET Agent /\ \A a \in fresh : runs'[a] = Deterministic(TRUE)
          /\ \A a \in Agent \ fresh : runs'[a] = runs[a] /\ (a \in broken' <=> a \in broken)
          /\ \A a \in fresh : a \notin broken'
          /\ runs'["Sentinel"] = runs["Sentinel"]
      BY <1>1, <1>3, <1>8, <2>3
    <3> HIDE DEF fresh
    <3>2. \A a \in fresh : runs'[a] \in Run /\ RunKnown(runs[a], a)'
      BY <1>7, <3>1 DEF RunKnown
    <3> QED
      BY <1>1, <1>3, <2>1, <3>1, <3>2, RunsRecorded
  <2> QED
    BY <1>1, <2>2, <2>3
<1>11. BrokenKnown'
  BY <1>1, <1>2, <1>8, <1>10 DEF GateInv, BrokenKnown, LoopStages, Decided
<1>12. ClearedKnown'
  BY <1>1 DEF GateInv, ClearedKnown
<1> QED
  BY <1>2, <1>5, <1>6, <1>9, <1>10, <1>11, <1>12 DEF GateParts

LEMMA AssembleGates ==
  ASSUME SpendInv, GateInv, Assemble
  PROVE  GateParts'
<1>1. /\ stage = "gatekeeper" /\ stage' \in {"packet", "error"}
      /\ clears' \in BOOLEAN
      /\ clears' => \A run \in AllRuns : run.pass
      /\ UNCHANGED <<request, runs, card, checks, exposure, verdict, decision, asked, step,
                     broken>>
  <2>1. PICK citationsHold \in BOOLEAN : clears' = GatekeeperClears(AllRuns, citationsHold)
    BY DEF Assemble
  <2>2. clears' \in BOOLEAN /\ (clears' => \A run \in AllRuns : run.pass)
    BY <2>1 DEF GatekeeperClears
  <2> QED
    BY <2>2 DEF Assemble, findingVars
<1>2. FindingTypes' /\ Flow' /\ EvidenceKnown' /\ Gated'
  BY <1>1 DEF GateInv, FindingTypes, Flow, EvidenceKnown, Gated, Stage, Judging, Decided,
              LoopStages
<1>3. RunsKnown' /\ BrokenKnown'
  BY <1>1 DEF GateInv, RunsKnown, RunKnown, BrokenKnown, LoopStages, Decided
<1>4. ClearedKnown'
  BY <1>1 DEF ClearedKnown, AllRuns
<1> QED
  BY <1>2, <1>3, <1>4 DEF GateParts

-----------------------------------------------------------------------------
(* The whole step, and what follows.                                       *)

\* The number of a step grows only when one is finished, and the loop goes on
\* only while it is below the bound.
LEMMA StepsBounded ==
  ASSUME SpendInv, StepBounded, [Next]_vars
  PROVE  StepBounded'
<1> DEFINE Below == {"sentinel", "prepare", "answer", "tools", "close"}
<1>s. step \in StepRecord /\ MaxSteps \in Nat /\ MaxSteps > 0
  BY RunAssumption DEF SpendInv, MoneyTypes, StepRecord
<1>1. ASSUME step'.number = step.number, step'.reserved \in {step.reserved, step.estimate, 0},
             stage' \in Below => stage \in Below
      PROVE  StepBounded'
  BY <1>1, <1>s DEF StepBounded, StepRecord
<1>2. CASE Write
  <2>1. step' = step
    BY <1>2 DEF Write, WriteByRule, WriteBlocked, WriteAccepted, WriteThrew, WriteRetried,
                WriteRejected, Emits
  <2>2. stage' \in Below => stage \in Below
    BY <1>2, WriteShape, WriterLeadsTo DEF SpendInv, Writers
  <2> QED
    BY <1>1, <2>1, <2>2
<1>3. CASE Challenge \/ Analyse \/ ActOrRefuse \/ Assemble \/ UNCHANGED vars
  <2>1. step' = step
    BY <1>3 DEF Challenge, ChallengeByRule, ChallengeBlocked, ChallengeAsked,
                ChallengeAnswered, ChallengeBroke, Judged, Analyse, ActOrRefuse, Assemble,
                vars
  <2>2. stage' = stage \/ stage' \notin Below
    BY <1>3 DEF Challenge, ChallengeByRule, ChallengeBlocked, ChallengeAsked,
                ChallengeAnswered, ChallengeBroke, Judged, Analyse, ActOrRefuse, Assemble,
                vars
  <2> QED
    BY <1>1, <2>1, <2>2
<1>4. CASE StepFinished
  <2>1. /\ stage \in {"tools", "close"}
        /\ stage' = (IF stage = "close" \/ LoopStops(step.number + 1)
                     THEN "complete" ELSE "prepare")
    BY <1>4 DEF StepFinished
  <2>2. PICK next \in StepEstimates :
            step' = [step EXCEPT !.number = @ + 1, !.reserved = 0, !.estimate = next,
                                 !.own = @ + step.cost, !.cost = 0]
    BY <1>4 DEF StepFinished
  <2>3. step'.number = step.number + 1 /\ step'.reserved = 0
    BY <1>s, <2>2 DEF StepRecord
  <2>4. step.number \in Nat /\ step.number < MaxSteps
    BY <1>s, <2>1 DEF StepBounded, StepRecord
  <2>5. stage' \in Below => step.number + 1 # MaxSteps
    BY <2>1 DEF LoopStops
  <2> QED
    BY <1>s, <2>3, <2>4, <2>5 DEF StepBounded
<1>5. CASE Investigate /\ ~StepFinished
  <2>1. step'.number = step.number /\ step'.reserved \in {step.reserved, step.estimate, 0}
    BY <1>s, <1>5
    DEF Investigate, PrepareStep, StepBlocked, StepThrew, StepAnswered, CheckCorroboration,
        AssessExposure, SimulateRunway, DrillOffContext, CompleteInvestigation, StepRecord
  <2>2. stage' \in Below => stage \in Below
    BY <1>5
    DEF Investigate, PrepareStep, StepBlocked, StepThrew, StepAnswered, CheckCorroboration,
        AssessExposure, SimulateRunway, DrillOffContext, CompleteInvestigation
  <2> QED
    BY <1>1, <2>1, <2>2
<1> QED
  BY <1>2, <1>3, <1>4, <1>5 DEF Next

LEMMA GateStep ==
  ASSUME SpendInv, GateInv, [Next]_vars
  PROVE  GateInv'
<1>1. StepBounded'
  BY StepsBounded DEF GateInv
<1>2. GateParts'
  <2>1. CASE Write
    BY <2>1, WriteGates
  <2>2. CASE Challenge
    BY <2>2, ChallengeGates
  <2>3. CASE Analyse
    BY <2>3, AnalyseGates
  <2>4. CASE Investigate
    BY <2>4, LoopGates, ToolGates, CompleteGates DEF Investigate
  <2>5. CASE ActOrRefuse
    BY <2>5, ActOrRefuseGates
  <2>6. CASE Assemble
    BY <2>6, AssembleGates
  <2>7. CASE UNCHANGED vars
    <3>1. UNCHANGED <<request, stage, runs, card, checks, exposure, verdict, decision, clears,
                      asked, step, broken>>
      BY <2>7 DEF vars, findingVars, outcomeVars
    <3>2. UNCHANGED finding /\ Onward
      BY <3>1 DEF finding, Onward
    <3>3. Flow' /\ EvidenceKnown' /\ Gated'
      BY <3>1, <3>2, FindingKept DEF GateInv
    <3>4. RunsKnown' /\ BrokenKnown' /\ ClearedKnown'
      BY <3>1, <3>2, RunsKept DEF GateInv
    <3>5. FindingTypes'
      BY <3>1 DEF GateInv, FindingTypes
    <3> QED
      BY <3>3, <3>4, <3>5 DEF GateParts
  <2> QED
    BY <2>1, <2>2, <2>3, <2>4, <2>5, <2>6, <2>7 DEF Next
<1> QED
  BY <1>1, <1>2 DEF GateInv, GateParts

LEMMA GateHolds == Spec => [](SpendInv /\ GateInv)
<1>1. Init => SpendInv /\ GateInv
  BY SpendInit, GateInit
<1>2. SpendInv /\ GateInv /\ [Next]_vars => SpendInv' /\ GateInv'
  BY SpendStep, GateStep
<1> QED
  BY <1>1, <1>2, PTL DEF Spec

\* What the gates make of a finding at a decided stage.
LEMMA DecidedSays ==
  ASSUME GateInv, stage \in Decided
  PROVE  /\ checks \in Checks /\ verdict \in Verdict /\ card \in Card
         /\ decision \in Decision
         /\ Refuses(checks.corroborated, card.confidence, exposure)
                => decision.recommendation = "NO_ACTION"
         /\ verdict.errored => decision.recommendation = "NO_ACTION"
         /\ ~verdict.accepted /\ decision.recommendation = "ACT"
                => Strong(checks, card.confidence, exposure)
         /\ decision.recommendation = "NO_ACTION" => decision.missing # {}
         /\ decision.outcome = "ANNOTATED" => decision.recommendation = "ACT"
         /\ decision.outcome = "VETOED" => decision.recommendation = "NO_ACTION"
<1>1. card \in Card /\ checks \in Checks /\ exposure \in Exposure /\ verdict \in Verdict
  BY DEF GateInv, Flow, Judging, Decided
<1>2. checks.corroborated \in BOOLEAN /\ card.confidence \in Nat
  BY <1>1 DEF Checks, Card
<1>3. PICK strong \in BOOLEAN : strong = Strong(checks, card.confidence, exposure)
  BY <1>2 DEF Strong
<1>4. strong => checks.corroborated /\ card.confidence >= Floor
  BY <1>3 DEF Strong
<1>5. decision = ApplySkepticGate(Decide(checks.corroborated, card.confidence, exposure),
                                  verdict, strong)
  BY <1>3, Zenon DEF GateInv, Gated
<1>6. strong => Strong(checks, card.confidence, exposure)
  BY <1>3, Zenon
<1> QED
  BY <1>1, <1>2, <1>4, <1>5, <1>6, GateDecides

LEMMA NeverRefused ==
  ASSUME GateInv, stage # "error", [Next]_vars
  PROVE  stage' # "error"
<1>1. CASE Assemble
  <2>1. stage = "gatekeeper" /\ (SchemaAdmits(decision, Drafts) => stage' # "error")
    BY <1>1 DEF Assemble
  <2>2. decision.recommendation = "NO_ACTION" => ~Drafts
    BY DEF Drafts
  <2>3. SchemaAdmits(decision, Drafts)
    BY <2>1, <2>2, DecidedSays DEF SchemaAdmits, Decided
  <2> QED
    BY <2>1, <2>3
<1>2. CASE Write
  BY <1>2, WriterIs DEF Write, WriteByRule, WriteBlocked, WriteAccepted, WriteThrew,
     WriteRetried, WriteRejected, Emits, StageAfterWriter
<1>3. CASE Challenge \/ Analyse \/ ActOrRefuse \/ UNCHANGED vars
  BY <1>3 DEF Challenge, ChallengeByRule, ChallengeBlocked, ChallengeAsked,
     ChallengeAnswered, ChallengeBroke, Judged, Analyse, ActOrRefuse, vars
<1>4. CASE Investigate
  BY <1>4
  DEF Investigate, PrepareStep, StepBlocked, StepThrew, StepAnswered, StepFinished,
      CheckCorroboration, AssessExposure, SimulateRunway, DrillOffContext,
      CompleteInvestigation
<1> QED
  BY <1>1, <1>2, <1>3, <1>4 DEF Next

-----------------------------------------------------------------------------

LEMMA TypesFollow ==
  ASSUME SpendInv, GateInv
  PROVE  TypeOK
<1>1. step \in [number: 0..MaxSteps, reserved: StepEstimates \cup {0},
                estimate: StepEstimates, cost: Nat, own: Nat, degraded: BOOLEAN]
  <2>1. step \in StepRecord
    BY DEF SpendInv, MoneyTypes, StepRecord
  <2> QED
    BY <2>1 DEF GateInv, StepBounded, StepRecord
<1>2. broken \subseteq Agent
  BY DEF GateInv, FindingTypes, Agent
<1> QED
  BY <1>1, <1>2 DEF SpendInv, MoneyTypes, GateInv, FindingTypes, Decision, TypeOK

\* Every variable keeps the shape the code gives it (lib/agents/actionops/*.ts),
\* for every size of the loop, of the reserve and of the prices.
THEOREM TypesKept == Spec => []TypeOK
<1>1. SpendInv /\ GateInv => TypeOK
  BY TypesFollow
<1> QED
  BY <1>1, GateHolds, PTL

LEMMA EvidenceFollows ==
  ASSUME GateInv
  PROVE  EvidenceDecides
<1> DEFINE oneOutlet ==
      \A s, t \in request.signals : Outlet[s] = Outlet[t] \/ Blank \in {Outlet[s], Outlet[t]}
<1>1. request.route = "WATERFALL" => EvidenceBound
  BY DEF GateInv, EvidenceKnown, EvidenceBound
<1>2. ASSUME stage = "packet", request.live, Actionable(exposure),
             ~checks.corroborated \/ oneOutlet
      PROVE  decision.recommendation = "NO_ACTION"
  <2>1. checks \in Checks /\ card \in Card
    BY <1>2, DecidedSays DEF Decided
  <2>2. ~checks.corroborated
    <3>0. checks # None
      BY <2>1, InputAssumption
    <3>1. CASE oneOutlet
      <4>1. request.signals \in SUBSET Signals
        BY InputAssumption DEF GateInv, FindingTypes, Request
      <4>2. PICK signals \in SUBSET request.signals :
                checks.sources = Cardinality(Outlets(signals))
        BY <3>0 DEF GateInv, EvidenceKnown
      <4>3. \A s, t \in signals : Outlet[s] = Outlet[t] \/ Blank \in {Outlet[s], Outlet[t]}
        BY <3>1, <4>2
      <4>4. checks.sources < 2 /\ checks.sources \in Nat
        BY <2>1, <4>1, <4>2, <4>3, OneOutletIsOne DEF Checks
      <4>5. ~(checks.sources >= 2)
        BY <4>4
      <4> QED
        BY <3>0, <4>5 DEF GateInv, EvidenceKnown
    <3> QED
      BY <1>2, <3>1
  <2>3. card.confidence < Floor
    BY <1>2, <2>2 DEF GateInv, Gated, Decided
  <2> QED
    BY <1>2, <2>2, <2>3, DecidedSays DEF Decided, Refuses
<1> QED
  BY <1>1, <1>2 DEF EvidenceDecides

\* No number a model wrote makes a live run act (recommendation.ts:13-36,
\* index.ts:129-138): whatever the scenario, the signals, the countries and the
\* confidences, and in whatever order the tools are called, a live run with
\* something to act on refuses unless two outlets corroborate it.
THEOREM EvidenceDecidesAlways == Spec => []EvidenceDecides
<1>1. SpendInv /\ GateInv => EvidenceDecides
  BY EvidenceFollows
<1> QED
  BY <1>1, GateHolds, PTL

LEMMA CriticFollows ==
  ASSUME GateInv, stage # "error"
  PROVE  CriticBinds
<1>1. ASSUME stage = "packet"
      PROVE  /\ checks \in Checks /\ verdict \in Verdict
             /\ ~verdict.accepted /\ decision.recommendation = "ACT"
                    => Strong(checks, card.confidence, exposure)
             /\ verdict.errored => decision.recommendation = "NO_ACTION"
  BY <1>1, DecidedSays DEF Decided
<1>2. ASSUME stage = "packet", "Skeptic" \in broken
      PROVE  decision.recommendation = "NO_ACTION" /\ ~clears
  <2>1. verdict.errored
    BY <1>2 DEF GateInv, BrokenKnown, Hold
  <2>2. "Skeptic" \in Agent /\ runs["Skeptic"] # None
    BY <1>2 DEF GateInv, RunsKnown, Agent
  <2>3. ~runs["Skeptic"].pass
    BY <1>2, <2>2 DEF GateInv, RunsKnown, RunKnown
  <2> QED
    BY <1>1, <1>2, <2>1, <2>2, <2>3 DEF GateInv, ClearedKnown
<1> QED
  BY <1>1, <1>2 DEF CriticBinds, Strong

\* What the critic does to a packet (skeptic.ts:614-694) holds for every finding
\* it is asked about, from the waterfall, from a tool or at the loop's end: one that
\* broke leaves a refusal nobody can approve, an objection is overruled only by
\* strong evidence of the packet's own, and the schema takes what comes of it.
THEOREM CriticAlwaysBinds == Spec => []CriticBinds
<1>1. Init => stage # "error"
  BY DEF Init
<1>2. SpendInv /\ GateInv /\ stage # "error" /\ [Next]_vars => (stage # "error")'
  BY NeverRefused
<1>3. SpendInv /\ GateInv /\ stage # "error" => CriticBinds
  BY CriticFollows
<1> QED
  BY <1>1, <1>2, <1>3, GateHolds, PTL DEF Spec

LEMMA DegradedFollows ==
  ASSUME GateInv
  PROVE  DegradedIsHeldAndShown
<1> SUFFICES ASSUME stage = "packet"
             PROVE  LET mode == EffectiveMode({run.mode : run \in AllRuns})
                    IN  /\ clears => broken \subseteq {"Investigator"}
                        /\ (mode = "FAILED_TO_FALLBACK") <=> (broken # {})
                        /\ (mode = "LIVE_AI") <=> (request.live /\ broken = {})
  BY DEF DegradedIsHeldAndShown
<1> DEFINE modes == {run.mode : run \in AllRuns}
<1>1. broken \subseteq Agent
  BY DEF GateInv, FindingTypes, Agent
<1>2. \A a \in Agent : a \in broken => runs[a] # None
  BY DEF GateInv, RunsKnown, LoopStages
<1>3. \A a \in Agent : runs[a] # None => RunKnown(runs[a], a)
  BY DEF GateInv, RunsKnown
<1>4. clears => broken \subseteq {"Investigator"}
  BY <1>1, <1>2, <1>3 DEF GateInv, ClearedKnown, RunKnown
<1>5. "FAILED_TO_FALLBACK" \in modes <=> broken # {}
  <2>1. ASSUME NEW a \in broken PROVE "FAILED_TO_FALLBACK" \in modes
    <3>1. a \in Agent /\ runs[a] # None /\ runs[a].mode = "FAILED_TO_FALLBACK"
      BY <1>1, <1>2, <1>3, <2>1 DEF RunKnown
    <3> QED
      BY <3>1 DEF AllRuns
  <2>2. ASSUME "FAILED_TO_FALLBACK" \in modes PROVE broken # {}
    <3>1. PICK a \in Agent : runs[a] # None /\ runs[a].mode = "FAILED_TO_FALLBACK"
      BY <2>2 DEF AllRuns
    <3> QED
      BY <1>3, <3>1 DEF RunKnown
  <2> QED
    BY <2>1, <2>2
<1>6. "LIVE_AI" \in modes => request.live
  BY <1>3 DEF AllRuns, RunKnown
<1>7. request.live /\ broken = {} => "LIVE_AI" \in modes
  <2>1. "Sentinel" \in Agent /\ runs["Sentinel"] # None /\ runs["Sentinel"] \in Run \cup {None}
    BY DEF GateInv, BrokenKnown, FindingTypes, Agent, Writer
  <2>2. request.live => runs["Sentinel"].mode # "DETERMINISTIC_RULES"
    BY DEF GateInv, BrokenKnown
  <2>3. broken = {} => runs["Sentinel"].mode # "FAILED_TO_FALLBACK"
    BY <1>3, <2>1 DEF RunKnown
  <2>4. request.live /\ broken = {} => runs["Sentinel"].mode = "LIVE_AI"
    BY <2>1, <2>2, <2>3 DEF Run, Mode
  <2>5. runs["Sentinel"].mode \in modes
    BY <2>1 DEF AllRuns
  <2> QED
    BY <2>4, <2>5
<1> HIDE DEF modes
<1>8. /\ EffectiveMode(modes) = "FAILED_TO_FALLBACK" <=> "FAILED_TO_FALLBACK" \in modes
      /\ EffectiveMode(modes) = "LIVE_AI"
             <=> "LIVE_AI" \in modes /\ "FAILED_TO_FALLBACK" \notin modes
  BY DEF EffectiveMode
<1>9. /\ (EffectiveMode(modes) = "FAILED_TO_FALLBACK") <=> (broken # {})
      /\ (EffectiveMode(modes) = "LIVE_AI") <=> (request.live /\ broken = {})
  BY <1>5, <1>6, <1>7, <1>8
<1> QED
  BY <1>4, <1>9 DEF modes

\* What degraded is held and shown (gatekeeper.ts:67-77, run.ts:617-642): for every
\* agent that fell back, wherever in the run and for whatever reason, the packet's
\* badge says so, and nobody is offered its output for approval.
THEOREM DegradedAlwaysShown == Spec => []DegradedIsHeldAndShown
<1>1. SpendInv /\ GateInv => DegradedIsHeldAndShown
  BY DegradedFollows
<1> QED
  BY <1>1, GateHolds, PTL
=============================================================================
