--------------------------- MODULE PacketRunProofs ---------------------------
(***************************************************************************)
(* What a finished packet holds, for any suppliers, live signals, model    *)
(* answers, retries and environments.                                      *)
(*                                                                         *)
(* The run itself adds little: what it knows in each stage is that every   *)
(* part came from the rules or out of a firewall (PacketInv).  The         *)
(* properties then follow from what the firewalls, the ranking, the        *)
(* runway and the graders compute, which the lemmas say operator by        *)
(* operator.                                                               *)
(***************************************************************************)
EXTENDS PacketRun, FiniteSetTheorems, WellFoundedInduction, TLAPS

-----------------------------------------------------------------------------
(* Numbers and finite sets.                                                *)

LEMMA SmallestNumber ==
    ASSUME NEW T \in SUBSET Nat, T # {}
    PROVE  \E x \in T : \A y \in T : x <= y
<1>1. PICK x \in T : \A y \in T : ~ (<<y, x>> \in OpToRel(<, Nat))
  BY WFMin, NatLessThanWellFounded, Zenon
<1>2. \A y \in T : ~(y < x)
  BY <1>1, Zenon DEF OpToRel
<1> QED
  BY <1>2

\* A proper part of a finite set is smaller.
LEMMA PartIsSmaller ==
    ASSUME NEW T, IsFiniteSet(T), NEW A \in SUBSET T, NEW a \in T, a \notin A
    PROVE  /\ Cardinality(A) \in Nat /\ Cardinality(T) \in Nat
           /\ Cardinality(A) < Cardinality(T)
<1>1. IsFiniteSet(A) /\ Cardinality(A) <= Cardinality(T) /\ Cardinality(A) # Cardinality(T)
  BY FS_Subset
<1>2. Cardinality(A) \in Nat /\ Cardinality(T) \in Nat
  BY <1>1, FS_CardinalityType
<1> QED
  BY <1>1, <1>2

\* A finite set of numbers has a greatest one.
LEMMA MaxIs ==
    ASSUME NEW S \in SUBSET Int, IsFiniteSet(S), S # {}
    PROVE  Max(S) \in S /\ \A y \in S : Max(S) >= y
<1> DEFINE Above(x) == {y \in S : y > x}
           counts == {Cardinality(Above(x)) : x \in S}
<1>1. \A x \in S : Cardinality(Above(x)) \in Nat
  BY FS_Subset, FS_CardinalityType
<1>2. counts \in SUBSET Nat /\ counts # {}
  BY <1>1
<1>3. PICK n \in counts : \A k \in counts : n <= k
  BY <1>2, SmallestNumber
<1>4. PICK m \in S : n = Cardinality(Above(m))
  BY <1>3
<1>5. ASSUME NEW y \in S, y > m PROVE FALSE
  <2>b. m \in Int /\ y \in Int /\ \A z \in S : z \in Int
    OBVIOUS
  <2>c. \A z \in S : z > y => z > m
    BY <2>b, <1>5
  <2>d. ~(y > y)
    BY <2>b
  <2>1. Above(m) \in SUBSET S /\ Above(y) \in SUBSET Above(m) /\ y \in Above(m) /\ y \notin Above(y)
    BY <1>5, <2>c, <2>d, Zenon
  <2> HIDE DEF Above
  <2>a. IsFiniteSet(Above(m))
    BY <2>1, FS_Subset
  <2>2. Cardinality(Above(y)) < n /\ Cardinality(Above(y)) \in Nat /\ n \in Nat
    BY <2>1, <2>a, <1>4, PartIsSmaller
  <2>3. Cardinality(Above(y)) \in counts
    OBVIOUS
  <2>4. n <= Cardinality(Above(y))
    BY <2>3, <1>3
  <2> QED
    BY <2>2, <2>4
<1>6. \A y \in S : m >= y
  BY <1>5
<1> QED
  BY <1>6 DEF Max

\* ... and a least one.
LEMMA MinIs ==
    ASSUME NEW S \in SUBSET Int, IsFiniteSet(S), S # {}
    PROVE  Min(S) \in S /\ \A y \in S : Min(S) <= y
<1> DEFINE Below(x) == {y \in S : y < x}
           counts == {Cardinality(Below(x)) : x \in S}
<1>1. \A x \in S : Cardinality(Below(x)) \in Nat
  BY FS_Subset, FS_CardinalityType
<1>2. counts \in SUBSET Nat /\ counts # {}
  BY <1>1
<1>3. PICK n \in counts : \A k \in counts : n <= k
  BY <1>2, SmallestNumber
<1>4. PICK m \in S : n = Cardinality(Below(m))
  BY <1>3
<1>5. ASSUME NEW y \in S, y < m PROVE FALSE
  <2>b. m \in Int /\ y \in Int /\ \A z \in S : z \in Int
    OBVIOUS
  <2>c. \A z \in S : z < y => z < m
    BY <2>b, <1>5
  <2>d. ~(y < y)
    BY <2>b
  <2>1. Below(m) \in SUBSET S /\ Below(y) \in SUBSET Below(m) /\ y \in Below(m) /\ y \notin Below(y)
    BY <1>5, <2>c, <2>d, Zenon
  <2> HIDE DEF Below
  <2>a. IsFiniteSet(Below(m))
    BY <2>1, FS_Subset
  <2>2. Cardinality(Below(y)) < n /\ Cardinality(Below(y)) \in Nat /\ n \in Nat
    BY <2>1, <2>a, <1>4, PartIsSmaller
  <2>3. Cardinality(Below(y)) \in counts
    OBVIOUS
  <2>4. n <= Cardinality(Below(y))
    BY <2>3, <1>3
  <2> QED
    BY <2>2, <2>4
<1>6. \A y \in S : m <= y
  BY <1>5
<1> QED
  BY <1>6 DEF Min

LEMMA PairExtrema ==
    ASSUME NEW a \in Int, NEW b \in Int
    PROVE  /\ Max({a, b}) = IF a >= b THEN a ELSE b
           /\ Min({a, b}) = IF a <= b THEN a ELSE b
<1>1. IsFiniteSet({a, b}) /\ {a, b} \in SUBSET Int /\ {a, b} # {}
  <2>1. IsFiniteSet({a}) /\ IsFiniteSet({b}) /\ {a, b} = {a} \cup {b}
    BY FS_Singleton
  <2>2. IsFiniteSet({a} \cup {b})
    BY <2>1, FS_Union
  <2> QED
    BY <2>1, <2>2
<1>2. Max({a, b}) \in {a, b} /\ \A y \in {a, b} : Max({a, b}) >= y
  BY <1>1, MaxIs
<1>3. Min({a, b}) \in {a, b} /\ \A y \in {a, b} : Min({a, b}) <= y
  BY <1>1, MinIs
<1> QED
  BY <1>2, <1>3

LEMMA ClampIs ==
    ASSUME NEW n \in Int, NEW low \in Int, NEW high \in Int, low <= high
    PROVE  Clamp(n, low, high) \in low..high
<1>1. Min({high, n}) = IF high <= n THEN high ELSE n
  BY PairExtrema
<1>2. Min({high, n}) \in Int
  BY <1>1
<1>3. Max({low, Min({high, n})}) = IF low >= Min({high, n}) THEN low ELSE Min({high, n})
  BY <1>2, PairExtrema
<1>4. Clamp(n, low, high) = Max({low, Min({high, n})})
  BY DEF Clamp
<1> QED
  BY <1>1, <1>3, <1>4

-----------------------------------------------------------------------------
(* The ranking.                                                            *)

\* Where whoever stands before is fewer, places are taken once each: a ranking
\* of a finite set lists each of its elements, and once.
LEMMA RankedIs ==
    ASSUME NEW items, IsFiniteSet(items),
           NEW score \in [items -> Int], NEW key \in [items -> Int],
           \A a, b \in items : key[a] = key[b] => a = b
    PROVE  LET r == Ranked(items, score, key)
           IN  /\ r \in Bijection(1..Cardinality(items), items)
               /\ \A i, j \in 1..Cardinality(items) : i < j => score[r[i]] >= score[r[j]]
<1> DEFINE before(a, b) == score[a] > score[b] \/ (score[a] = score[b] /\ key[a] < key[b])
           Ahead(e) == {f \in items : before(f, e)}
           n == Cardinality(items)
           rank == [e \in items |-> Cardinality(Ahead(e)) + 1]
           r == Ranked(items, score, key)
<1>1. \A a, b \in items : a # b => before(a, b) \/ before(b, a)
  OBVIOUS
<1>2. \A a, b, c \in items : before(a, b) /\ before(b, c) => before(a, c)
  OBVIOUS
<1>3. \A a \in items : ~before(a, a)
  OBVIOUS
<1>4. r = [i \in 1..n |-> CHOOSE e \in items : Cardinality(Ahead(e)) = i - 1]
  BY DEF Ranked
<1> HIDE DEF before
<1>5. n \in Nat
  BY FS_CardinalityType
<1>6. \A e \in items : Cardinality(Ahead(e)) \in Nat /\ Cardinality(Ahead(e)) < n
  <2> TAKE e \in items
  <2>1. Ahead(e) \in SUBSET items /\ e \notin Ahead(e)
    BY <1>3
  <2> QED
    BY <2>1, PartIsSmaller
<1>7. ASSUME NEW a \in items, NEW b \in items, before(a, b)
      PROVE  Cardinality(Ahead(a)) < Cardinality(Ahead(b))
  <2>1. IsFiniteSet(Ahead(b))
    BY FS_Subset
  <2>2. Ahead(a) \in SUBSET Ahead(b) /\ a \in Ahead(b) /\ a \notin Ahead(a)
    BY <1>2, <1>3, <1>7
  <2> QED
    BY <2>1, <2>2, PartIsSmaller
<1> HIDE DEF n, Ahead, r
<1>8. rank \in [items -> 1..n]
  BY <1>5, <1>6
<1>9. \A a, b \in items : rank[a] = rank[b] => a = b
  BY <1>1, <1>6, <1>7
<1>10. rank \in Injection(items, 1..n)
  BY <1>8, <1>9 DEF Injection, IsInjective
<1>11. IsFiniteSet(1..n) /\ Cardinality(1..n) = n
  <2>1. 1 \in Int /\ n \in Int
    BY <1>5
  <2>2. IsFiniteSet(1..n) /\ Cardinality(1..n) = IF 1 > n THEN 0 ELSE n - 1 + 1
    BY <2>1, FS_Interval, Zenon
  <2> QED
    BY <2>2, <1>5
<1>12. rank \in Surjection(items, 1..n)
  <2>1. Cardinality(items) = Cardinality(1..n)
    BY <1>11 DEF n
  <2> QED
    BY <1>10, <1>11, <2>1, FS_Injection
<1>13. \A i \in 1..n : r[i] \in items /\ rank[r[i]] = i
  <2> TAKE i \in 1..n
  <2>1. \E e \in items : Cardinality(Ahead(e)) = i - 1
    <3>1. PICK e \in items : rank[e] = i
      BY <1>12 DEF Surjection
    <3> QED
      BY <3>1, <1>6, <1>5
  <2>2. r[i] = CHOOSE e \in items : Cardinality(Ahead(e)) = i - 1
    BY <1>4
  <2>3. r[i] \in items /\ Cardinality(Ahead(r[i])) = i - 1
    BY <2>1, <2>2
  <2> QED
    BY <2>3, <1>5
<1> HIDE DEF rank
<1>14. r \in [1..n -> items]
  BY <1>4, <1>13
<1>15. \A e \in items : r[rank[e]] = e
  BY <1>8, <1>9, <1>13
<1>16. r \in Bijection(1..n, items)
  <2>1. \A i, j \in 1..n : r[i] = r[j] => i = j
    BY <1>13
  <2>2. \A e \in items : \E i \in 1..n : r[i] = e
    BY <1>15, <1>8
  <2> QED
    BY <1>14, <2>1, <2>2 DEF Bijection, Injection, Surjection, IsInjective
<1>17. ASSUME NEW i \in 1..n, NEW j \in 1..n, i < j PROVE score[r[i]] >= score[r[j]]
  <2>1. r[i] \in items /\ r[j] \in items /\ rank[r[i]] < rank[r[j]]
    BY <1>13, <1>17
  <2>2. Cardinality(Ahead(r[i])) < Cardinality(Ahead(r[j]))
    BY <2>1, <1>6 DEF rank
  <2>3. ~before(r[j], r[i])
    BY <2>1, <2>2, <1>6, <1>7
  <2> QED
    BY <2>1, <2>3 DEF before
<1> QED
  BY <1>16, <1>17 DEF n, r

-----------------------------------------------------------------------------
(* The inductive invariant.                                                *)

Outcomes == {"rules", "fallback", "quoted", "live"}

\* The runs in the trail when the run is past each stage.
PastSentinel(o) == <<Run("Sentinel", o)>> \o RulesRuns(finding)
PastSkeptic(o, q) == Append(PastSentinel(o), Run("Skeptic", q))
PastStrategist(o, q, r) == Append(PastSkeptic(o, q), Run("Strategist", r))
PastDispatcher(o, q, r, t) == Append(PastStrategist(o, q, r), Run("Dispatcher", t))

\* What each writer may have left: the rules' own, or what its firewall accepted.
CardKnown(card) ==
    \/ card = DeterministicThreatCard(ActionOpsScenarios[scenario])
    \/ live /\ card \in Accepted(ThreatVerdicts(scenario))
PlanKnown ==
    \/ playbooks = DeterministicPlaybooks(finding.exposures)
    \/ finding.exposures # <<>> /\ playbooks \in Accepted(PlaybookVerdicts)
DraftsKnown ==
    \/ messages = DeterministicDrafts(finding.exposures, finding.simulation)
    \/ finding.exposures # <<>> /\ messages \in Accepted(DraftVerdicts)

\* A finished run refused, and wrote nothing, or acted on what the writers left.
Refused == playbooks = {} /\ messages = {}
Acted == PlanKnown /\ DraftsKnown
PacketIs(recommendation) ==
    packet = Assemble(scenario, SignalsOf(scenario, live), finding, recommendation,
                      playbooks, messages, trail)
DoneKnown ==
    \E o, q \in Outcomes :
        \/ /\ PacketIs("NO_ACTION") /\ Refused
           /\ trail = PastDispatcher(o, q, "withheld", "withheld")
        \/ /\ PacketIs("ACT") /\ Acted
           /\ \E r, t \in Outcomes : trail = PastDispatcher(o, q, r, t)

PacketInv ==
    /\ scenario \in ScenarioIds /\ live \in BOOLEAN
    /\ stage \in {"sentinel", "skeptic", "strategist", "dispatcher", "done"}
    /\ stage # "sentinel" => \E card : CardKnown(card) /\ finding = FindingOf(card)
    /\ stage = "skeptic" => \E o \in Outcomes : trail = PastSentinel(o)
    /\ stage = "strategist" => \E o, q \in Outcomes : trail = PastSkeptic(o, q)
    /\ stage = "dispatcher" => PlanKnown /\ \E o, q, r \in Outcomes : trail = PastStrategist(o, q, r)
    /\ stage \in {"sentinel", "skeptic", "strategist"} => playbooks = {}
    /\ stage # "done" => messages = {}
    /\ stage = "done" => DoneKnown

LEMMA InitInv == Init => PacketInv
BY DEF Init, PacketInv

LEMMA ResultIs ==
    ASSUME NEW verdicts, NEW byRules, NEW asked \in BOOLEAN,
           NEW r \in IF asked THEN Results(verdicts, byRules) ELSE ByRules(byRules)
    PROVE  /\ r.outcome \in Outcomes
           /\ r.value = byRules \/ (asked /\ r.value \in Accepted(verdicts))
<1>1. CASE r = [value |-> byRules, outcome |-> "fallback"]
  BY <1>1 DEF Outcomes
<1>2. CASE r = [value |-> byRules, outcome |-> "rules"]
  BY <1>2 DEF Outcomes
<1>3. CASE asked /\ \E v \in Accepted(verdicts) : r = [value |-> v, outcome |-> "live"]
  BY <1>3 DEF Outcomes
<1>4. CASE r = [value |-> byRules, outcome |-> "quoted"]
  BY <1>4 DEF Outcomes
<1> QED
  BY <1>1, <1>2, <1>3, <1>4 DEF Results, ByRules

\* What was known of the finding stays known while the run's inputs do.
LEMMA FindingKept ==
    ASSUME UNCHANGED <<scenario, live, finding>>,
           NEW card, CardKnown(card), finding = FindingOf(card)
    PROVE  (\E c : CardKnown(c) /\ finding = FindingOf(c))'
<1>1. CardKnown(card)' /\ (finding = FindingOf(card))'
  BY DEF CardKnown, ThreatVerdicts, SignalsOf, FindingOf
<1> QED
  BY <1>1

LEMMA RetryInv == PacketInv /\ stage # "done" /\ Retry => PacketInv'
<1> SUFFICES ASSUME PacketInv, stage # "done", Retry PROVE PacketInv'
  OBVIOUS
<1>0. UNCHANGED <<scenario, live, stage, finding, decision, playbooks, messages, trail, packet>>
  BY DEF Retry
<1>1. (stage # "sentinel" => \E card : CardKnown(card) /\ finding = FindingOf(card))'
  BY <1>0, FindingKept DEF PacketInv
<1>2. PlanKnown => PlanKnown'
  BY <1>0 DEF PlanKnown, PlaybookVerdicts
<1> QED
  BY <1>0, <1>1, <1>2 DEF PacketInv, PastSentinel, PastSkeptic, PastStrategist

LEMMA ThreatInv == PacketInv /\ ClassifyThreat => PacketInv'
<1> SUFFICES ASSUME PacketInv, ClassifyThreat PROVE PacketInv'
  OBVIOUS
<1>1. CASE Retry
  BY <1>1, RetryInv DEF ClassifyThreat
<1>2. CASE ~Retry
  <2> DEFINE rules == DeterministicThreatCard(ActionOpsScenarios[scenario])
  <2>1. PICK r \in IF live THEN Results(ThreatVerdicts(scenario), rules) ELSE ByRules(rules) :
            /\ finding' = FindingOf(r.value)
            /\ trail' = <<Run("Sentinel", r.outcome)>> \o RulesRuns(finding')
            /\ stage' = "skeptic"
            /\ UNCHANGED <<scenario, live, reserve, decision, playbooks, messages, packet>>
    BY <1>2 DEF ClassifyThreat
  <2>2. live \in BOOLEAN /\ stage = "sentinel"
    BY DEF PacketInv, ClassifyThreat
  <2>3. /\ r.outcome \in Outcomes
        /\ r.value = rules \/ (live /\ r.value \in Accepted(ThreatVerdicts(scenario)))
    BY <2>1, <2>2, ResultIs
  <2>4. CardKnown(r.value)
    BY <2>3 DEF CardKnown
  <2>5. CardKnown(r.value)'
    BY <2>1, <2>4 DEF CardKnown, ThreatVerdicts, SignalsOf
  <2>6. (finding = FindingOf(r.value))'
    BY <2>1, ZenonT(60) DEF FindingOf, SignalsOf
  <2>7. (trail = PastSentinel(r.outcome))'
    BY <2>1 DEF PastSentinel
  <2> HIDE DEF rules
  <2> QED
    BY <2>1, <2>2, <2>3, <2>5, <2>6, <2>7 DEF PacketInv
<1> QED
  BY <1>1, <1>2

LEMMA ChallengeInv == PacketInv /\ ChallengeFinding => PacketInv'
<1> SUFFICES ASSUME PacketInv, ChallengeFinding PROVE PacketInv'
  OBVIOUS
<1>0. stage = "skeptic" /\ UNCHANGED <<scenario, live, reserve, finding, playbooks>>
  BY DEF ChallengeFinding
<1> DEFINE outcome(judged) == IF judged = "broken" THEN "fallback" ELSE "rules"
           runs(judged) == Append(trail, Run("Skeptic", outcome(judged)))
<1>1. PICK judged \in IF live THEN {"accept", "reject", "broken"} ELSE {"accept"} :
          IF decision'.recommendation = "ACT"
          THEN stage' = "strategist" /\ trail' = runs(judged) /\ UNCHANGED <<messages, packet>>
          ELSE Finish("NO_ACTION", {},
                      runs(judged) \o <<Run("Strategist", "withheld"), Run("Dispatcher", "withheld")>>)
  BY DEF ChallengeFinding
<1>2. PICK o \in Outcomes : trail = PastSentinel(o)
  BY <1>0 DEF PacketInv
<1>3. outcome(judged) \in Outcomes
  BY DEF Outcomes
<1>4. runs(judged) = PastSkeptic(o, outcome(judged))
  BY <1>2 DEF PastSkeptic
<1>5. PastSkeptic(o, outcome(judged))' = PastSkeptic(o, outcome(judged))
  BY <1>0 DEF PastSkeptic, PastSentinel
<1>6. (\E card : CardKnown(card) /\ finding = FindingOf(card))'
  BY <1>0, FindingKept DEF PacketInv
<1>7. /\ scenario' \in ScenarioIds /\ live' \in BOOLEAN
      /\ playbooks = {} /\ playbooks' = {} /\ messages = {}
  BY <1>0 DEF PacketInv
<1>8. CASE decision'.recommendation = "ACT"
  <2>1. stage' = "strategist" /\ trail' = PastSkeptic(o, outcome(judged))' /\ messages' = {}
    BY <1>1, <1>8, <1>4, <1>5, <1>7
  <2> HIDE DEF outcome
  <2> QED
    BY <2>1, <1>3, <1>6, <1>7 DEF PacketInv
<1>9. CASE decision'.recommendation # "ACT"
  <2> DEFINE all == runs(judged) \o <<Run("Strategist", "withheld"), Run("Dispatcher", "withheld")>>
  <2>1. Finish("NO_ACTION", {}, all)
    BY <1>1, <1>9
  <2>2. all = PastDispatcher(o, outcome(judged), "withheld", "withheld")
    BY <1>4, <1>2 DEF PastDispatcher, PastStrategist, PastSkeptic, PastSentinel, RulesRuns
  <2>3. PastDispatcher(o, outcome(judged), "withheld", "withheld")'
            = PastDispatcher(o, outcome(judged), "withheld", "withheld")
    BY <1>5 DEF PastDispatcher, PastStrategist
  <2> HIDE DEF all, outcome
  <2>4. /\ stage' = "done" /\ messages' = {} /\ trail' = all
        /\ packet' = Assemble(scenario, SignalsOf(scenario, live), finding, "NO_ACTION", playbooks, {}, all)
    BY <2>1 DEF Finish
  <2>5. PacketIs("NO_ACTION")'
    BY <2>4, <1>0 DEF PacketIs, SignalsOf, Assemble
  <2>6. Refused'
    BY <2>4, <1>7 DEF Refused
  <2>7. DoneKnown'
    BY <2>2, <2>3, <2>4, <2>5, <2>6, <1>3 DEF DoneKnown
  <2> QED
    BY <2>4, <2>7, <1>6, <1>7 DEF PacketInv
<1> QED
  BY <1>8, <1>9

LEMMA PlaybooksInv == PacketInv /\ ClassifyPlaybooks => PacketInv'
<1> SUFFICES ASSUME PacketInv, ClassifyPlaybooks PROVE PacketInv'
  OBVIOUS
<1>1. CASE Retry
  BY <1>1, RetryInv DEF ClassifyPlaybooks
<1>2. CASE ~Retry
  <2> DEFINE rules == DeterministicPlaybooks(finding.exposures)
  <2>1. PICK r \in IF Asked THEN Results(PlaybookVerdicts, rules) ELSE ByRules(rules) :
            /\ playbooks' = r.value
            /\ trail' = Append(trail, Run("Strategist", r.outcome))
            /\ stage' = "dispatcher"
            /\ UNCHANGED <<scenario, live, reserve, finding, decision, messages, packet>>
    BY <1>2 DEF ClassifyPlaybooks
  <2>2. live \in BOOLEAN /\ stage = "strategist" /\ Asked \in BOOLEAN
    BY DEF PacketInv, ClassifyPlaybooks, Asked
  <2>3. /\ r.outcome \in Outcomes
        /\ r.value = rules \/ (Asked /\ r.value \in Accepted(PlaybookVerdicts))
    BY <2>1, <2>2, ResultIs
  <2>4. PlanKnown'
    BY <2>1, <2>3 DEF PlanKnown, PlaybookVerdicts, Asked
  <2>5. PICK o \in Outcomes, q \in Outcomes : trail = PastSkeptic(o, q)
    BY <2>2 DEF PacketInv
  <2>6. (trail = PastStrategist(o, q, r.outcome))'
    BY <2>1, <2>5 DEF PastStrategist, PastSkeptic, PastSentinel
  <2>7. (\E card : CardKnown(card) /\ finding = FindingOf(card))'
    BY <2>1, <2>2, FindingKept DEF PacketInv
  <2> HIDE DEF rules
  <2> QED
    BY <2>1, <2>2, <2>3, <2>4, <2>6, <2>7 DEF PacketInv
<1> QED
  BY <1>1, <1>2

LEMMA MessagesInv == PacketInv /\ ClassifyMessages => PacketInv'
<1> SUFFICES ASSUME PacketInv, ClassifyMessages PROVE PacketInv'
  OBVIOUS
<1>1. CASE Retry
  BY <1>1, RetryInv DEF ClassifyMessages
<1>2. CASE ~Retry
  <2> DEFINE rules == DeterministicDrafts(finding.exposures, finding.simulation)
  <2>1. PICK r \in IF Asked THEN Results(DraftVerdicts, rules) ELSE ByRules(rules) :
            /\ Finish("ACT", r.value, Append(trail, Run("Dispatcher", r.outcome)))
            /\ UNCHANGED <<scenario, live, reserve, finding, decision, playbooks>>
    BY <1>2 DEF ClassifyMessages
  <2>2. live \in BOOLEAN /\ stage = "dispatcher" /\ Asked \in BOOLEAN
    BY DEF PacketInv, ClassifyMessages, Asked
  <2>3. /\ r.outcome \in Outcomes
        /\ r.value = rules \/ (Asked /\ r.value \in Accepted(DraftVerdicts))
    BY <2>1, <2>2, ResultIs
  <2>4. /\ stage' = "done" /\ messages' = r.value /\ trail' = Append(trail, Run("Dispatcher", r.outcome))
        /\ packet' = Assemble(scenario, SignalsOf(scenario, live), finding, "ACT", playbooks, r.value,
                              Append(trail, Run("Dispatcher", r.outcome)))
    BY <2>1 DEF Finish
  <2>5. PICK o \in Outcomes, q \in Outcomes, s \in Outcomes : trail = PastStrategist(o, q, s)
    BY <2>2 DEF PacketInv
  <2>6. (trail = PastDispatcher(o, q, s, r.outcome))'
    BY <2>1, <2>4, <2>5 DEF PastDispatcher, PastStrategist, PastSkeptic, PastSentinel
  <2>7. (\E card : CardKnown(card) /\ finding = FindingOf(card))'
    BY <2>1, <2>2, FindingKept DEF PacketInv
  <2> HIDE DEF rules
  <2>8. PlanKnown'
    BY <2>1, <2>2 DEF PlanKnown, PlaybookVerdicts, PacketInv
  <2>9. DraftsKnown'
    BY <2>1, <2>3, <2>4 DEF DraftsKnown, DraftVerdicts, CitationRoot, SignalsOf, Asked, rules
  <2>10. PacketIs("ACT")'
    BY <2>1, <2>4 DEF PacketIs, SignalsOf, Assemble
  <2>11. DoneKnown'
    BY <2>3, <2>6, <2>8, <2>9, <2>10 DEF DoneKnown, Acted
  <2> QED
    BY <2>1, <2>2, <2>4, <2>7, <2>11 DEF PacketInv
<1> QED
  BY <1>1, <1>2

\* Of a run there is known, in each stage, where each part of it came from; done, a
\* run that acts has parts its writers' firewalls let through, and one that refuses none.
THEOREM PacketInvAlways == Spec => []PacketInv
<1>1. PacketInv /\ [Next]_vars => PacketInv'
  <2> SUFFICES ASSUME PacketInv, [Next]_vars PROVE PacketInv'
    OBVIOUS
  <2>1. CASE UNCHANGED vars
    <3>0. UNCHANGED vars
      BY <2>1
    <3>a. (stage # "sentinel" => \E card : CardKnown(card) /\ finding = FindingOf(card))'
      BY <3>0, FindingKept DEF PacketInv, vars
    <3>b. (PlanKnown => PlanKnown') /\ (DraftsKnown => DraftsKnown')
      BY <3>0 DEF vars, PlanKnown, PlaybookVerdicts, DraftsKnown, DraftVerdicts, CitationRoot,
                  SignalsOf
    <3>c. \A d : PacketIs(d) => PacketIs(d)'
      BY <3>0 DEF vars, PacketIs, SignalsOf
    <3>d. \A o, q, r, t : PastDispatcher(o, q, r, t)' = PastDispatcher(o, q, r, t)
      BY <3>0 DEF vars, PastDispatcher, PastStrategist, PastSkeptic, PastSentinel
    <3>e. \A o, q, r : PastStrategist(o, q, r)' = PastStrategist(o, q, r)
      BY <3>0 DEF vars, PastStrategist, PastSkeptic, PastSentinel
    <3>f. DoneKnown => DoneKnown'
      <4> SUFFICES ASSUME DoneKnown PROVE DoneKnown'
        OBVIOUS
      <4>1. PICK o \in Outcomes, q \in Outcomes :
              \/ /\ PacketIs("NO_ACTION") /\ Refused
                 /\ trail = PastDispatcher(o, q, "withheld", "withheld")
              \/ /\ PacketIs("ACT") /\ Acted
                 /\ \E r, t \in Outcomes : trail = PastDispatcher(o, q, r, t)
        BY DEF DoneKnown
      <4>2. (Refused => Refused') /\ (Acted => Acted') /\ trail' = trail
        BY <3>0, <3>b DEF vars, Refused, Acted
      <4> QED
        BY <4>1, <4>2, <3>c, <3>d DEF DoneKnown
    <3> QED
      BY <3>0, <3>a, <3>b, <3>e, <3>f DEF PacketInv, vars, PastSkeptic, PastSentinel
  <2> QED
    BY <2>1, ThreatInv, ChallengeInv, PlaybooksInv, MessagesInv DEF Next
<1> QED
  BY InitInv, <1>1, PTL DEF Spec

-----------------------------------------------------------------------------
(* The exposures.                                                          *)

\* An exposure's figures are natural numbers and its sector is of the taxonomy.
LEMMA ExposureFigures ==
    ASSUME NEW sc, NEW card, NEW s \in Suppliers
    PROVE  /\ ExposureOf(sc, card, s).supplier = s.id /\ s.id \in Nat
           /\ ExposureOf(sc, card, s).country = s.country
           /\ ExposureOf(sc, card, s).score \in Nat
           /\ ExposureOf(sc, card, s).recoveryDays \in Nat
           /\ ExposureOf(sc, card, s).sector \in Sectors
           /\ sc.offTaxonomy => ExposureOf(sc, card, s).sector = "OTHER_UNMAPPED"
           /\ ExposureOf(sc, card, s).singleSource \in BOOLEAN
<1>1. s.id \in Nat /\ s.lead \in Nat /\ s.riskTier \in DOMAIN RiskTierBase
  BY PacketAssumption
<1>2. RiskTierBase[s.riskTier] \in Nat
  BY <1>1 DEF RiskTierBase
<1>3. Clamp(s.lead - 30, 0, 30) \in 0..30
  <2>1. s.lead - 30 \in Int /\ 0 \in Int /\ 30 \in Int /\ 0 <= 30
    BY <1>1
  <2> QED
    BY <2>1, ClampIs
<1>4. ExposureScore(s) \in Nat
  BY <1>2, <1>3 DEF ExposureScore
<1>5. RecoveryDays(card.eventType, s) \in Nat
  BY <1>1 DEF RecoveryDays
<1>6. ResolveSector(sc.offTaxonomy, s.sector) \in Sectors
  BY DEF ResolveSector, Sectors
<1> QED
  BY <1>1, <1>4, <1>5, <1>6 DEF ExposureOf, ResolveSector, SingleSource

\* Ranking the exposures of some suppliers lists each supplier's, and once.
LEMMA ExposuresToIs ==
    ASSUME NEW sc, NEW card, NEW matched \in SUBSET Suppliers
    PROVE  LET e == ExposuresTo(sc, card, matched).exposures
           IN  /\ IsFiniteSet(matched) /\ Cardinality(matched) \in Nat
               /\ DOMAIN e = 1..Cardinality(matched)
               /\ \A i \in DOMAIN e : \E s \in matched : e[i] = ExposureOf(sc, card, s)
               /\ \A s \in matched : \E i \in DOMAIN e : e[i] = ExposureOf(sc, card, s)
               /\ \A i, j \in DOMAIN e : e[i].supplier = e[j].supplier => i = j
               /\ \A i, j \in DOMAIN e : i < j => e[i].score >= e[j].score
               /\ e = [i \in 1..Cardinality(matched) |-> e[i]]
<1> DEFINE exposed == {ExposureOf(sc, card, s) : s \in matched}
           score == [x \in exposed |-> x.score]
           key == [x \in exposed |-> x.supplier]
           of == [s \in matched |-> ExposureOf(sc, card, s)]
           e == Ranked(exposed, score, key)
<1>1. IsFiniteSet(matched) /\ Cardinality(matched) \in Nat
  BY PacketAssumption, FS_Subset, FS_CardinalityType
<1>2. \A s, t \in matched : ExposureOf(sc, card, s).supplier = ExposureOf(sc, card, t).supplier => s = t
  BY ExposureFigures, PacketAssumption
<1>3. of \in Bijection(matched, exposed)
  BY <1>2 DEF Bijection, Injection, Surjection, IsInjective
<1>4. IsFiniteSet(exposed) /\ Cardinality(exposed) = Cardinality(matched)
  <2> HIDE DEF exposed, of
  <2>1. ExistsBijection(matched, exposed)
    BY <1>3 DEF ExistsBijection
  <2> QED
    BY <1>1, <2>1, FS_Bijection
<1>5. score \in [exposed -> Int] /\ key \in [exposed -> Int]
  BY ExposureFigures
<1>6. \A x, y \in exposed : key[x] = key[y] => x = y
  BY <1>2
<1>7. ExposuresTo(sc, card, matched).exposures = e
  BY DEF ExposuresTo
<1>8. \A x \in exposed : score[x] = x.score /\ key[x] = x.supplier
  OBVIOUS
<1>a. \A x \in exposed : \E s \in matched : x = ExposureOf(sc, card, s)
  OBVIOUS
<1>b. \A s \in matched : ExposureOf(sc, card, s) \in exposed
  OBVIOUS
<1> HIDE DEF exposed, score, key, e
<1>9. /\ e \in Bijection(1..Cardinality(exposed), exposed)
      /\ \A i, j \in 1..Cardinality(exposed) : i < j => score[e[i]] >= score[e[j]]
  BY <1>4, <1>5, <1>6, RankedIs DEF e
<1>10. /\ e \in [1..Cardinality(matched) -> exposed]
       /\ \A i, j \in 1..Cardinality(matched) : e[i] = e[j] => i = j
       /\ \A x \in exposed : \E i \in 1..Cardinality(matched) : e[i] = x
  BY <1>9, <1>4 DEF Bijection, Injection, Surjection, IsInjective
<1>11. \A i, j \in 1..Cardinality(matched) : e[i].supplier = e[j].supplier => i = j
  BY <1>10, <1>8, <1>6
<1>12. \A i, j \in 1..Cardinality(matched) : i < j => e[i].score >= e[j].score
  BY <1>10, <1>9, <1>8, <1>4
<1> QED
  BY <1>1, <1>7, <1>10, <1>11, <1>12, <1>a, <1>b

\* What Atlas finds: nothing, or an exposure of each supplier the scenario selects.
LEMMA AtlasIs ==
    ASSUME NEW sc, NEW card
    PROVE  LET matched == MatchSuppliers(Suppliers, sc.match)
               atlas == RunAtlas(sc, card, Suppliers)
               e == atlas.exposures
           IN  /\ matched \in SUBSET Suppliers
               /\ IsFiniteSet(matched) /\ Cardinality(matched) \in Nat
               /\ atlas.status \in {"PASS", "FAIL"}
               /\ atlas.status = "FAIL" => e = <<>>
               /\ atlas.status = "PASS" => DOMAIN e = 1..Cardinality(matched)
                                           /\ \A s \in matched : \E i \in DOMAIN e : e[i].supplier = s.id
               /\ DOMAIN e \in {1..0, 1..Cardinality(matched)}
               /\ \A i \in DOMAIN e : \E s \in matched : e[i] = ExposureOf(sc, card, s)
               /\ \A i, j \in DOMAIN e : e[i].supplier = e[j].supplier => i = j
               /\ \A i, j \in DOMAIN e : i < j => e[i].score >= e[j].score
               /\ e = [i \in DOMAIN e |-> e[i]]
<1> DEFINE matched == MatchSuppliers(Suppliers, sc.match)
           atlas == RunAtlas(sc, card, Suppliers)
           to == ExposuresTo(sc, card, matched)
           Facts(x) == /\ DOMAIN x \in {1..0, 1..Cardinality(matched)}
                       /\ \A i \in DOMAIN x : \E s \in matched : x[i] = ExposureOf(sc, card, s)
                       /\ \A i, j \in DOMAIN x : x[i].supplier = x[j].supplier => i = j
                       /\ \A i, j \in DOMAIN x : i < j => x[i].score >= x[j].score
                       /\ x = [i \in DOMAIN x |-> x[i]]
<1>1. matched \in SUBSET Suppliers
  BY DEF MatchSuppliers
<1>2. \/ matched = {} /\ atlas = NoExposure("no direct exposure", "PASS")
      \/ atlas = NoExposure("unmapped chokepoint", "FAIL")
      \/ atlas = NoExposure("out of scope", "FAIL")
      \/ atlas = to
  BY Zenon DEF RunAtlas
<1>x. \/ matched = {} /\ atlas.exposures = <<>> /\ atlas.status = "PASS"
      \/ atlas.exposures = <<>> /\ atlas.status = "FAIL"
      \/ atlas = to
  <2> HIDE DEF matched, atlas, to, Facts
  <2>1. ASSUME NEW gap, NEW status, atlas = NoExposure(gap, status)
        PROVE  atlas.exposures = <<>> /\ atlas.status = status
    BY <2>1 DEF NoExposure
  <2> QED
    BY <1>2, <2>1
<1> HIDE DEF matched, atlas
<1>3. IsFiniteSet(matched) /\ Cardinality(matched) \in Nat
  BY <1>1, ExposuresToIs
<1>4. Facts(<<>>)
  <2>1. DOMAIN <<>> = 1..0 /\ DOMAIN <<>> = {}
    OBVIOUS
  <2>2. <<>> = [i \in DOMAIN <<>> |-> <<>>[i]]
    OBVIOUS
  <2> QED
    BY <2>1, <2>2
<1>5. Facts(to.exposures) /\ DOMAIN to.exposures = 1..Cardinality(matched)
      /\ \A s \in matched : \E i \in DOMAIN to.exposures : to.exposures[i].supplier = s.id
  <2> DEFINE e == to.exposures
  <2>1. /\ DOMAIN e = 1..Cardinality(matched)
        /\ \A i \in DOMAIN e : \E s \in matched : e[i] = ExposureOf(sc, card, s)
        /\ \A s \in matched : \E i \in DOMAIN e : e[i] = ExposureOf(sc, card, s)
        /\ \A i, j \in DOMAIN e : e[i].supplier = e[j].supplier => i = j
        /\ \A i, j \in DOMAIN e : i < j => e[i].score >= e[j].score
        /\ e = [i \in 1..Cardinality(matched) |-> e[i]]
    BY <1>1, ExposuresToIs
  <2> HIDE DEF to
  <2>2. \A s \in matched : ExposureOf(sc, card, s).supplier = s.id
    BY DEF ExposureOf
  <2> QED
    BY <2>1, <2>2
<1>6. to.status = "PASS"
  BY DEF ExposuresTo
<1> HIDE DEF to
<1>7. Facts(atlas.exposures)
  <2>1. Facts(to.exposures)
    BY <1>5
  <2> HIDE DEF Facts
  <2>2. atlas = to \/ atlas.exposures = <<>>
    BY <1>x, <1>6
  <2> QED
    BY <2>1, <2>2, <1>4
<1>8. atlas.status \in {"PASS", "FAIL"} /\ (atlas.status = "FAIL" => atlas.exposures = <<>>)
  BY <1>x, <1>6
<1>9. atlas.status = "PASS" => DOMAIN atlas.exposures = 1..Cardinality(matched)
         /\ \A s \in matched : \E i \in DOMAIN atlas.exposures : atlas.exposures[i].supplier = s.id
  <2> HIDE DEF Facts
  <2>1. CASE atlas = to
    BY <2>1, <1>5
  <2>2. CASE matched = {} /\ atlas.exposures = <<>>
    <3>1. atlas.exposures = <<>> /\ Cardinality(matched) = 0
      BY <2>2, FS_EmptySet
    <3>2. DOMAIN atlas.exposures = 1..Cardinality(matched)
      BY <3>1
    <3> QED
      BY <2>2, <3>2
  <2> QED
    BY <2>1, <2>2, <1>x
<1> QED
  BY <1>1, <1>3, <1>7, <1>8, <1>9 DEF matched, atlas

-----------------------------------------------------------------------------
(* What the run knows of its scenario, its card and its finding.           *)

\* What the eight scenarios have in common.
LEMMA ScenarioIs ==
    ASSUME NEW name \in ScenarioIds
    PROVE  LET sc == ActionOpsScenarios[name]
           IN  /\ sc.threat.chokepoint \in {None, "Strait of Hormuz"}
               /\ sc.threat.chokepoint # None => sc = Hormuz
               /\ sc.threat.evidence # {} /\ sc.threat.evidence \cap UnsafeUrls = {}
               /\ \A s \in sc.signals : s.url \in sc.threat.evidence
               /\ sc.offTaxonomy \in BOOLEAN
               /\ sc.offTaxonomy => sc.gaps # {}
<1>1. name \in DOMAIN ActionOpsScenarios
  BY PacketAssumption
<1>2. ActionOpsScenarios[name] \in
          {Hormuz, Tariff, RedSea, Hurricane, Bankruptcy, ZeroExposure, OffTaxonomy, ThinEvidence}
  BY <1>1 DEF ActionOpsScenarios
<1> DEFINE Good(sc) == /\ sc.threat.chokepoint \in {None, "Strait of Hormuz"}
                       /\ sc.threat.chokepoint # None => sc = Hormuz
                       /\ sc.threat.evidence # {} /\ sc.threat.evidence \cap UnsafeUrls = {}
                       /\ \A s \in sc.signals : s.url \in sc.threat.evidence
                       /\ sc.offTaxonomy \in BOOLEAN
                       /\ sc.offTaxonomy => sc.gaps # {}
<1>g. ASSUME NEW sc,
             \/ sc.threat.chokepoint = None
             \/ sc.threat.chokepoint = "Strait of Hormuz" /\ sc = Hormuz,
             sc.threat.evidence # {}, sc.threat.evidence \cap UnsafeUrls = {},
             \A s \in sc.signals : s.url \in sc.threat.evidence,
             sc.offTaxonomy = FALSE \/ (sc.offTaxonomy = TRUE /\ sc.gaps # {})
      PROVE  Good(sc)
  <2>1. sc.threat.chokepoint \in {None, "Strait of Hormuz"}
    BY <1>g
  <2>2. sc.offTaxonomy \in BOOLEAN
    BY <1>g
  <2>3. sc.offTaxonomy => sc.gaps # {}
    BY <1>g
  <2> QED
    BY <1>g, <2>1, <2>2, <2>3, Zenon
<1> HIDE DEF Good
<1>3. Good(Hormuz)
  <2>e. Hormuz.threat.evidence = {"gdelt-hormuz", "eia-hormuz", "reuters-hormuz"}
    BY DEF Hormuz, Scenario, Threat
  <2>c. Hormuz.threat.chokepoint = "Strait of Hormuz"
    BY DEF Hormuz, Scenario, Threat
  <2>o. Hormuz.offTaxonomy = FALSE
    BY DEF Hormuz, Scenario
  <2>1. Hormuz.threat.evidence = {"gdelt-hormuz", "eia-hormuz", "reuters-hormuz"}
        /\ Hormuz.threat.chokepoint = "Strait of Hormuz" /\ Hormuz.offTaxonomy = FALSE
    BY <2>e, <2>c, <2>o
  <2>s. Hormuz.signals = {ReplaySignal("GDELT DOC 2.0", "gdelt-hormuz", "OM"),
                          ReplaySignal("EIA Today in Energy", "eia-hormuz", None),
                          ReplaySignal("Reuters (via GDELT)", "reuters-hormuz", "AE")}
    BY DEF Hormuz, Scenario
  <2>a. /\ ReplaySignal("GDELT DOC 2.0", "gdelt-hormuz", "OM").url = "gdelt-hormuz"
        /\ ReplaySignal("EIA Today in Energy", "eia-hormuz", None).url = "eia-hormuz"
        /\ ReplaySignal("Reuters (via GDELT)", "reuters-hormuz", "AE").url = "reuters-hormuz"
    BY DEF ReplaySignal
  <2>2. \A s \in Hormuz.signals : s.url \in Hormuz.threat.evidence
    BY <2>1, <2>s, <2>a, Zenon
  <2>3. Hormuz.threat.evidence # {} /\ Hormuz.threat.evidence \cap UnsafeUrls = {}
    BY <2>1 DEF UnsafeUrls
  <2> QED
    BY <2>1, <2>2, <2>3, <1>g
<1>4. Good(Tariff)
  <2>1. /\ Tariff.threat.chokepoint = None /\ Tariff.threat.evidence = {"ustr-tariff", "gdelt-tariff"}
        /\ Tariff.signals = {ReplaySignal("USTR", "ustr-tariff", "CN"),
                           ReplaySignal("GDELT DOC 2.0", "gdelt-tariff", "CN")}
        /\ Tariff.offTaxonomy = FALSE
    BY DEF Tariff, Scenario, Threat
  <2>a. /\ ReplaySignal("USTR", "ustr-tariff", "CN").url = "ustr-tariff"
        /\ ReplaySignal("GDELT DOC 2.0", "gdelt-tariff", "CN").url = "gdelt-tariff"
    BY DEF ReplaySignal
  <2>2. \A s \in Tariff.signals : s.url \in Tariff.threat.evidence
    BY <2>1, <2>a
  <2>3. Tariff.threat.evidence # {} /\ Tariff.threat.evidence \cap UnsafeUrls = {}
    BY <2>1 DEF UnsafeUrls
  <2> QED
    BY <2>1, <2>2, <2>3, <1>g
<1>5. Good(RedSea)
  <2>1. /\ RedSea.threat.chokepoint = None /\ RedSea.threat.evidence = {"gdelt-redsea", "lloyds-redsea"}
        /\ RedSea.signals = {ReplaySignal("GDELT DOC 2.0", "gdelt-redsea", None),
                           ReplaySignal("Lloyd's List (via GDELT)", "lloyds-redsea", "IN")}
        /\ RedSea.offTaxonomy = FALSE
    BY DEF RedSea, Scenario, Threat
  <2>a. /\ ReplaySignal("GDELT DOC 2.0", "gdelt-redsea", None).url = "gdelt-redsea"
        /\ ReplaySignal("Lloyd's List (via GDELT)", "lloyds-redsea", "IN").url = "lloyds-redsea"
    BY DEF ReplaySignal
  <2>2. \A s \in RedSea.signals : s.url \in RedSea.threat.evidence
    BY <2>1, <2>a
  <2>3. RedSea.threat.evidence # {} /\ RedSea.threat.evidence \cap UnsafeUrls = {}
    BY <2>1 DEF UnsafeUrls
  <2> QED
    BY <2>1, <2>2, <2>3, <1>g
<1>6. Good(Hurricane)
  <2>1. /\ Hurricane.threat.chokepoint = None /\ Hurricane.threat.evidence = {"nws-hurricane"}
        /\ Hurricane.signals = {ReplaySignal("National Weather Service", "nws-hurricane", "US")}
        /\ Hurricane.offTaxonomy = FALSE
    BY DEF Hurricane, Scenario, Threat
  <2>a. /\ ReplaySignal("National Weather Service", "nws-hurricane", "US").url = "nws-hurricane"
    BY DEF ReplaySignal
  <2>2. \A s \in Hurricane.signals : s.url \in Hurricane.threat.evidence
    BY <2>1, <2>a
  <2>3. Hurricane.threat.evidence # {} /\ Hurricane.threat.evidence \cap UnsafeUrls = {}
    BY <2>1 DEF UnsafeUrls
  <2> QED
    BY <2>1, <2>2, <2>3, <1>g
<1>7. Good(Bankruptcy)
  <2>1. /\ Bankruptcy.threat.chokepoint = None /\ Bankruptcy.threat.evidence = {"gdelt-bankruptcy"}
        /\ Bankruptcy.signals = {ReplaySignal("GDELT DOC 2.0", "gdelt-bankruptcy", "IN")}
        /\ Bankruptcy.offTaxonomy = FALSE
    BY DEF Bankruptcy, Scenario, Threat
  <2>a. /\ ReplaySignal("GDELT DOC 2.0", "gdelt-bankruptcy", "IN").url = "gdelt-bankruptcy"
    BY DEF ReplaySignal
  <2>2. \A s \in Bankruptcy.signals : s.url \in Bankruptcy.threat.evidence
    BY <2>1, <2>a
  <2>3. Bankruptcy.threat.evidence # {} /\ Bankruptcy.threat.evidence \cap UnsafeUrls = {}
    BY <2>1 DEF UnsafeUrls
  <2> QED
    BY <2>1, <2>2, <2>3, <1>g
<1>8. Good(ZeroExposure)
  <2>1. /\ ZeroExposure.threat.chokepoint = None /\ ZeroExposure.threat.evidence = {"gdelt-callao"}
        /\ ZeroExposure.signals = {ReplaySignal("GDELT DOC 2.0", "gdelt-callao", "PE")}
        /\ ZeroExposure.offTaxonomy = FALSE
    BY DEF ZeroExposure, Scenario, Threat
  <2>a. /\ ReplaySignal("GDELT DOC 2.0", "gdelt-callao", "PE").url = "gdelt-callao"
    BY DEF ReplaySignal
  <2>2. \A s \in ZeroExposure.signals : s.url \in ZeroExposure.threat.evidence
    BY <2>1, <2>a
  <2>3. ZeroExposure.threat.evidence # {} /\ ZeroExposure.threat.evidence \cap UnsafeUrls = {}
    BY <2>1 DEF UnsafeUrls
  <2> QED
    BY <2>1, <2>2, <2>3, <1>g
<1>9. Good(OffTaxonomy)
  <2>1. /\ OffTaxonomy.threat.chokepoint = None /\ OffTaxonomy.threat.evidence = {"swpc-flare"}
        /\ OffTaxonomy.signals = {ReplaySignal("NOAA SWPC", "swpc-flare", None)}
        /\ OffTaxonomy.offTaxonomy = TRUE /\ OffTaxonomy.gaps # {}
    BY DEF OffTaxonomy, Scenario, Threat
  <2>a. /\ ReplaySignal("NOAA SWPC", "swpc-flare", None).url = "swpc-flare"
    BY DEF ReplaySignal
  <2>2. \A s \in OffTaxonomy.signals : s.url \in OffTaxonomy.threat.evidence
    BY <2>1, <2>a
  <2>3. OffTaxonomy.threat.evidence # {} /\ OffTaxonomy.threat.evidence \cap UnsafeUrls = {}
    BY <2>1 DEF UnsafeUrls
  <2> QED
    BY <2>1, <2>2, <2>3, <1>g
<1>10. Good(ThinEvidence)
  <2>1. /\ ThinEvidence.threat.chokepoint = None /\ ThinEvidence.threat.evidence = {"gdelt-rumor"}
        /\ ThinEvidence.signals = {ReplaySignal("GDELT DOC 2.0", "gdelt-rumor", "US")}
        /\ ThinEvidence.offTaxonomy = FALSE
    BY DEF ThinEvidence, Scenario, Threat
  <2>a. /\ ReplaySignal("GDELT DOC 2.0", "gdelt-rumor", "US").url = "gdelt-rumor"
    BY DEF ReplaySignal
  <2>2. \A s \in ThinEvidence.signals : s.url \in ThinEvidence.threat.evidence
    BY <2>1, <2>a
  <2>3. ThinEvidence.threat.evidence # {} /\ ThinEvidence.threat.evidence \cap UnsafeUrls = {}
    BY <2>1 DEF UnsafeUrls
  <2> QED
    BY <2>1, <2>2, <2>3, <1>g
<1>11. Good(ActionOpsScenarios[name])
  BY <1>2, <1>3, <1>4, <1>5, <1>6, <1>7, <1>8, <1>9, <1>10
<1> QED
  BY <1>11 DEF Good

\* A card a run goes by: of the type's fields, at the scenario's chokepoint or at none,
\* and grounded in what was fetched.
CardIs(card, sc, signals) ==
    /\ card = [eventType |-> card.eventType, country |-> card.country,
               chokepoint |-> card.chokepoint, summary |-> card.summary,
               evidence |-> card.evidence, confidence |-> card.confidence]
    /\ card.chokepoint \in {None, sc.threat.chokepoint}
    /\ card.evidence # {}
    /\ \A url \in card.evidence \cup FindLinks(card.summary) :
          IsSafeHttpUrl(url) /\ url \in EvidenceAllowlist(sc, signals)

LEMMA RulesCard ==
    ASSUME NEW name \in ScenarioIds, NEW signals
    PROVE  CardIs(DeterministicThreatCard(ActionOpsScenarios[name]), ActionOpsScenarios[name], signals)
<1> DEFINE sc == ActionOpsScenarios[name]
           card == DeterministicThreatCard(sc)
<1>1. sc.threat.evidence # {} /\ sc.threat.evidence \cap UnsafeUrls = {}
  BY ScenarioIs
<1> HIDE DEF sc
<1>2. FindLinks(card.summary) = {}
  BY DEF DeterministicThreatCard, FindLinks, Prose
<1> QED
  BY <1>1, <1>2 DEF CardIs, DeterministicThreatCard, IsSafeHttpUrl, EvidenceAllowlist, sc

LEMMA AcceptedCard ==
    ASSUME NEW name \in ScenarioIds, NEW card \in Accepted(ThreatVerdicts(name))
    PROVE  CardIs(card, ActionOpsScenarios[name], LiveSignals(name))
<1> DEFINE sc == ActionOpsScenarios[name]
           signals == SignalsOf(name, TRUE)
<1>1. PICK a \in ThreatAnswers :
          /\ ApplyThreatFirewall(ThreatAnswer(a, name), sc, signals).ok
          /\ card = ApplyThreatFirewall(ThreatAnswer(a, name), sc, signals).value
  BY DEF Accepted, ThreatVerdicts
<1> DEFINE raw == ThreatAnswer(a, name)
           known == sc.threat.chokepoint
           summary == SanitizeText(raw.summary)
           made == [eventType |-> ResolveEventType(raw.eventType),
                    country |-> IF raw.country \in CountryCodes THEN raw.country ELSE None,
                    chokepoint |-> IF raw.chokepoint # None THEN known ELSE None,
                    summary |-> summary, evidence |-> raw.evidence,
                    confidence |-> IF raw.confidence = None THEN sc.threat.confidence
                                   ELSE Max({0, Min({100, raw.confidence})})]
           grounded ==
               /\ raw.evidence # {}
               /\ \A url \in raw.evidence \cup FindLinks(summary) :
                    IsSafeHttpUrl(url) /\ url \in EvidenceAllowlist(sc, signals)
<1>2. ApplyThreatFirewall(raw, sc, signals) = Reject
        \/ (grounded /\ ApplyThreatFirewall(raw, sc, signals) = Accept(made))
  BY DEF ApplyThreatFirewall
<1> HIDE DEF sc, signals, raw, known, summary
<1>3. ~Reject.ok
  BY DEF Reject
<1>4. grounded /\ card = made
  BY <1>1, <1>2, <1>3 DEF Accept, raw
<1>6. signals = LiveSignals(name)
  BY DEF signals, SignalsOf
<1>7. /\ made = [eventType |-> made.eventType, country |-> made.country,
                 chokepoint |-> made.chokepoint, summary |-> made.summary,
                 evidence |-> made.evidence, confidence |-> made.confidence]
      /\ made.chokepoint \in {None, known} /\ made.evidence = raw.evidence /\ made.summary = summary
  OBVIOUS
<1> HIDE DEF made
<1> QED
  BY <1>4, <1>6, <1>7 DEF CardIs, sc, known

\* A lower confidence exposes the same suppliers.
LEMMA AtlasIgnoresConfidence ==
    ASSUME NEW sc, NEW card, NEW c, c.eventType = card.eventType, c.chokepoint = card.chokepoint
    PROVE  RunAtlas(sc, c, Suppliers) = RunAtlas(sc, card, Suppliers)
<1>1. \A s : ExposureOf(sc, c, s) = ExposureOf(sc, card, s)
  BY DEF ExposureOf
<1>2. Scope(c) = Scope(card)
  BY DEF Scope
<1>3. ASSUME NEW matched
      PROVE  ExposuresTo(sc, c, matched) = ExposuresTo(sc, card, matched)
  <2>1. {ExposureOf(sc, c, s) : s \in matched} = {ExposureOf(sc, card, s) : s \in matched}
    BY <1>1
  <2> QED
    BY <2>1 DEF ExposuresTo
<1> QED
  BY <1>2, <1>3 DEF RunAtlas

Sc == ActionOpsScenarios[scenario]

\* Past Sentinel, the finding is what Atlas and the Simulator make of the card.
FindingIs ==
    /\ scenario \in ScenarioIds
    /\ CardIs(finding.card, Sc, SignalsOf(scenario, live))
    /\ finding.exposures = RunAtlas(Sc, finding.card, Suppliers).exposures
    /\ finding.atlas = RunAtlas(Sc, finding.card, Suppliers).status
    /\ finding.simulation = RunSimulator(Sc, finding.exposures).simulation
    /\ finding.gaps = RunAtlas(Sc, finding.card, Suppliers).gaps
                      \cup RunSimulator(Sc, finding.exposures).gaps
    /\ finding.exposures \in Exposed(scenario)

LEMMA FindingKnown == PacketInv /\ stage # "sentinel" => FindingIs
<1> SUFFICES ASSUME PacketInv, stage # "sentinel" PROVE FindingIs
  OBVIOUS
<1>1. PICK card : CardKnown(card) /\ finding = FindingOf(card)
  BY DEF PacketInv
<1>2. scenario \in ScenarioIds /\ live \in BOOLEAN
  BY DEF PacketInv
<1>3. CardIs(card, Sc, SignalsOf(scenario, live))
  <2>1. CASE card = DeterministicThreatCard(ActionOpsScenarios[scenario])
    BY <1>2, <2>1, RulesCard DEF Sc
  <2>2. CASE live /\ card \in Accepted(ThreatVerdicts(scenario))
    BY <1>2, <2>2, AcceptedCard DEF Sc, SignalsOf
  <2> QED
    BY <1>1, <2>1, <2>2 DEF CardKnown
<1>4. RunAtlas(Sc, card, Suppliers).exposures \in Exposed(scenario)
  <2>1. card \in Cards(scenario)
    BY <1>1 DEF CardKnown, Cards
  <2> QED
    BY <2>1 DEF Exposed, Sc
<1> DEFINE heard == {s \in SignalsOf(scenario, live) : live => s.url \in card.evidence}
           checks == Gates!Verify(heard, card)
           capped == Gates!CapUncorroborated(card, live, checks.corroborated)
           lowered == [card EXCEPT !.confidence = Floor - CapGap]
<1>5. capped \in {card, lowered}
  BY DEF Gates!CapUncorroborated
<1>6. /\ finding.card = capped /\ finding.atlas = RunAtlas(Sc, capped, Suppliers).status
      /\ finding.exposures = RunAtlas(Sc, capped, Suppliers).exposures
      /\ finding.simulation = RunSimulator(Sc, RunAtlas(Sc, capped, Suppliers).exposures).simulation
      /\ finding.gaps = RunAtlas(Sc, capped, Suppliers).gaps
                        \cup RunSimulator(Sc, RunAtlas(Sc, capped, Suppliers).exposures).gaps
  BY <1>1 DEF FindingOf, Sc
<1> HIDE DEF capped, checks, heard
<1>7. /\ card = [eventType |-> card.eventType, country |-> card.country,
                 chokepoint |-> card.chokepoint, summary |-> card.summary,
                 evidence |-> card.evidence, confidence |-> card.confidence]
  BY <1>3 DEF CardIs
<1>8. lowered = [eventType |-> card.eventType, country |-> card.country,
                 chokepoint |-> card.chokepoint, summary |-> card.summary,
                 evidence |-> card.evidence, confidence |-> Floor - CapGap]
  BY <1>7
<1> HIDE DEF lowered
<1>9. /\ lowered.eventType = card.eventType /\ lowered.country = card.country
      /\ lowered.chokepoint = card.chokepoint /\ lowered.summary = card.summary
      /\ lowered.evidence = card.evidence /\ lowered.confidence = Floor - CapGap
  BY <1>8
<1>10. CardIs(lowered, Sc, SignalsOf(scenario, live))
  BY <1>3, <1>8, <1>9 DEF CardIs
<1>11. CardIs(capped, Sc, SignalsOf(scenario, live))
  BY <1>3, <1>5, <1>10
<1>12. RunAtlas(Sc, capped, Suppliers) = RunAtlas(Sc, card, Suppliers)
  BY <1>5, <1>9, AtlasIgnoresConfidence
<1> QED
  BY <1>2, <1>4, <1>6, <1>11, <1>12 DEF FindingIs

\* The parts of the packet are those it is assembled from.
LEMMA PacketPartsAre ==
    ASSUME NEW name, NEW signals, NEW found, NEW d, NEW plan, NEW drafts, NEW runs,
           NEW p, p = Assemble(name, signals, found, d, plan, drafts, runs)
    PROVE  /\ p.card = found.card /\ p.signals = signals /\ p.exposures = found.exposures
           /\ p.simulation = found.simulation /\ p.recommendation = d
           /\ found.gaps \subseteq p.gaps
           /\ p.playbooks = plan /\ p.messages = drafts
           /\ p.items = (IF d = "ACT" THEN ActionItems(found.exposures) ELSE {})
           /\ p.options = (IF d = "ACT" THEN BuildRecoveryOptions(found.exposures, found.simulation)
                           ELSE <<>>)
           /\ p.runs = Range(runs)
<1> DEFINE unchecked ==
              [gatekeeper |-> None, card |-> found.card, signals |-> signals, exposures |-> found.exposures,
               simulation |-> found.simulation,
               gaps |-> found.gaps \cup IF d = "ACT" THEN {} ELSE {"withheld"},
               recommendation |-> d, playbooks |-> plan, messages |-> drafts,
               items |-> IF d = "ACT" THEN ActionItems(found.exposures) ELSE {},
               options |-> IF d = "ACT" THEN BuildRecoveryOptions(found.exposures, found.simulation)
                           ELSE <<>>,
               runs |-> Range(runs)]
<1>1. p = [unchecked EXCEPT !.gatekeeper = RunActionOpsGatekeeper(unchecked, Known)]
  BY DEF Assemble
<1>2. /\ p.card = unchecked.card /\ p.signals = unchecked.signals /\ p.exposures = unchecked.exposures
      /\ p.simulation = unchecked.simulation /\ p.recommendation = unchecked.recommendation
      /\ p.gaps = unchecked.gaps /\ p.playbooks = unchecked.playbooks
      /\ p.messages = unchecked.messages /\ p.items = unchecked.items
      /\ p.options = unchecked.options /\ p.runs = unchecked.runs
  BY <1>1
<1> QED
  BY <1>2

\* A finished run's packet: the finding's parts, and what the writers left or nothing.
Packed ==
    /\ packet.card = finding.card /\ packet.signals = SignalsOf(scenario, live)
    /\ packet.exposures = finding.exposures /\ packet.simulation = finding.simulation
    /\ finding.gaps \subseteq packet.gaps
    /\ packet.playbooks = playbooks /\ packet.messages = messages
    /\ \/ /\ packet.recommendation = "NO_ACTION" /\ Refused
          /\ packet.items = {} /\ packet.options = <<>>
       \/ /\ packet.recommendation = "ACT" /\ Acted
          /\ packet.items = ActionItems(finding.exposures)
          /\ packet.options = BuildRecoveryOptions(finding.exposures, finding.simulation)

LEMMA PackedKnown == PacketInv /\ Done => Packed /\ FindingIs
<1> SUFFICES ASSUME PacketInv, stage = "done" PROVE Packed /\ FindingIs
  BY DEF Done
<1>1. FindingIs
  BY FindingKnown
<1>2. DoneKnown
  BY DEF PacketInv
<1> DEFINE As(d) ==
           /\ packet.card = finding.card /\ packet.signals = SignalsOf(scenario, live)
           /\ packet.exposures = finding.exposures /\ packet.simulation = finding.simulation
           /\ packet.recommendation = d /\ finding.gaps \subseteq packet.gaps
           /\ packet.playbooks = playbooks /\ packet.messages = messages
           /\ packet.items = (IF d = "ACT" THEN ActionItems(finding.exposures) ELSE {})
           /\ packet.options = (IF d = "ACT"
                                THEN BuildRecoveryOptions(finding.exposures, finding.simulation)
                                ELSE <<>>)
<1>p. ASSUME NEW d, PacketIs(d)
      PROVE  As(d)
  BY <1>p, PacketPartsAre DEF PacketIs
<1>3. CASE PacketIs("NO_ACTION") /\ Refused
  <2>1. As("NO_ACTION")
    BY <1>3, <1>p, Zenon
  <2>2. packet.items = {} /\ packet.options = <<>>
    BY <2>1
  <2> QED
    BY <1>1, <1>3, <2>1, <2>2, Zenon DEF Packed
<1>4. CASE PacketIs("ACT") /\ Acted
  <2>1. As("ACT")
    BY <1>4, <1>p, Zenon
  <2>2. /\ packet.items = ActionItems(finding.exposures)
        /\ packet.options = BuildRecoveryOptions(finding.exposures, finding.simulation)
    BY <2>1
  <2> QED
    BY <1>1, <1>4, <2>1, <2>2, Zenon DEF Packed
<1> QED
  BY <1>1, <1>2, <1>3, <1>4 DEF DoneKnown

-----------------------------------------------------------------------------
(* The drafts.                                                             *)

\* A list of exposures that names no supplier twice.
Listed(e) ==
    \E n \in Nat : /\ DOMAIN e = 1..n /\ e = [i \in 1..n |-> e[i]]
                   /\ \A i, j \in 1..n : e[i].supplier = e[j].supplier => i = j

LEMMA FindingListed == FindingIs => Listed(finding.exposures)
<1> SUFFICES ASSUME FindingIs PROVE Listed(finding.exposures)
  OBVIOUS
<1> DEFINE e == finding.exposures
           n == Cardinality(MatchSuppliers(Suppliers, Sc.match))
<1>1. /\ n \in Nat /\ DOMAIN e \in {1..0, 1..n} /\ e = [i \in DOMAIN e |-> e[i]]
      /\ \A i, j \in DOMAIN e : e[i].supplier = e[j].supplier => i = j
  BY AtlasIs DEF FindingIs
<1> HIDE DEF e, n
<1>2. PICK k \in {0, n} : DOMAIN e = 1..k
  BY <1>1
<1>3. k \in Nat /\ e = [i \in 1..k |-> e[i]]
  BY <1>1, <1>2
<1>4. Listed(e)
  BY <1>1, <1>2, <1>3 DEF Listed
<1> QED
  BY <1>4 DEF e

LEMMA UpTo ==
    ASSUME NEW n \in Nat
    PROVE  IsFiniteSet(1..n) /\ Cardinality(1..n) = n
<1>1. 1 \in Int /\ n \in Int
  OBVIOUS
<1>2. IsFiniteSet(1..n) /\ Cardinality(1..n) = IF 1 > n THEN 0 ELSE n - 1 + 1
  BY <1>1, FS_Interval, Zenon
<1> QED
  BY <1>2

SuppliersOf(e, k) == {e[i].supplier : i \in 1..k}

\* The suppliers of the first k of a list are k.
LEMMA FirstOf ==
    ASSUME NEW e, NEW n \in Nat, NEW k \in 0..n,
           \A i, j \in 1..n : e[i].supplier = e[j].supplier => i = j
    PROVE  IsFiniteSet(SuppliersOf(e, k)) /\ Cardinality(SuppliersOf(e, k)) = k
<1> DEFINE T == SuppliersOf(e, k)
           f == [i \in 1..k |-> e[i].supplier]
<1>1. f \in Bijection(1..k, T)
  BY DEF Bijection, Injection, Surjection, IsInjective, SuppliersOf
<1> HIDE DEF T, f
<1>2. ExistsBijection(1..k, T)
  BY <1>1 DEF ExistsBijection
<1>3. IsFiniteSet(1..k) /\ Cardinality(1..k) = k
  BY UpTo
<1>4. IsFiniteSet(T) /\ Cardinality(T) = k
  BY <1>2, <1>3, FS_Bijection
<1> QED
  BY <1>4 DEF T

\* The most exposed: all of a short list, or five of a longer one.
LEMMA TopExposedIs ==
    ASSUME NEW e, NEW n \in Nat, DOMAIN e = 1..n, e = [i \in 1..n |-> e[i]],
           \A i, j \in 1..n : e[i].supplier = e[j].supplier => i = j
    PROVE  /\ Len(e) = n
           /\ IsFiniteSet(Ids(e)) /\ TopExposed(e) \subseteq Ids(e)
           /\ n <= 5 => TopExposed(e) = Ids(e)
           /\ n > 5 => Cardinality(TopExposed(e)) = 5
           /\ IsFiniteSet(TopExposed(e))
<1>1. Len(e) = n
  OBVIOUS
<1> DEFINE k == Min({MaxDrafts, Len(e)})
           top == SubSeq(e, 1, k)
<1>2. k = (IF 5 <= n THEN 5 ELSE n) /\ k \in 0..n
  <2>1. Min({5, n}) = IF 5 <= n THEN 5 ELSE n
    <3>1. 5 \in Int /\ n \in Int
      OBVIOUS
    <3> QED
      BY <3>1, PairExtrema
  <2> QED
    BY <1>1, <2>1 DEF MaxDrafts
<1> HIDE DEF k
<1>3. DOMAIN top = 1..k /\ \A i \in 1..k : top[i] = e[i]
  BY <1>2
<1> HIDE DEF top
<1>4. TopExposed(e) = SuppliersOf(e, k)
  <2>1. Ids(top) = {top[i].supplier : i \in 1..k}
    BY <1>3 DEF Ids
  <2>2. \A i \in 1..k : top[i].supplier = e[i].supplier
    BY <1>3
  <2>3. {top[i].supplier : i \in 1..k} = {e[i].supplier : i \in 1..k}
    <3> SUFFICES ASSUME NEW x
                 PROVE  x \in {top[i].supplier : i \in 1..k} <=> x \in {e[i].supplier : i \in 1..k}
      BY Zenon
    <3> QED
      BY <2>2, ZenonT(60)
  <2> QED
    BY <2>1, <2>3 DEF TopExposed, top, k, SuppliersOf
<1>5. Ids(e) = SuppliersOf(e, n)
  BY DEF Ids, SuppliersOf
<1>6. /\ IsFiniteSet(SuppliersOf(e, k)) /\ Cardinality(SuppliersOf(e, k)) = k
      /\ IsFiniteSet(SuppliersOf(e, n))
  <2>1. n \in 0..n
    OBVIOUS
  <2> QED
    BY <1>2, <2>1, FirstOf
<1>7. SuppliersOf(e, k) \subseteq SuppliersOf(e, n)
  BY <1>2 DEF SuppliersOf
<1>8. (n <= 5 => k = n) /\ (n > 5 => k = 5)
  BY <1>2
<1> QED
  BY <1>1, <1>4, <1>5, <1>6, <1>7, <1>8

Recipients(drafts) == {m.supplier : m \in drafts}

LEMMA OneEach ==
    ASSUME NEW drafts, IsFiniteSet(Recipients(drafts)),
           \A m, n \in drafts : m.supplier = n.supplier => m = n
    PROVE  IsFiniteSet(drafts) /\ Cardinality(Recipients(drafts)) = Cardinality(drafts)
<1> DEFINE T == Recipients(drafts)
           f == [m \in drafts |-> m.supplier]
<1>1. f \in Injection(drafts, T) /\ f \in Surjection(drafts, T)
  BY DEF Injection, Surjection, IsInjective, Recipients
<1> HIDE DEF T, f
<1>2. IsFiniteSet(T)
  BY DEF T
<1>3. IsFiniteSet(drafts) /\ Cardinality(drafts) = Cardinality(T)
  BY <1>1, <1>2, FS_Injection
<1> QED
  BY <1>3 DEF T

\* Drafts that disclose nothing, one to each of the most exposed suppliers.
Discreet(drafts, e) ==
    /\ \A m \in drafts :
          /\ \A text \in {m.subject, m.body} : FindLinks(text) = {} /\ ~text.risk
          /\ \A c \in m.claims : c.path.leaf # "exposureScore"
    /\ Recipients(drafts) = TopExposed(e)
    /\ IsFiniteSet(drafts) /\ Cardinality(Recipients(drafts)) = Cardinality(drafts)
    /\ \A m, n \in drafts : m.supplier = n.supplier => m = n

LEMMA RulesDraftsDiscreet ==
    ASSUME NEW e, NEW simulation, Listed(e)
    PROVE  Discreet(DeterministicDrafts(e, simulation), e)
<1> DEFINE window == WindowDaysOf(simulation)
           body == IF window = None THEN Prose ELSE [Prose EXCEPT !.figures = {window}]
           claims == IF window = None THEN {} ELSE {Claim(window, "days", WindowPath)}
           draft(s) == [supplier |-> s, subject |-> Prose, body |-> body, claims |-> claims]
           drafts == DeterministicDrafts(e, simulation)
<1>1. drafts = {draft(s) : s \in TopExposed(e)}
  BY DEF DeterministicDrafts
<1>2. /\ FindLinks(Prose) = {} /\ ~Prose.risk
      /\ FindLinks(body) = {} /\ ~body.risk
  BY DEF Prose, FindLinks
<1>3. \A c \in claims : c.path.leaf # "exposureScore"
  BY DEF Claim, WindowPath, Path
<1> HIDE DEF body, claims, drafts
<1>4. \A m \in drafts : m.subject = Prose /\ m.body = body /\ m.claims = claims
  BY <1>1
<1>5. \A m, n \in drafts : m.supplier = n.supplier => m = n
  BY <1>1
<1>6. Recipients(drafts) = TopExposed(e)
  <2>1. \A s \in TopExposed(e) : draft(s) \in drafts /\ draft(s).supplier = s
    BY <1>1
  <2>2. \A m \in drafts : m.supplier \in TopExposed(e)
    BY <1>1
  <2> HIDE DEF draft
  <2> QED
    BY <2>1, <2>2 DEF Recipients
<1>7. IsFiniteSet(TopExposed(e))
  <2>1. PICK n \in Nat : /\ DOMAIN e = 1..n /\ e = [i \in 1..n |-> e[i]]
                         /\ \A i, j \in 1..n : e[i].supplier = e[j].supplier => i = j
    BY DEF Listed
  <2> QED
    BY <2>1, TopExposedIs
<1>8. IsFiniteSet(drafts) /\ Cardinality(Recipients(drafts)) = Cardinality(drafts)
  BY <1>5, <1>6, <1>7, OneEach
<1>9. \A m \in drafts :
          /\ \A text \in {m.subject, m.body} : FindLinks(text) = {} /\ ~text.risk
          /\ \A c \in m.claims : c.path.leaf # "exposureScore"
  BY <1>2, <1>3, <1>4
<1> QED
  BY <1>5, <1>6, <1>8, <1>9 DEF Discreet, drafts

\* What the Dispatcher's firewall lets through is written to the most exposed and to
\* nobody else: at most five drafts are looked at, to each supplier one.
LEMMA AcceptedDraftsDiscreet ==
    ASSUME NEW raw, Len(raw) \in Nat, NEW root, Listed(root.exposures),
           ApplyDispatcherFirewall(raw, root).ok
    PROVE  Discreet(ApplyDispatcherFirewall(raw, root).value, root.exposures)
<1> DEFINE e == root.exposures
           k == Min({MaxDrafts, Len(raw)})
           kept == SubSeq(raw, 1, k)
           drafts == {SanitizedDraft(kept[i]) : i \in DOMAIN kept}
<1>1. /\ ApplyDispatcherFirewall(raw, root).value = drafts
      /\ RecipientsCovered(drafts, e)
      /\ \A i, j \in DOMAIN kept : kept[i].supplier = kept[j].supplier => i = j
      /\ \A d \in drafts : DraftIsSafe(d)
  BY DEF ApplyDispatcherFirewall, Accept, Reject
<1>2. k \in 0..5
  <2>1. 5 \in Int /\ Len(raw) \in Int
    OBVIOUS
  <2>2. Min({5, Len(raw)}) = IF 5 <= Len(raw) THEN 5 ELSE Len(raw)
    BY <2>1, PairExtrema
  <2> QED
    BY <2>2 DEF MaxDrafts
<1> HIDE DEF k
<1>3. DOMAIN kept = 1..k
  BY <1>2
<1> HIDE DEF kept
<1>4. \A m \in drafts : \E i \in 1..k : m = SanitizedDraft(kept[i]) /\ m.supplier = kept[i].supplier
  BY <1>3 DEF SanitizedDraft
<1>5. \A i \in 1..k : \E m \in drafts : m.supplier = kept[i].supplier
  <2>1. \A i \in 1..k : SanitizedDraft(kept[i]) \in drafts
    BY <1>3
  <2>2. \A m : SanitizedDraft(m).supplier = m.supplier
    BY DEF SanitizedDraft
  <2> HIDE DEF drafts
  <2> QED
    BY <2>1, <2>2
<1> HIDE DEF drafts
<1>6. \A m, n \in drafts : m.supplier = n.supplier => m = n
  BY <1>1, <1>3, <1>4
<1>7. Recipients(drafts) = SuppliersOf(kept, k)
  BY <1>4, <1>5 DEF Recipients, SuppliersOf
<1>8. IsFiniteSet(Recipients(drafts)) /\ Cardinality(Recipients(drafts)) = k
  <2>1. \A i, j \in 1..k : kept[i].supplier = kept[j].supplier => i = j
    BY <1>1, <1>3
  <2>2. k \in Nat /\ k \in 0..k
    BY <1>2
  <2> QED
    BY <2>1, <2>2, <1>7, FirstOf
<1>9. IsFiniteSet(drafts) /\ Cardinality(Recipients(drafts)) = Cardinality(drafts)
  BY <1>6, <1>8, OneEach
<1>10. TopExposed(e) \subseteq Recipients(drafts) /\ Recipients(drafts) \subseteq Ids(e)
  BY <1>1 DEF RecipientsCovered, Recipients
<1>11. PICK n \in Nat : /\ DOMAIN e = 1..n /\ e = [i \in 1..n |-> e[i]]
                        /\ \A i, j \in 1..n : e[i].supplier = e[j].supplier => i = j
  BY DEF Listed
<1> HIDE DEF e
<1>12. (n <= 5 => TopExposed(e) = Ids(e)) /\ (n > 5 => Cardinality(TopExposed(e)) = 5)
  BY <1>11, TopExposedIs
<1>13. Recipients(drafts) = TopExposed(e)
  <2>1. CASE n <= 5
    BY <2>1, <1>10, <1>12
  <2>2. CASE n > 5
    <3>1. /\ Cardinality(TopExposed(e)) <= Cardinality(Recipients(drafts))
          /\ Cardinality(Recipients(drafts)) = Cardinality(TopExposed(e)) => Recipients(drafts) = TopExposed(e)
      BY <1>8, <1>10, FS_Subset
    <3> QED
      BY <3>1, <2>2, <1>2, <1>8, <1>12
  <2> QED
    BY <2>1, <2>2
<1>14. \A m \in drafts :
          /\ \A text \in {m.subject, m.body} : FindLinks(text) = {} /\ ~text.risk
          /\ \A c \in m.claims : c.path.leaf # "exposureScore"
  BY <1>1 DEF DraftIsSafe
<1> QED
  BY <1>1, <1>6, <1>9, <1>13, <1>14 DEF Discreet, e

LEMMA DraftsAreDiscreet ==
    FindingIs /\ DraftsKnown => Discreet(messages, finding.exposures)
<1> SUFFICES ASSUME FindingIs, DraftsKnown PROVE Discreet(messages, finding.exposures)
  OBVIOUS
<1>1. Listed(finding.exposures)
  BY FindingListed
<1>2. CASE messages = DeterministicDrafts(finding.exposures, finding.simulation)
  BY <1>1, <1>2, RulesDraftsDiscreet
<1>3. CASE finding.exposures # <<>> /\ messages \in Accepted(DraftVerdicts)
  <2>1. PICK a \in DraftAnswers :
          LET verdict == ApplyDispatcherFirewall(DraftAnswer(a, finding.exposures, finding.simulation),
                                                 CitationRoot)
          IN  verdict.ok /\ messages = verdict.value
    BY <1>3 DEF Accepted, DraftVerdicts
  <2>2. Len(DraftAnswer(a, finding.exposures, finding.simulation)) \in Nat
    BY <1>3, PacketAssumption DEF FindingIs, Sc
  <2>3. CitationRoot.exposures = finding.exposures
    BY DEF CitationRoot
  <2> QED
    BY <1>1, <2>1, <2>2, <2>3, AcceptedDraftsDiscreet
<1> QED
  BY <1>2, <1>3 DEF DraftsKnown

\* No draft of any packet, a blocked one too, links anywhere, tells a risk reading or
\* cites a score; a run that acts writes once to each of the most exposed suppliers
\* and to nobody else, and one that refuses leaves nothing outbound (DraftsDiscloseNothing).
THEOREM DraftsDiscloseNothingAlways == Spec => []DraftsDiscloseNothing
<1>1. PacketInv => DraftsDiscloseNothing
  <2> SUFFICES ASSUME PacketInv, Done PROVE DraftsDiscloseNothing
    BY DEF DraftsDiscloseNothing
  <2>1. Packed /\ FindingIs
    BY PackedKnown
  <2>2. CASE packet.recommendation = "NO_ACTION" /\ Refused /\ packet.items = {} /\ packet.options = <<>>
    <3>1. packet.messages = {} /\ packet.playbooks = {}
      BY <2>1, <2>2 DEF Packed, Refused
    <3>2. {m.supplier : m \in packet.messages} = packet.messages
      BY <3>1
    <3> QED
      BY <2>2, <3>1, <3>2 DEF DraftsDiscloseNothing
  <2>3. CASE packet.recommendation = "ACT" /\ Acted
    <3>1. Discreet(packet.messages, packet.exposures)
      BY <2>1, <2>3, DraftsAreDiscreet DEF Packed, Acted
    <3>2. packet.recommendation # "NO_ACTION"
      BY <2>3
    <3> QED
      BY <3>1, <3>2 DEF DraftsDiscloseNothing, Discreet, Recipients
  <2> QED
    BY <2>1, <2>2, <2>3 DEF Packed
<1> QED
  BY <1>1, PacketInvAlways, PTL

-----------------------------------------------------------------------------
(* The actions.                                                            *)

\* What is asked of a type: by which channel, and whether it may fire by itself.
LEMMA ClassesAre ==
    /\ ClassifyAction("AUDIT_LOG").channel = "INTERNAL"
    /\ ClassifyAction("ROLE_OWNER_ALERT").channel = "SLACK"
    /\ ClassifyAction("TICKET_DRAFT").channel = "TICKET"
    /\ ClassifyAction("SUPPLIER_EMAIL_SEND").channel = "EMAIL"
    /\ ~ClassifyAction("SUPPLIER_EMAIL_SEND").autoFireEligible
BY DEF ClassifyAction, ActionTaxonomy

\* An action of each kind, by what it is made of.
AuditAction(id, p) == FinalizeAction(id, AuditLog(id, p))
AlertAction(id, p) ==
    FinalizeAction(id, [actionType |-> "ROLE_OWNER_ALERT",
                        digest |-> [packetId |-> id, eventType |-> SafeEventType(p.card.eventType)]])
TicketAction(id, i) ==
    FinalizeAction(id, [actionType |-> "TICKET_DRAFT", digest |-> [actionItemId |-> i.id]])
EmailAction(id, m) ==
    FinalizeAction(id, [actionType |-> "SUPPLIER_EMAIL_SEND",
                        digest |-> [messageId |-> m.supplier, supplierId |-> m.supplier]])

LEMMA ActionsAre ==
    ASSUME NEW id, NEW p, NEW i, NEW m
    PROVE  /\ AuditAction(id, p).actionType = "AUDIT_LOG" /\ AuditAction(id, p).channel = "INTERNAL"
           /\ AuditAction(id, p).idempotencyKey[2] = "AUDIT_LOG"
           /\ AlertAction(id, p).actionType = "ROLE_OWNER_ALERT" /\ AlertAction(id, p).channel = "SLACK"
           /\ AlertAction(id, p).idempotencyKey[2] = "ROLE_OWNER_ALERT"
           /\ AlertAction(id, p).digest.eventType \in ThreatEventTypes
           /\ TicketAction(id, i).actionType = "TICKET_DRAFT" /\ TicketAction(id, i).channel = "TICKET"
           /\ TicketAction(id, i).idempotencyKey[2] = "TICKET_DRAFT"
           /\ TicketAction(id, i).idempotencyKey[3].actionItemId = i.id
           /\ EmailAction(id, m).actionType = "SUPPLIER_EMAIL_SEND" /\ EmailAction(id, m).channel = "EMAIL"
           /\ EmailAction(id, m).idempotencyKey[2] = "SUPPLIER_EMAIL_SEND"
           /\ EmailAction(id, m).idempotencyKey[3].supplierId = m.supplier
           /\ EmailAction(id, m).digest.supplierId = m.supplier
           /\ ~EmailAction(id, m).autoFireEligible
<1>1. /\ AuditAction(id, p).actionType = "AUDIT_LOG" /\ AuditAction(id, p).channel = "INTERNAL"
      /\ AuditAction(id, p).idempotencyKey[2] = "AUDIT_LOG"
  BY ClassesAre DEF AuditAction, AuditLog, FinalizeAction, Keyed
<1>2. /\ AlertAction(id, p).actionType = "ROLE_OWNER_ALERT" /\ AlertAction(id, p).channel = "SLACK"
      /\ AlertAction(id, p).idempotencyKey[2] = "ROLE_OWNER_ALERT"
      /\ AlertAction(id, p).digest.eventType = SafeEventType(p.card.eventType)
  BY ClassesAre DEF AlertAction, FinalizeAction, Keyed
<1>3. SafeEventType(p.card.eventType) \in ThreatEventTypes
  BY DEF SafeEventType, ThreatEventTypes
<1>4. /\ TicketAction(id, i).actionType = "TICKET_DRAFT" /\ TicketAction(id, i).channel = "TICKET"
      /\ TicketAction(id, i).idempotencyKey[2] = "TICKET_DRAFT"
      /\ TicketAction(id, i).idempotencyKey[3].actionItemId = i.id
  BY ClassesAre DEF TicketAction, FinalizeAction, Keyed
<1>5. /\ EmailAction(id, m).actionType = "SUPPLIER_EMAIL_SEND" /\ EmailAction(id, m).channel = "EMAIL"
      /\ EmailAction(id, m).idempotencyKey[2] = "SUPPLIER_EMAIL_SEND"
      /\ EmailAction(id, m).idempotencyKey[3].supplierId = m.supplier
      /\ EmailAction(id, m).digest.supplierId = m.supplier
      /\ ~EmailAction(id, m).autoFireEligible
  BY ClassesAre DEF EmailAction, FinalizeAction, Keyed
<1> QED
  BY <1>1, <1>2, <1>3, <1>4, <1>5

LEMMA GovernableAre ==
    ASSUME NEW id, NEW p
    PROVE  DeriveGovernableActions(id, p) =
              {AuditAction(id, p)}
              \cup IF p.recommendation = "NO_ACTION" THEN {}
                   ELSE {AlertAction(id, p)} \cup {TicketAction(id, i) : i \in p.items}
                        \cup {EmailAction(id, m) : m \in p.messages}
<1> DEFINE Alert == [actionType |-> "ROLE_OWNER_ALERT",
                     digest |-> [packetId |-> id, eventType |-> SafeEventType(p.card.eventType)]]
           Ticket(i) == [actionType |-> "TICKET_DRAFT", digest |-> [actionItemId |-> i.id]]
           Email(m) == [actionType |-> "SUPPLIER_EMAIL_SEND",
                        digest |-> [messageId |-> m.supplier, supplierId |-> m.supplier]]
           drafts == {AuditLog(id, p)}
                     \cup IF p.recommendation = "NO_ACTION" THEN {} ELSE OutboundDrafts(id, p)
           actions == DeriveGovernableActions(id, p)
<1>1. actions = {FinalizeAction(id, d) : d \in drafts}
  BY DEF DeriveGovernableActions
<1>2. OutboundDrafts(id, p) = {Alert} \cup {Ticket(i) : i \in p.items} \cup {Email(m) : m \in p.messages}
  BY DEF OutboundDrafts
<1>3. /\ AuditAction(id, p) = FinalizeAction(id, AuditLog(id, p))
      /\ AlertAction(id, p) = FinalizeAction(id, Alert)
      /\ \A i : TicketAction(id, i) = FinalizeAction(id, Ticket(i))
      /\ \A m : EmailAction(id, m) = FinalizeAction(id, Email(m))
  BY DEF AuditAction, AlertAction, TicketAction, EmailAction
<1> HIDE DEF Alert, Ticket, Email, actions
<1>4. CASE p.recommendation = "NO_ACTION"
  BY <1>1, <1>3, <1>4 DEF actions
<1>5. CASE p.recommendation # "NO_ACTION"
  <2>1. drafts = {AuditLog(id, p)} \cup {Alert} \cup {Ticket(i) : i \in p.items} \cup {Email(m) : m \in p.messages}
    BY <1>2, <1>5
  <2> HIDE DEF drafts
  <2>2. \A a \in actions :
            \/ a = AuditAction(id, p) \/ a = AlertAction(id, p)
            \/ \E i \in p.items : a = TicketAction(id, i)
            \/ \E m \in p.messages : a = EmailAction(id, m)
    BY <1>1, <1>3, <2>1
  <2>3. /\ AuditAction(id, p) \in actions /\ AlertAction(id, p) \in actions
        /\ \A i \in p.items : TicketAction(id, i) \in actions
        /\ \A m \in p.messages : EmailAction(id, m) \in actions
    <3>1. /\ AuditLog(id, p) \in drafts /\ Alert \in drafts
          /\ \A i \in p.items : Ticket(i) \in drafts
          /\ \A m \in p.messages : Email(m) \in drafts
      BY <2>1
    <3> QED
      BY <3>1, <1>1, <1>3
  <2> QED
    BY <1>5, <2>2, <2>3 DEF actions
<1> QED
  BY <1>4, <1>5

\* No two actions of a packet have one key.
LEMMA KeysCount ==
    ASSUME NEW id, NEW p, p.recommendation = "ACT",
           IsFiniteSet(p.items), IsFiniteSet(p.messages),
           \A i, j \in p.items : i.id = j.id => i = j,
           \A m, n \in p.messages : m.supplier = n.supplier => m = n
    PROVE  Cardinality({a.idempotencyKey : a \in DeriveGovernableActions(id, p)})
               = 2 + Cardinality(p.items) + Cardinality(p.messages)
<1> DEFINE audit == AuditAction(id, p).idempotencyKey
           alert == AlertAction(id, p).idempotencyKey
           ticket == [i \in p.items |-> TicketAction(id, i).idempotencyKey]
           email == [m \in p.messages |-> EmailAction(id, m).idempotencyKey]
           tickets == {ticket[i] : i \in p.items}
           emails == {email[m] : m \in p.messages}
           actions == DeriveGovernableActions(id, p)
           keys == {a.idempotencyKey : a \in actions}
<1>1. actions = {AuditAction(id, p)} \cup {AlertAction(id, p)} \cup {TicketAction(id, i) : i \in p.items}
                \cup {EmailAction(id, m) : m \in p.messages}
  <2>1. p.recommendation # "NO_ACTION"
    OBVIOUS
  <2> QED
    BY <2>1, GovernableAre
<1> HIDE DEF actions
<1>2. keys = {audit} \cup {alert} \cup tickets \cup emails
  <2>1. \A k \in keys : k \in {audit} \cup {alert} \cup tickets \cup emails
    BY <1>1
  <2>2. audit \in keys /\ alert \in keys
    BY <1>1
  <2>3. \A i \in p.items : ticket[i] \in keys
    BY <1>1
  <2>4. \A m \in p.messages : email[m] \in keys
    BY <1>1
  <2> HIDE DEF keys, audit, alert, ticket, email
  <2> QED
    BY <2>1, <2>2, <2>3, <2>4
<1>a. audit[2] = "AUDIT_LOG" /\ alert[2] = "ROLE_OWNER_ALERT"
  BY ActionsAre
<1>b. \A i \in p.items : ticket[i][2] = "TICKET_DRAFT" /\ ticket[i][3].actionItemId = i.id
  <2> TAKE i \in p.items
  <2>1. ticket[i] = TicketAction(id, i).idempotencyKey
    OBVIOUS
  <2> HIDE DEF ticket
  <2> QED
    BY <2>1, ActionsAre
<1>c. \A m \in p.messages : email[m][2] = "SUPPLIER_EMAIL_SEND" /\ email[m][3].supplierId = m.supplier
  <2> TAKE m \in p.messages
  <2>1. email[m] = EmailAction(id, m).idempotencyKey
    OBVIOUS
  <2> HIDE DEF email
  <2> QED
    BY <2>1, ActionsAre
<1>e. ticket \in [p.items -> tickets] /\ email \in [p.messages -> emails]
  OBVIOUS
<1> HIDE DEF keys, audit, alert, ticket, email
<1>4. ticket \in Bijection(p.items, tickets)
  <2>1. \A i, j \in p.items : ticket[i] = ticket[j] => i = j
    BY <1>b
  <2> QED
    BY <1>e, <2>1 DEF Bijection, Injection, Surjection, IsInjective
<1>5. email \in Bijection(p.messages, emails)
  <2>1. \A m, n \in p.messages : email[m] = email[n] => m = n
    BY <1>c
  <2> QED
    BY <1>e, <2>1 DEF Bijection, Injection, Surjection, IsInjective
<1>6. \A k \in tickets : k[2] = "TICKET_DRAFT"
  BY <1>b
<1>7. \A k \in emails : k[2] = "SUPPLIER_EMAIL_SEND"
  BY <1>c
<1> HIDE DEF tickets, emails
<1>8. IsFiniteSet(tickets) /\ Cardinality(tickets) = Cardinality(p.items)
  BY <1>4, FS_Bijection DEF ExistsBijection
<1>9. IsFiniteSet(emails) /\ Cardinality(emails) = Cardinality(p.messages)
  BY <1>5, FS_Bijection DEF ExistsBijection
<1>10. Cardinality(tickets) \in Nat /\ Cardinality(emails) \in Nat
  BY <1>8, <1>9, FS_CardinalityType
<1>11. tickets \cap emails = {}
  BY <1>6, <1>7
<1>12. /\ IsFiniteSet(tickets \cup emails)
       /\ Cardinality(tickets \cup emails) = Cardinality(tickets) + Cardinality(emails)
  <2>1. /\ IsFiniteSet(tickets \cup emails)
        /\ Cardinality(tickets \cup emails) = Cardinality(tickets) + Cardinality(emails)
                                              - Cardinality(tickets \cap emails)
    BY <1>8, <1>9, FS_Union
  <2>2. Cardinality(tickets \cap emails) = 0
    BY <1>11, FS_EmptySet
  <2> QED
    BY <2>1, <2>2, <1>10
<1>13. alert \notin tickets \cup emails /\ audit \notin tickets \cup emails /\ audit # alert
  BY <1>a, <1>6, <1>7
<1>14. /\ IsFiniteSet((tickets \cup emails) \cup {alert})
       /\ Cardinality((tickets \cup emails) \cup {alert}) = Cardinality(tickets \cup emails) + 1
  BY <1>12, <1>13, FS_AddElement
<1>15. audit \notin (tickets \cup emails) \cup {alert}
  BY <1>13
<1>16. Cardinality(((tickets \cup emails) \cup {alert}) \cup {audit})
           = Cardinality((tickets \cup emails) \cup {alert}) + 1
  BY <1>14, <1>15, FS_AddElement
<1>17. keys = ((tickets \cup emails) \cup {alert}) \cup {audit}
  BY <1>2
<1>18. Cardinality(keys) = 2 + Cardinality(p.items) + Cardinality(p.messages)
  BY <1>8, <1>9, <1>10, <1>12, <1>14, <1>16, <1>17
<1> QED
  BY <1>18, Zenon DEF keys, actions

\* A transport says it delivered only what its provider accepted, on a channel that has
\* one, and with nothing set, or half of a header, only logs.
LEMMA ReceiptsAreHonest ==
    ASSUME NEW channel, NEW env, NEW answer
    PROVE  LET receipt == Deliver(channel, env, answer)
           IN  /\ receipt.delivered =>
                     /\ answer.status = "ok" /\ (answer.ref \/ channel = "N8N")
                     /\ channel \notin {"INTERNAL", "TICKET"}
               /\ env = {} => receipt = NoopTransport
               /\ channel = "N8N" /\ Cardinality(env \cap HeaderPair) = 1 => receipt = NoopTransport
<1> DEFINE receipt == Deliver(channel, env, answer)
           wired == TransportRegistryFromEnv(env)
<1>1. receipt = NoopTransport \/ receipt = Throws
      \/ (channel \in wired /\ Accepts(channel, answer))
  BY DEF Deliver
<1>2. receipt.delivered => Accepts(channel, answer)
  <2>1. ~NoopTransport.delivered /\ ~Throws.delivered
    BY DEF NoopTransport, Throws
  <2> HIDE DEF receipt
  <2> QED
    BY <1>1, <2>1
<1>3. Accepts(channel, answer) =>
          /\ answer.status = "ok" /\ (answer.ref \/ channel = "N8N")
          /\ channel \notin {"INTERNAL", "TICKET"}
  BY DEF Accepts, SlackAccepts, EmailAccepts, N8nAccepts
<1>4. env = {} => wired = {}
  BY DEF TransportRegistryFromEnv
<1>5. channel \notin wired => receipt = NoopTransport
  BY DEF Deliver
<1>6. Cardinality(env \cap HeaderPair) = 1 => "N8N" \notin wired
  <2> SUFFICES ASSUME Cardinality(env \cap HeaderPair) = 1, "N8N" \in wired PROVE FALSE
    OBVIOUS
  <2>1. HeaderPair \cap env \in {{}, HeaderPair}
    BY DEF TransportRegistryFromEnv
  <2>2. HeaderPair \cap env = env \cap HeaderPair
    OBVIOUS
  <2>3. Cardinality({}) = 0
    BY FS_EmptySet
  <2>4. Cardinality(HeaderPair) = 2
    <3>1. IsFiniteSet({"N8N_ERP_WEBHOOK_HEADER_NAME"}) /\ Cardinality({"N8N_ERP_WEBHOOK_HEADER_NAME"}) = 1
      BY FS_Singleton
    <3>2. Cardinality({"N8N_ERP_WEBHOOK_HEADER_NAME"} \cup {"N8N_ERP_WEBHOOK_HEADER_VALUE"}) = 1 + 1
      <4>1. "N8N_ERP_WEBHOOK_HEADER_VALUE" \notin {"N8N_ERP_WEBHOOK_HEADER_NAME"}
        OBVIOUS
      <4> QED
        BY <3>1, <4>1, FS_AddElement
    <3>3. HeaderPair = {"N8N_ERP_WEBHOOK_HEADER_NAME"} \cup {"N8N_ERP_WEBHOOK_HEADER_VALUE"}
      BY DEF HeaderPair
    <3> QED
      BY <3>2, <3>3
  <2> HIDE DEF wired
  <2> QED
    BY <2>1, <2>2, <2>3, <2>4
<1> HIDE DEF wired, receipt
<1>7. env = {} => receipt = NoopTransport
  BY <1>4, <1>5
<1>8. channel = "N8N" /\ Cardinality(env \cap HeaderPair) = 1 => receipt = NoopTransport
  BY <1>5, <1>6
<1> QED
  BY <1>2, <1>3, <1>7, <1>8 DEF receipt

\* Of a packet there is one action for each thing to be done, with a key of its own;
\* outward ones go to the suppliers written to and none may fire by itself; a digest
\* holds no word of a model; and a receipt is what the provider said (ActionsAreGoverned).
THEOREM ActionsAreGovernedAlways == Spec => []ActionsAreGoverned
<1>1. PacketInv => ActionsAreGoverned
  <2> SUFFICES ASSUME PacketInv, Done PROVE ActionsAreGoverned
    BY DEF ActionsAreGoverned
  <2>1. Packed /\ FindingIs
    BY PackedKnown
  <2> DEFINE actions == DeriveGovernableActions(scenario, packet)
             keys == {a.idempotencyKey : a \in actions}
             outward == {a \in actions : a.channel \in {"EMAIL", "N8N"}}
             acts == packet.recommendation = "ACT"
             audit == AuditAction(scenario, packet)
             alert == AlertAction(scenario, packet)
  <2>2. CASE packet.recommendation = "NO_ACTION"
    <3>1. actions = {audit}
      BY <2>2, GovernableAre
    <3>2. keys = {audit.idempotencyKey}
      BY <3>1
    <3>3. Cardinality(keys) = 1
      BY <3>2, FS_Singleton
    <3>4. audit.channel = "INTERNAL" /\ audit.actionType = "AUDIT_LOG"
      BY ActionsAre
    <3> HIDE DEF actions, audit
    <3>5. outward = {}
      BY <3>1, <3>4
    <3>6. \A a \in actions : a.actionType # "ROLE_OWNER_ALERT"
      BY <3>1, <3>4
    <3>7. ~acts
      BY <2>2
    <3>8. {a.digest.supplierId : a \in outward} = {}
      BY <3>5
    <3> HIDE DEF keys, outward, acts
    <3> QED
      BY <3>3, <3>5, <3>6, <3>7, <3>8, ReceiptsAreHonest DEF ActionsAreGoverned, actions, keys, outward, acts
  <2>3. CASE packet.recommendation = "ACT" /\ Acted /\ packet.items = ActionItems(finding.exposures)
    <3>1. Discreet(packet.messages, packet.exposures)
      BY <2>1, <2>3, DraftsAreDiscreet DEF Packed, Acted
    <3>2. IsFiniteSet(packet.items) /\ \A i, j \in packet.items : i.id = j.id => i = j
      <4>1. CASE packet.items = {}
        BY <4>1, FS_EmptySet
      <4>2. CASE packet.items = {[id |-> id, title |-> Prose] : id \in {"AI-CONTINGENCY", "AI-REVIEW"}}
        <5>1. packet.items = {[id |-> "AI-CONTINGENCY", title |-> Prose]}
                             \cup {[id |-> "AI-REVIEW", title |-> Prose]}
          BY <4>2
        <5>2. /\ IsFiniteSet({[id |-> "AI-CONTINGENCY", title |-> Prose]})
              /\ IsFiniteSet({[id |-> "AI-REVIEW", title |-> Prose]})
          BY FS_Singleton
        <5>3. IsFiniteSet(packet.items)
          BY <5>1, <5>2, FS_Union
        <5>4. \A i, j \in packet.items : i.id = j.id => i = j
          BY <4>2
        <5> QED
          BY <5>3, <5>4
      <4> QED
        BY <2>3, <4>1, <4>2 DEF ActionItems
    <3>3. Cardinality(keys) = 2 + Cardinality(packet.items) + Cardinality(packet.messages)
      BY <2>3, <3>1, <3>2, KeysCount DEF Discreet
    <3>4. actions = {audit} \cup {alert} \cup {TicketAction(scenario, i) : i \in packet.items}
                    \cup {EmailAction(scenario, m) : m \in packet.messages}
      <4>1. packet.recommendation # "NO_ACTION"
        BY <2>3
      <4> QED
        BY <4>1, GovernableAre
    <3>5. /\ audit.channel = "INTERNAL" /\ audit.actionType = "AUDIT_LOG"
          /\ alert.channel = "SLACK" /\ alert.digest.eventType \in ThreatEventTypes
      BY ActionsAre
    <3>6. \A i : TicketAction(scenario, i).channel = "TICKET"
                 /\ TicketAction(scenario, i).actionType = "TICKET_DRAFT"
      BY ActionsAre
    <3>7. \A m : /\ EmailAction(scenario, m).channel = "EMAIL"
                 /\ EmailAction(scenario, m).actionType = "SUPPLIER_EMAIL_SEND"
                 /\ EmailAction(scenario, m).digest.supplierId = m.supplier
                 /\ ~EmailAction(scenario, m).autoFireEligible
      BY ActionsAre
    <3> HIDE DEF actions, audit, alert
    <3>8. \A a \in outward : \E m \in packet.messages : a = EmailAction(scenario, m)
      BY <3>4, <3>5, <3>6
    <3>9. \A m \in packet.messages : EmailAction(scenario, m) \in outward
      BY <3>4, <3>7
    <3>10. \A a \in actions : a.actionType = "ROLE_OWNER_ALERT" => a.digest.eventType \in ThreatEventTypes
      BY <3>4, <3>5, <3>6, <3>7
    <3> HIDE DEF outward
    <3>11. \A a \in outward : ~a.autoFireEligible
      BY <3>7, <3>8
    <3>12. {a.digest.supplierId : a \in outward} = Recipients(packet.messages)
      BY <3>7, <3>8, <3>9 DEF Recipients
    <3>13. {a.digest.supplierId : a \in outward} = TopExposed(packet.exposures)
      BY <3>1, <3>12 DEF Discreet
    <3>14. acts
      BY <2>3
    <3>a. Cardinality(packet.items) \in Nat /\ Cardinality(packet.messages) \in Nat
      BY <3>1, <3>2, FS_CardinalityType DEF Discreet
    <3>15. Cardinality(keys) = 1 + (1 + Cardinality(packet.items) + Cardinality(packet.messages))
      BY <3>3, <3>a
    <3> HIDE DEF keys, acts
    <3> QED
      BY <3>10, <3>11, <3>13, <3>14, <3>15, ReceiptsAreHonest
         DEF ActionsAreGoverned, actions, keys, outward, acts
  <2> QED
    BY <2>1, <2>2, <2>3 DEF Packed
<1> QED
  BY <1>1, PacketInvAlways, PTL

-----------------------------------------------------------------------------
(* The runway.                                                             *)

\* The days of a horizon after the stock is gone, counted one by one.
LEMMA UncoveredDays ==
    ASSUME NEW days \in Nat, NEW duration \in Nat, NEW buffer \in Nat
    PROVE  /\ ExposedDays(days, duration, buffer) \in Nat
           /\ Cardinality({d \in 1..days : d <= duration /\ d > buffer})
                  = ExposedDays(days, duration, buffer)
<1> DEFINE last == IF days <= duration THEN days ELSE duration
           lost == {d \in 1..days : d <= duration /\ d > buffer}
<1>1. Min({days, duration}) = last
  <2>1. days \in Int /\ duration \in Int
    OBVIOUS
  <2> QED
    BY <2>1, PairExtrema
<1>2. Max({0, last - buffer}) = IF 0 >= last - buffer THEN 0 ELSE last - buffer
  <2>1. 0 \in Int /\ last - buffer \in Int
    OBVIOUS
  <2> QED
    BY <2>1, PairExtrema
<1>3. ExposedDays(days, duration, buffer) = IF 0 >= last - buffer THEN 0 ELSE last - buffer
  BY <1>1, <1>2 DEF ExposedDays
<1>4. lost = (buffer + 1)..last
  OBVIOUS
<1>5. Cardinality((buffer + 1)..last) = IF buffer + 1 > last THEN 0 ELSE last - (buffer + 1) + 1
  <2>1. buffer + 1 \in Int /\ last \in Int
    OBVIOUS
  <2> QED
    BY <2>1, FS_Interval, Zenon
<1>6. last \in Nat
  OBVIOUS
<1> HIDE DEF last, lost
<1>7. Cardinality(lost) = IF 0 >= last - buffer THEN 0 ELSE last - buffer
  BY <1>4, <1>5, <1>6
<1>8. (IF 0 >= last - buffer THEN 0 ELSE last - buffer) \in Nat
  BY <1>6
<1> QED
  BY <1>3, <1>7, <1>8 DEF lost

\* A runway whose one stock lasts cover days loses the days past them.
Lasts(params, cover) ==
    /\ cover \in Nat /\ params.durationDays \in Nat /\ params.dailyRevenue \in Nat
    /\ DOMAIN params.inventory = {1}
    /\ CoverDays(params.inventory[1]) = cover
    /\ \A d \in Nat : d > cover <=>
          d * params.inventory[1].dailyUse > params.inventory[1].onHand
                                             - (params.inventory[1].onHand % params.inventory[1].dailyUse)
    /\ \E k \in Nat : params.horizonDays \in [1..k -> Nat]

LEMMA RunwaysLast ==
    /\ Lasts(Hormuz.simulation, 25) /\ Lasts(RedSea.simulation, 30) /\ Lasts(Hurricane.simulation, 10)
<1>1. Lasts(Runway(30, <<7, 30, 90>>, 10000, 1000, 40, 34), 25)
  <2> DEFINE params == Runway(30, <<7, 30, 90>>, 10000, 1000, 40, 34)
  <2>1. /\ params.durationDays = 30 /\ params.dailyRevenue = 10000
        /\ params.inventory = <<[onHand |-> 1000, dailyUse |-> 40]>>
        /\ params.horizonDays = <<7, 30, 90>>
    BY DEF Runway
  <2> HIDE DEF params
  <2>2. /\ DOMAIN params.inventory = {1} /\ params.inventory[1].onHand = 1000
        /\ params.inventory[1].dailyUse = 40
    BY <2>1
  <2>3. 1000 \div 40 = 25 /\ 1000 % 40 = 0
    OBVIOUS
  <2>4. \A d \in Nat : d > 25 <=> d * 40 > 1000 - 0
    OBVIOUS
  <2>5. params.horizonDays \in [1..3 -> Nat]
    BY <2>1
  <2>6. CoverDays(params.inventory[1]) = 25
    BY <2>2, <2>3 DEF CoverDays
  <2>7. \A d \in Nat : d > 25 <=>
            d * params.inventory[1].dailyUse > params.inventory[1].onHand
                                               - (params.inventory[1].onHand % params.inventory[1].dailyUse)
    BY <2>2, <2>3, <2>4
  <2>8. 25 \in Nat /\ params.durationDays \in Nat /\ params.dailyRevenue \in Nat
    BY <2>1
  <2>9. \E k \in Nat : params.horizonDays \in [1..k -> Nat]
    BY <2>5
  <2>10. Lasts(params, 25)
    BY <2>2, <2>6, <2>7, <2>8, <2>9 DEF Lasts
  <2> QED
    BY <2>10 DEF params
<1>2. Lasts(Runway(60, <<7, 30, 90>>, 8000, 900, 30, 42), 30)
  <2> DEFINE params == Runway(60, <<7, 30, 90>>, 8000, 900, 30, 42)
  <2>1. /\ params.durationDays = 60 /\ params.dailyRevenue = 8000
        /\ params.inventory = <<[onHand |-> 900, dailyUse |-> 30]>>
        /\ params.horizonDays = <<7, 30, 90>>
    BY DEF Runway
  <2> HIDE DEF params
  <2>2. /\ DOMAIN params.inventory = {1} /\ params.inventory[1].onHand = 900
        /\ params.inventory[1].dailyUse = 30
    BY <2>1
  <2>3. 900 \div 30 = 30 /\ 900 % 30 = 0
    OBVIOUS
  <2>4. \A d \in Nat : d > 30 <=> d * 30 > 900 - 0
    OBVIOUS
  <2>5. params.horizonDays \in [1..3 -> Nat]
    BY <2>1
  <2>6. CoverDays(params.inventory[1]) = 30
    BY <2>2, <2>3 DEF CoverDays
  <2>7. \A d \in Nat : d > 30 <=>
            d * params.inventory[1].dailyUse > params.inventory[1].onHand
                                               - (params.inventory[1].onHand % params.inventory[1].dailyUse)
    BY <2>2, <2>3, <2>4
  <2>8. 30 \in Nat /\ params.durationDays \in Nat /\ params.dailyRevenue \in Nat
    BY <2>1
  <2>9. \E k \in Nat : params.horizonDays \in [1..k -> Nat]
    BY <2>5
  <2>10. Lasts(params, 30)
    BY <2>2, <2>6, <2>7, <2>8, <2>9 DEF Lasts
  <2> QED
    BY <2>10 DEF params
<1>3. Lasts(Runway(14, <<7, 30>>, 25000, 300, 30, 46), 10)
  <2> DEFINE params == Runway(14, <<7, 30>>, 25000, 300, 30, 46)
  <2>1. /\ params.durationDays = 14 /\ params.dailyRevenue = 25000
        /\ params.inventory = <<[onHand |-> 300, dailyUse |-> 30]>>
        /\ params.horizonDays = <<7, 30>>
    BY DEF Runway
  <2> HIDE DEF params
  <2>2. /\ DOMAIN params.inventory = {1} /\ params.inventory[1].onHand = 300
        /\ params.inventory[1].dailyUse = 30
    BY <2>1
  <2>3. 300 \div 30 = 10 /\ 300 % 30 = 0
    OBVIOUS
  <2>4. \A d \in Nat : d > 10 <=> d * 30 > 300 - 0
    OBVIOUS
  <2>5. params.horizonDays \in [1..2 -> Nat]
    BY <2>1
  <2>6. CoverDays(params.inventory[1]) = 10
    BY <2>2, <2>3 DEF CoverDays
  <2>7. \A d \in Nat : d > 10 <=>
            d * params.inventory[1].dailyUse > params.inventory[1].onHand
                                               - (params.inventory[1].onHand % params.inventory[1].dailyUse)
    BY <2>2, <2>3, <2>4
  <2>8. 10 \in Nat /\ params.durationDays \in Nat /\ params.dailyRevenue \in Nat
    BY <2>1
  <2>9. \E k \in Nat : params.horizonDays \in [1..k -> Nat]
    BY <2>5
  <2>10. Lasts(params, 10)
    BY <2>2, <2>6, <2>7, <2>8, <2>9 DEF Lasts
  <2> QED
    BY <2>10 DEF params
<1>4. /\ Hormuz.simulation = Runway(30, <<7, 30, 90>>, 10000, 1000, 40, 34)
      /\ RedSea.simulation = Runway(60, <<7, 30, 90>>, 8000, 900, 30, 42)
      /\ Hurricane.simulation = Runway(14, <<7, 30>>, 25000, 300, 30, 46)
  <2> HIDE DEF Runway
  <2> QED
    BY DEF Hormuz, RedSea, Hurricane, Scenario
<1> QED
  BY <1>1, <1>2, <1>3, <1>4

\* Every horizon loses what its days without cover do.
LossesAre(params, n, horizons) ==
    \A i \in DOMAIN horizons :
        horizons[i].revenue = n * params.dailyRevenue * Cardinality(LostDays(params, horizons[i].days))

LEMMA RecomputeIs ==
    ASSUME NEW params, NEW cover, Lasts(params, cover), NEW n \in Nat
    PROVE  LET r == RecomputeSimulation(params, n)
           IN  /\ DOMAIN r.horizons = DOMAIN params.horizonDays
               /\ \E k \in Nat : DOMAIN r.horizons = 1..k
               /\ r.survivalDays = cover
               /\ r.runouts = [i \in DOMAIN params.inventory |-> CoverDays(params.inventory[i])]
               /\ \A i \in DOMAIN r.horizons :
                     /\ r.horizons[i].days = params.horizonDays[i]
                     /\ r.horizons[i].revenue \in Nat
               /\ LossesAre(params, n, r.horizons)
<1> DEFINE covers == {CoverDays(params.inventory[i]) : i \in DOMAIN params.inventory}
           buffer == IF covers = {} THEN 0 ELSE Min(covers)
           revenue(days) == n * params.dailyRevenue * ExposedDays(days, params.durationDays, buffer)
           r == RecomputeSimulation(params, n)
<1>1. covers = {cover} /\ cover \in Nat
  BY DEF Lasts
<1>2. Min({cover}) = cover
  BY <1>1 DEF Min
<1>3. buffer = cover /\ covers # {}
  BY <1>1, <1>2
<1> HIDE DEF covers, buffer
<1>4. /\ r.horizons = [i \in DOMAIN params.horizonDays |->
                          [days |-> params.horizonDays[i],
                           revenue |-> revenue(params.horizonDays[i]),
                           margin |-> Rounded(revenue(params.horizonDays[i]) * params.marginPct, 100)]]
      /\ r.runouts = [i \in DOMAIN params.inventory |-> CoverDays(params.inventory[i])]
      /\ r.survivalDays = IF covers = {} THEN None ELSE Min(covers)
  BY DEF RecomputeSimulation, covers, buffer
<1>5. r.survivalDays = cover
  BY <1>1, <1>2, <1>3, <1>4
<1> HIDE DEF r
<1>6. /\ DOMAIN r.horizons = DOMAIN params.horizonDays
      /\ \A i \in DOMAIN params.horizonDays : r.horizons[i].days = params.horizonDays[i]
      /\ \A i \in DOMAIN params.horizonDays : r.horizons[i].revenue = revenue(params.horizonDays[i])
  BY <1>4
<1>7. PICK k \in Nat : params.horizonDays \in [1..k -> Nat]
  BY DEF Lasts
<1>8. ASSUME NEW days \in Nat
      PROVE  /\ revenue(days) \in Nat
             /\ revenue(days) = n * params.dailyRevenue * Cardinality(LostDays(params, days))
  <2>1. params.durationDays \in Nat /\ params.dailyRevenue \in Nat
    BY DEF Lasts
  <2>2. LostDays(params, days) = {d \in 1..days : d <= params.durationDays /\ d > cover}
    <3>1. DOMAIN params.inventory = {1}
      BY DEF Lasts
    <3>2. \A d \in 1..days :
             (\E i \in DOMAIN params.inventory :
                  d * params.inventory[i].dailyUse > params.inventory[i].onHand
                                                     - (params.inventory[i].onHand % params.inventory[i].dailyUse))
             <=> d > cover
      BY <3>1 DEF Lasts
    <3> QED
      BY <3>2 DEF LostDays
  <2>3. /\ Cardinality(LostDays(params, days)) = ExposedDays(days, params.durationDays, cover)
        /\ ExposedDays(days, params.durationDays, cover) \in Nat
    BY <2>1, <2>2, <1>1, UncoveredDays
  <2> QED
    BY <1>3, <2>1, <2>3
<1>9. \A i \in DOMAIN params.horizonDays : params.horizonDays[i] \in Nat
  BY <1>7
<1> HIDE DEF revenue
<1>10. \A i \in DOMAIN r.horizons :
          /\ r.horizons[i].days = params.horizonDays[i]
          /\ r.horizons[i].revenue \in Nat
          /\ r.horizons[i].revenue =
                 n * params.dailyRevenue * Cardinality(LostDays(params, r.horizons[i].days))
  <2> TAKE i \in DOMAIN r.horizons
  <2>1. /\ r.horizons[i].days = params.horizonDays[i] /\ params.horizonDays[i] \in Nat
        /\ r.horizons[i].revenue = revenue(params.horizonDays[i])
    BY <1>6, <1>9
  <2> QED
    BY <2>1, <1>8
<1>11. \E m \in Nat : DOMAIN r.horizons = 1..m
  BY <1>6, <1>7
<1>12. LossesAre(params, n, r.horizons)
  BY <1>10, Zenon DEF LossesAre
<1> QED
  BY <1>4, <1>5, <1>6, <1>10, <1>11, <1>12, Zenon DEF r

LEMMA ScenarioRunway ==
    ASSUME NEW name \in ScenarioIds
    PROVE  LET simulation == ActionOpsScenarios[name].simulation
           IN  \/ simulation = None
               \/ /\ simulation \in {Hormuz.simulation, RedSea.simulation, Hurricane.simulation}
                  /\ \E cover : Lasts(simulation, cover)
<1>1. ActionOpsScenarios[name] \in
          {Hormuz, Tariff, RedSea, Hurricane, Bankruptcy, ZeroExposure, OffTaxonomy, ThinEvidence}
  BY PacketAssumption DEF ActionOpsScenarios
<1>2. /\ Tariff.simulation = None /\ Bankruptcy.simulation = None /\ ZeroExposure.simulation = None
      /\ OffTaxonomy.simulation = None /\ ThinEvidence.simulation = None
  BY DEF Tariff, Bankruptcy, ZeroExposure, OffTaxonomy, ThinEvidence, Scenario
<1>3. /\ \E cover : Lasts(Hormuz.simulation, cover)
      /\ \E cover : Lasts(RedSea.simulation, cover)
      /\ \E cover : Lasts(Hurricane.simulation, cover)
  BY RunwaysLast
<1> QED
  BY <1>1, <1>2, <1>3

\* There is no runway, or it is the scenario's for as many suppliers as are exposed.
LEMMA SimulationIs ==
    ASSUME FindingIs
    PROVE  /\ Len(finding.exposures) \in Nat
           /\ Sc.simulation = None => finding.simulation = None
           /\ Sc.simulation # None =>
                 /\ Sc.simulation \in {Hormuz.simulation, RedSea.simulation, Hurricane.simulation}
                 /\ \E cover : Lasts(Sc.simulation, cover)
                 /\ finding.simulation = RecomputeSimulation(Sc.simulation, Len(finding.exposures))
<1>1. Len(finding.exposures) \in Nat
  <2>1. Listed(finding.exposures)
    BY FindingListed
  <2>2. PICK n \in Nat : /\ DOMAIN finding.exposures = 1..n
                         /\ finding.exposures = [i \in 1..n |-> finding.exposures[i]]
                         /\ \A i, j \in 1..n : finding.exposures[i].supplier = finding.exposures[j].supplier => i = j
    BY <2>1 DEF Listed
  <2> QED
    BY <2>2, TopExposedIs
<1>2. \/ Sc.simulation = None
      \/ /\ Sc.simulation \in {Hormuz.simulation, RedSea.simulation, Hurricane.simulation}
         /\ \E cover : Lasts(Sc.simulation, cover)
  BY ScenarioRunway DEF FindingIs, Sc
<1>3. finding.simulation = IF Sc.simulation = None THEN None
                           ELSE RecomputeSimulation(Sc.simulation, Len(finding.exposures))
  BY DEF FindingIs, RunSimulator
<1> QED
  BY <1>1, <1>2, <1>3

-----------------------------------------------------------------------------
(* The recovery options.                                                   *)

LEMMA RoundedIs ==
    ASSUME NEW n \in Int, NEW d \in Nat, d > 0
    PROVE  Rounded(n, d) \in Int
<1>1. 2 * n + d \in Int /\ 2 * d \in Int /\ 2 * d > 0
  OBVIOUS
<1>2. \A x \in Int, y \in Int : y > 0 => x \div y \in Int
  OBVIOUS
<1> QED
  BY <1>1, <1>2 DEF Rounded

LEMMA ScoreIs ==
    ASSUME NEW risk \in Int, NEW speed \in Int, NEW reversibility \in DOMAIN ReversibilityBonus,
           NEW cost \in Int, NEW peak \in Int
    PROVE  ScoreOption(risk, speed, reversibility, cost, peak) \in 0..100
<1> DEFINE weight == Rounded(20 * cost, Max({peak, 1}))
           penalty == Min({20, weight})
           haste == Min({speed, 20})
           bonus == ReversibilityBonus[reversibility]
           sum == 6 * risk + 10 * haste + 10 * bonus - 10 * penalty
<1>1. Max({peak, 1}) \in Nat /\ Max({peak, 1}) > 0
  BY PairExtrema
<1>2. weight \in Int
  <2>1. 20 * cost \in Int
    OBVIOUS
  <2> QED
    BY <1>1, <2>1, RoundedIs
<1> HIDE DEF weight
<1>3. penalty \in Int /\ haste \in Int
  <2>1. 20 \in Int
    OBVIOUS
  <2>2. penalty = IF 20 <= weight THEN 20 ELSE weight
    BY <1>2, <2>1, PairExtrema
  <2>3. haste = IF speed <= 20 THEN speed ELSE 20
    BY <2>1, PairExtrema
  <2>4. penalty \in Int
    BY <1>2, <2>2
  <2> QED
    BY <2>3, <2>4
<1>4. bonus \in Int
  BY DEF ReversibilityBonus
<1> HIDE DEF penalty, haste, bonus
<1>5. sum \in Int
  BY <1>3, <1>4
<1> HIDE DEF sum
<1> DEFINE score == Rounded(sum, 10)
<1>6. score \in Int
  BY <1>5, RoundedIs
<1> HIDE DEF score
<1>7. Clamp(score, 0, 100) \in 0..100
  <2>1. 0 \in Int /\ 100 \in Int /\ 0 <= 100
    OBVIOUS
  <2> QED
    BY <1>6, <2>1, ClampIs
<1> QED
  BY <1>7 DEF ScoreOption, score, sum, haste, bonus, penalty, weight

LEMMA OptionIs ==
    ASSUME NEW id, NEW type, NEW costPct \in Int, NEW base \in Int, NEW peak \in Int,
           NEW speedTenths \in Int, NEW days \in Int, NEW risk \in Int,
           NEW reversibility \in DOMAIN ReversibilityBonus, NEW lanes, NEW approval
    PROVE  LET o == Option(id, type, costPct, base, peak, speedTenths, days, risk, reversibility,
                           lanes, approval)
           IN  o.id = id /\ o.lanes = lanes /\ o.score \in 0..100
<1> DEFINE cost == Rounded(base * costPct, 100)
           pace == Rounded(days * speedTenths, 10)
           speed == Max({1, pace})
           o == Option(id, type, costPct, base, peak, speedTenths, days, risk, reversibility, lanes, approval)
<1>1. cost \in Int /\ pace \in Int
  <2>1. base * costPct \in Int /\ days * speedTenths \in Int
    OBVIOUS
  <2> QED
    BY <2>1, RoundedIs
<1> HIDE DEF cost, pace
<1>2. speed \in Int
  BY <1>1, PairExtrema
<1> HIDE DEF speed
<1>3. o.id = id /\ o.lanes = lanes /\ o.score = ScoreOption(risk, speed, reversibility, cost, peak)
  BY DEF Option, speed, cost, pace
<1> HIDE DEF o
<1>4. o.score \in 0..100
  BY <1>1, <1>2, <1>3, ScoreIs, SMTT(30)
<1> QED
  BY <1>3, <1>4 DEF o

LEMMA FirstThreeIs ==
    ASSUME NEW e, NEW n \in Nat, DOMAIN e = 1..n, NEW places \in SUBSET (1..n)
    PROVE  /\ FirstThree(e, places) \subseteq Ids(e)
           /\ places # {} => FirstThree(e, places) # {}
<1>1. FirstThree(e, places) \subseteq Ids(e)
  BY DEF FirstThree, Ids
<1>2. ASSUME places # {} PROVE FirstThree(e, places) # {}
  <2>1. places \in SUBSET Nat
    OBVIOUS
  <2>2. PICK x \in places : \A y \in places : x <= y
    BY <1>2, <2>1, SmallestNumber
  <2>3. {j \in places : j < x} = {}
    <3>1. \A y \in places : ~(y < x)
      BY <2>1, <2>2
    <3> QED
      BY <3>1, Zenon
  <2>4. Cardinality({}) < 3
    BY FS_EmptySet
  <2>5. x \in {i \in places : Cardinality({j \in places : j < i}) < 3}
    <3>1. Cardinality({j \in places : j < x}) < 3
      BY <2>3, <2>4, Zenon
    <3> QED
      BY <3>1, Zenon
  <2> QED
    BY <2>5 DEF FirstThree
<1> QED
  BY <1>1, <1>2

LEMMA ImageIsFinite ==
    ASSUME NEW f, NEW k \in Nat, DOMAIN f = 1..k, f = [i \in 1..k |-> f[i]]
    PROVE  IsFiniteSet({f[i] : i \in 1..k})
<1> DEFINE T == {f[i] : i \in 1..k}
<1>1. f \in Surjection(1..k, T)
  BY DEF Surjection
<1> HIDE DEF T
<1>2. IsFiniteSet(1..k)
  BY UpTo
<1>3. IsFiniteSet(T)
  BY <1>1, <1>2, FS_Surjection
<1> QED
  BY <1>3 DEF T

LEMMA MaxWithZero ==
    ASSUME NEW S \in SUBSET Int, IsFiniteSet(S)
    PROVE  Max(S \cup {0}) \in Int
<1>1. IsFiniteSet(S \cup {0}) /\ S \cup {0} \in SUBSET Int /\ S \cup {0} # {}
  BY FS_AddElement
<1> QED
  BY <1>1, MaxIs

LEMMA NotEmpty ==
    ASSUME NEW e, NEW n \in Nat, e = [i \in 1..n |-> e[i]], e # <<>>
    PROVE  1..n # {}
<1> SUFFICES ASSUME 1..n = {} PROVE FALSE
  OBVIOUS
<1>1. n = 0
  BY UpTo, FS_EmptySet
<1>2. e = [i \in 1..0 |-> e[i]]
  BY <1>1
<1>3. [i \in 1..0 |-> e[i]] = <<>>
  OBVIOUS
<1> QED
  BY <1>2, <1>3

\* The options of a list of exposures: each scored, for some of the exposed, best first.
OptionsFor(o, e) ==
    \A i \in DOMAIN o :
        /\ o[i].score \in 0..100
        /\ o[i].lanes # {} /\ o[i].lanes \subseteq Ids(e)
        /\ \A j \in DOMAIN o : i < j => o[i].score >= o[j].score

LEMMA OptionsAre ==
    ASSUME NEW e, Listed(e), \A i \in DOMAIN e : e[i].recoveryDays \in Int,
           NEW simulation,
           simulation # None =>
                /\ \E k \in Nat : DOMAIN simulation.horizons = 1..k
                /\ \A i \in DOMAIN simulation.horizons : simulation.horizons[i].revenue \in Int
                /\ simulation.survivalDays \in Int
    PROVE  OptionsFor(BuildRecoveryOptions(e, simulation), e)
<1> DEFINE revenues == IF simulation = None THEN {}
                       ELSE {simulation.horizons[i].revenue : i \in DOMAIN simulation.horizons}
           peak == Max(revenues \cup {0})
           base == IF peak > 0 THEN peak ELSE 50000
           worst == Max({e[i].recoveryDays : i \in DOMAIN e} \cup {0})
           single == {i \in DOMAIN e : e[i].singleSource}
           covered == DOMAIN e \ single
           top == FirstThree(e, DOMAIN e)
           buffer == IF simulation = None \/ simulation.survivalDays = None THEN 0
                     ELSE simulation.survivalDays
           expedite == Option(2, "EXPEDITE", 15, base, peak, 4, worst, 50, "HIGH", top, TRUE)
           reallocate == Option(3, "REALLOCATE", 3, base, peak, 3, buffer, 35, "HIGH", top, FALSE)
           late == FirstThree(e, covered)
           sole == FirstThree(e, single)
           substitute == Option(4, "SUBSTITUTE", 10, base, peak, 5, worst, 45, "MEDIUM", late, TRUE)
           escalate == Option(1, "SUPPLIER_ESCALATION", 5, base, peak, 2, worst, 30, "LOW", sole, TRUE)
           options == {expedite} \cup (IF simulation = None THEN {} ELSE {reallocate})
                      \cup (IF covered = {} THEN {} ELSE {substitute})
                      \cup (IF single = {} THEN {} ELSE {escalate})
           score == [o \in options |-> o.score]
           key == [o \in options |-> o.id]
<1>a. BuildRecoveryOptions(e, simulation) = IF e = <<>> THEN <<>> ELSE Ranked(options, score, key)
  BY DEF BuildRecoveryOptions
<1>b. CASE e = <<>>
  <2>1. DOMAIN <<>> = {}
    OBVIOUS
  <2> QED
    BY <1>a, <1>b, <2>1 DEF OptionsFor
<1>c. CASE e # <<>>
  <2>1. PICK n \in Nat : DOMAIN e = 1..n /\ e = [i \in 1..n |-> e[i]]
    BY DEF Listed
  <2>2. DOMAIN e # {}
    BY <1>c, <2>1, NotEmpty
  <2>3. peak \in Int
    <3>1. CASE simulation = None
      <4>1. revenues \in SUBSET Int /\ IsFiniteSet(revenues)
        BY <3>1, FS_EmptySet
      <4> QED
        BY <4>1, MaxWithZero
    <3>2. CASE simulation # None
      <4>1. PICK k \in Nat : DOMAIN simulation.horizons = 1..k
        BY <3>2
      <4> DEFINE f == [i \in 1..k |-> simulation.horizons[i].revenue]
      <4>2. DOMAIN f = 1..k /\ f = [i \in 1..k |-> f[i]]
        OBVIOUS
      <4>3. revenues = {f[i] : i \in 1..k}
        BY <3>2, <4>1
      <4>4. revenues \in SUBSET Int
        BY <3>2
      <4> HIDE DEF f, revenues
      <4>5. IsFiniteSet(revenues)
        BY <4>2, <4>3, ImageIsFinite
      <4> QED
        BY <4>4, <4>5, MaxWithZero
    <3> QED
      BY <3>1, <3>2
  <2>4. worst \in Int
    <3> DEFINE f == [i \in 1..n |-> e[i].recoveryDays]
               W == {e[i].recoveryDays : i \in DOMAIN e}
    <3>1. DOMAIN f = 1..n /\ f = [i \in 1..n |-> f[i]]
      OBVIOUS
    <3>2. W = {f[i] : i \in 1..n} /\ W \in SUBSET Int
      BY <2>1
    <3> HIDE DEF f, W
    <3>3. IsFiniteSet(W)
      BY <3>1, <3>2, ImageIsFinite
    <3>4. Max(W \cup {0}) \in Int
      BY <3>2, <3>3, MaxWithZero
    <3> QED
      BY <3>4 DEF W
  <2> HIDE DEF peak, worst
  <2>5. base \in Int /\ buffer \in Int
    BY <2>3
  <2> DEFINE Good(o, id, lanes) == o.id = id /\ o.lanes = lanes /\ o.score \in 0..100
  <2>6. /\ "HIGH" \in DOMAIN ReversibilityBonus /\ "MEDIUM" \in DOMAIN ReversibilityBonus
        /\ "LOW" \in DOMAIN ReversibilityBonus
    BY DEF ReversibilityBonus
  <2>11. /\ top \subseteq Ids(e) /\ top # {}
         /\ late \subseteq Ids(e) /\ (covered # {} => late # {})
         /\ sole \subseteq Ids(e) /\ (single # {} => sole # {})
    <3>1. 1..n \in SUBSET (1..n) /\ covered \in SUBSET (1..n) /\ single \in SUBSET (1..n)
      BY <2>1
    <3> QED
      BY <2>1, <2>2, <3>1, FirstThreeIs
  <2> HIDE DEF base, buffer, top, single, covered, late, sole
  <2>7. Good(expedite, 2, top)
    <3> DEFINE type == "EXPEDITE"
               eased == "HIGH"
               approval == TRUE
               lanes == top
    <3>1. eased \in DOMAIN ReversibilityBonus
      BY <2>6
    <3> HIDE DEF lanes, type, eased, approval
    <3>2. Good(Option(2, type, 15, base, peak, 4, worst, 50, eased, lanes, approval), 2, lanes)
      BY <2>3, <2>4, <2>5, <3>1, OptionIs, SMTT(40)
    <3> QED
      BY <3>2 DEF lanes, type, eased, approval
  <2>8. Good(reallocate, 3, top)
    <3> DEFINE type == "REALLOCATE"
               eased == "HIGH"
               approval == FALSE
               lanes == top
    <3>1. eased \in DOMAIN ReversibilityBonus
      BY <2>6
    <3> HIDE DEF lanes, type, eased, approval
    <3>2. Good(Option(3, type, 3, base, peak, 3, buffer, 35, eased, lanes, approval), 3, lanes)
      BY <2>3, <2>4, <2>5, <3>1, OptionIs, SMTT(40)
    <3> QED
      BY <3>2 DEF lanes, type, eased, approval
  <2>9. Good(substitute, 4, late)
    <3> DEFINE type == "SUBSTITUTE"
               eased == "MEDIUM"
               approval == TRUE
               lanes == late
    <3>1. eased \in DOMAIN ReversibilityBonus
      BY <2>6
    <3> HIDE DEF lanes, type, eased, approval
    <3>2. Good(Option(4, type, 10, base, peak, 5, worst, 45, eased, lanes, approval), 4, lanes)
      BY <2>3, <2>4, <2>5, <3>1, OptionIs, SMTT(40)
    <3> QED
      BY <3>2 DEF lanes, type, eased, approval
  <2>10. Good(escalate, 1, sole)
    <3> DEFINE type == "SUPPLIER_ESCALATION"
               eased == "LOW"
               approval == TRUE
               lanes == sole
    <3>1. eased \in DOMAIN ReversibilityBonus
      BY <2>6
    <3> HIDE DEF lanes, type, eased, approval
    <3>2. Good(Option(1, type, 5, base, peak, 2, worst, 30, eased, lanes, approval), 1, lanes)
      BY <2>3, <2>4, <2>5, <3>1, OptionIs, SMTT(40)
    <3> QED
      BY <3>2 DEF lanes, type, eased, approval
  <2> HIDE DEF expedite, reallocate, substitute, escalate
  <2>12. \A o \in options :
            /\ o.id \in Int /\ o.score \in 0..100
            /\ o.lanes # {} /\ o.lanes \subseteq Ids(e)
    <3> DEFINE Fit(o) == /\ o.id \in Int /\ o.score \in 0..100
                         /\ o.lanes # {} /\ o.lanes \subseteq Ids(e)
    <3>1. Fit(expedite) /\ Fit(reallocate)
      BY <2>7, <2>8, <2>11
    <3>2. covered # {} => Fit(substitute)
      BY <2>9, <2>11
    <3>3. single # {} => Fit(escalate)
      BY <2>10, <2>11
    <3> HIDE DEF Fit
    <3>4. \A o \in options : Fit(o)
      BY <3>1, <3>2, <3>3
    <3> QED
      BY <3>4 DEF Fit
  <2>13. \A a, b \in options : a.id = b.id => a = b
    BY <2>7, <2>8, <2>9, <2>10
  <2>14. IsFiniteSet(options)
    <3>1. /\ IsFiniteSet({expedite}) /\ IsFiniteSet({reallocate})
          /\ IsFiniteSet({substitute}) /\ IsFiniteSet({escalate}) /\ IsFiniteSet({})
      BY FS_Singleton, FS_EmptySet
    <3> QED
      BY <3>1, FS_Union
  <2> HIDE DEF options
  <2>15. score \in [options -> Int] /\ key \in [options -> Int]
    <3>1. \A o \in options : o.score \in Int
      <4>1. \A k \in 0..100 : k \in Int
        OBVIOUS
      <4> QED
        BY <2>12, <4>1, Zenon
    <3>2. \A o \in options : o.id \in Int
      BY <2>12, Zenon
    <3>3. score \in [options -> Int]
      BY <3>1
    <3>4. key \in [options -> Int]
      BY <3>2
    <3> QED
      BY <3>3, <3>4, Zenon
  <2>16. \A a, b \in options : key[a] = key[b] => a = b
    BY <2>13
  <2>17. \A o \in options : score[o] = o.score
    OBVIOUS
  <2> HIDE DEF score, key, Good
  <2> DEFINE r == Ranked(options, score, key)
  <2>18. /\ r \in Bijection(1..Cardinality(options), options)
         /\ \A i, j \in 1..Cardinality(options) : i < j => score[r[i]] >= score[r[j]]
    BY <2>14, <2>15, <2>16, RankedIs
  <2> HIDE DEF r
  <2>19. DOMAIN r = 1..Cardinality(options) /\ \A i \in DOMAIN r : r[i] \in options
    BY <2>18 DEF Bijection, Injection, IsInjective, Surjection
  <2>20. OptionsFor(r, e)
    <3>1. \A i, j \in DOMAIN r : i < j => r[i].score >= r[j].score
      BY <2>17, <2>18, <2>19
    <3> QED
      BY <2>12, <2>19, <3>1 DEF OptionsFor
  <2> QED
    BY <1>a, <1>c, <2>20 DEF r
<1> QED
  BY <1>b, <1>c

\* What Atlas exposes is where the chokepoint it was handed is felt.
LEMMA AtlasScope ==
    ASSUME NEW sc, NEW card, card.chokepoint # None,
           NEW i \in DOMAIN RunAtlas(sc, card, Suppliers).exposures
    PROVE  /\ card.chokepoint \in DOMAIN AffectedCountries
           /\ RunAtlas(sc, card, Suppliers).exposures[i].country \in AffectedCountries[card.chokepoint]
<1> DEFINE matched == MatchSuppliers(Suppliers, sc.match)
           atlas == RunAtlas(sc, card, Suppliers)
           to == ExposuresTo(sc, card, matched)
           scope == Scope(card)
<1>1. \/ \E gap, status : atlas = NoExposure(gap, status)
      \/ /\ atlas = to
         /\ ~(matched # {} /\ scope.claimed /\ ~scope.known)
         /\ ~(scope.known /\ \E s \in matched : s.country \notin scope.countries)
  BY Zenon DEF RunAtlas
<1> HIDE DEF matched, scope
<1>2. ASSUME NEW gap, NEW status, atlas = NoExposure(gap, status) PROVE FALSE
  <2>1. atlas.exposures = <<>>
    BY <1>2 DEF NoExposure
  <2> QED
    BY <2>1
<1>3. PICK s \in matched : atlas.exposures[i] = ExposureOf(sc, card, s)
  BY AtlasIs, ZenonT(60) DEF matched
<1> HIDE DEF atlas
<1>4. /\ scope.claimed
      /\ scope.known =>
            card.chokepoint \in DOMAIN AffectedCountries /\ scope.countries = AffectedCountries[card.chokepoint]
  <2>1. \/ /\ card.chokepoint \in DOMAIN AffectedCountries
           /\ scope = [claimed |-> TRUE, known |-> TRUE, countries |-> AffectedCountries[card.chokepoint]]
        \/ scope = [claimed |-> TRUE, known |-> FALSE, countries |-> {}]
    BY Zenon DEF scope, Scope
  <2> QED
    BY <2>1
<1>5. scope.known /\ s.country \in scope.countries
  BY <1>1, <1>2, <1>3, <1>4
<1>6. atlas.exposures[i].country = s.country
  BY <1>3 DEF ExposureOf
<1> QED
  BY <1>4, <1>5, <1>6 DEF atlas

LEMMA ScopeIsExact ==
    ASSUME FindingIs, NEW claimed
    PROVE  LET atlas == RunAtlas(Sc, [finding.card EXCEPT !.chokepoint = claimed], Suppliers)
           IN  \A i \in DOMAIN atlas.exposures :
                  /\ claimed # None => claimed \in DOMAIN AffectedCountries
                        /\ atlas.exposures[i].country \in AffectedCountries[claimed]
                  /\ \A j \in DOMAIN atlas.exposures :
                        i < j => atlas.exposures[i].score >= atlas.exposures[j].score
<1> DEFINE card == [finding.card EXCEPT !.chokepoint = claimed]
<1>1. card.chokepoint = claimed
  BY DEF FindingIs, CardIs
<1> HIDE DEF card
<1>2. ASSUME NEW i \in DOMAIN RunAtlas(Sc, card, Suppliers).exposures, claimed # None
      PROVE  /\ claimed \in DOMAIN AffectedCountries
             /\ RunAtlas(Sc, card, Suppliers).exposures[i].country \in AffectedCountries[claimed]
  BY <1>1, <1>2, AtlasScope
<1>3. \A i, j \in DOMAIN RunAtlas(Sc, card, Suppliers).exposures :
          i < j => RunAtlas(Sc, card, Suppliers).exposures[i].score
                     >= RunAtlas(Sc, card, Suppliers).exposures[j].score
  BY AtlasIs
<1> QED
  BY <1>2, <1>3 DEF card

LEMMA LossIsExact ==
    ASSUME FindingIs, Sc.simulation # None, NEW h \in Range(finding.simulation.horizons)
    PROVE  h.revenue = Len(finding.exposures) * Sc.simulation.dailyRevenue
                         * Cardinality(LostDays(Sc.simulation, h.days))
<1> DEFINE n == Len(finding.exposures)
           params == Sc.simulation
           r == RecomputeSimulation(params, n)
<1>1. PICK cover : Lasts(params, cover)
  BY SimulationIs
<1>2. n \in Nat /\ finding.simulation = r
  BY SimulationIs
<1> HIDE DEF n, params
<1>3. LossesAre(params, n, finding.simulation.horizons)
  <2>1. LossesAre(params, n, r.horizons)
    BY <1>1, <1>2, RecomputeIs, Zenon
  <2> QED
    BY <1>2, <2>1
<1> HIDE DEF r
<1>4. PICK i \in DOMAIN finding.simulation.horizons : h = finding.simulation.horizons[i]
  BY DEF Range
<1> QED
  BY <1>3, <1>4, Zenon DEF LossesAre, n, params

LEMMA OptionsAreExact ==
    ASSUME FindingIs
    PROVE  OptionsFor(BuildRecoveryOptions(finding.exposures, finding.simulation), finding.exposures)
<1> DEFINE e == finding.exposures
           simulation == finding.simulation
<1>1. Listed(e)
  BY FindingListed
<1>2. \A i \in DOMAIN e : e[i].recoveryDays \in Int
  <2>1. \A i \in DOMAIN e : \E s \in Suppliers : e[i] = ExposureOf(Sc, finding.card, s)
    <3> DEFINE matched == MatchSuppliers(Suppliers, Sc.match)
               found == RunAtlas(Sc, finding.card, Suppliers).exposures
    <3>1. /\ matched \in SUBSET Suppliers
          /\ \A i \in DOMAIN found : \E s \in matched : found[i] = ExposureOf(Sc, finding.card, s)
      BY AtlasIs, Zenon
    <3>2. e = found
      BY DEF FindingIs
    <3> HIDE DEF matched, e, found
    <3> QED
      BY <3>1, <3>2
  <2>2. \A s \in Suppliers : ExposureOf(Sc, finding.card, s).recoveryDays \in Int
    <3>1. \A s \in Suppliers : ExposureOf(Sc, finding.card, s).recoveryDays \in Nat
      BY ExposureFigures
    <3> QED
      BY <3>1
  <2> QED
    BY <2>1, <2>2
<1>3. ASSUME simulation # None
      PROVE  /\ \E k \in Nat : DOMAIN simulation.horizons = 1..k
             /\ \A i \in DOMAIN simulation.horizons : simulation.horizons[i].revenue \in Int
             /\ simulation.survivalDays \in Int
  <2>1. Sc.simulation # None /\ simulation = RecomputeSimulation(Sc.simulation, Len(e)) /\ Len(e) \in Nat
    BY <1>3, SimulationIs
  <2>2. PICK cover : Lasts(Sc.simulation, cover)
    BY <2>1, SimulationIs
  <2>3. /\ \E k \in Nat : DOMAIN simulation.horizons = 1..k
        /\ simulation.survivalDays = cover
        /\ \A i \in DOMAIN simulation.horizons : simulation.horizons[i].revenue \in Nat
    <3> DEFINE n == Len(e)
               params == Sc.simulation
    <3>1. n \in Nat /\ Lasts(params, cover) /\ simulation = RecomputeSimulation(params, n)
      BY <2>1, <2>2
    <3> HIDE DEF e, simulation, n, params
    <3>2. LET r == RecomputeSimulation(params, n)
          IN  /\ \E k \in Nat : DOMAIN r.horizons = 1..k
              /\ r.survivalDays = cover
              /\ \A i \in DOMAIN r.horizons : r.horizons[i].revenue \in Nat
      BY <3>1, RecomputeIs, Zenon
    <3> QED
      BY <3>1, <3>2, Zenon
  <2>4. cover \in Int
    BY <2>2 DEF Lasts
  <2> HIDE DEF simulation
  <2>5. \A i \in DOMAIN simulation.horizons : simulation.horizons[i].revenue \in Int
    BY <2>3
  <2> QED
    BY <2>3, <2>4, <2>5
<1> HIDE DEF e, simulation
<1>4. OptionsFor(BuildRecoveryOptions(e, simulation), e)
  BY <1>1, <1>2, <1>3, OptionsAre
<1> QED
  BY <1>4 DEF e, simulation

\* Whatever chokepoint is claimed, nobody outside its reach is exposed and the worst
\* come first; the revenue of a horizon is that of the days left uncovered; and the
\* options are scored, ranked and for exposed suppliers only (FindingIsExact).
THEOREM FindingIsExactAlways == Spec => []FindingIsExact
<1>1. PacketInv => FindingIsExact
  <2> SUFFICES ASSUME PacketInv PROVE FindingIsExact
    OBVIOUS
  <2> DEFINE Scoped(card) ==
                \A claimed \in {None, "Strait of Hormuz", "Suez Canal", "unmapped"} :
                   LET atlas == RunAtlas(Sc, [card EXCEPT !.chokepoint = claimed], Suppliers)
                   IN  \A i \in DOMAIN atlas.exposures :
                           /\ claimed # None => claimed \in DOMAIN AffectedCountries
                                 /\ atlas.exposures[i].country \in AffectedCountries[claimed]
                           /\ \A j \in DOMAIN atlas.exposures :
                                 i < j => atlas.exposures[i].score >= atlas.exposures[j].score
             Lost(simulation, e) ==
                Sc.simulation # None => \A h \in Range(simulation.horizons) :
                   h.revenue = Len(e) * Sc.simulation.dailyRevenue
                                 * Cardinality(LostDays(Sc.simulation, h.days))
  <2>1. ASSUME Done PROVE Packed /\ FindingIs
    BY <2>1, PackedKnown
  <2>2. ASSUME Done
        PROVE  Scoped(packet.card) /\ Lost(packet.simulation, packet.exposures)
               /\ OptionsFor(packet.options, packet.exposures)
    <3>1. Packed /\ FindingIs
      BY <2>1, <2>2
    <3>2. packet.card = finding.card /\ packet.simulation = finding.simulation
          /\ packet.exposures = finding.exposures
      BY <3>1 DEF Packed
    <3>3. Scoped(finding.card)
      BY <3>1, ScopeIsExact, Zenon
    <3>4. Lost(finding.simulation, finding.exposures)
      BY <3>1, LossIsExact, Zenon
    <3>5. OptionsFor(packet.options, packet.exposures)
      <4>1. CASE packet.options = <<>>
        BY <4>1 DEF OptionsFor
      <4>2. CASE packet.options = BuildRecoveryOptions(finding.exposures, finding.simulation)
        BY <3>1, <3>2, <4>2, OptionsAreExact
      <4> QED
        BY <3>1, <4>1, <4>2 DEF Packed
    <3> HIDE DEF Scoped, Lost
    <3> QED
      BY <3>2, <3>3, <3>4, <3>5
  <2> QED
    BY <2>2, Zenon DEF FindingIsExact, OptionsFor, Sc
<1> QED
  BY <1>1, PacketInvAlways, PTL

-----------------------------------------------------------------------------
(* What the gatekeeper has seen.                                           *)

\* The citation check reads five parts of a packet.
LEMMA CitationsReadParts ==
    ASSUME NEW p, NEW u, p.card = u.card, p.signals = u.signals, p.exposures = u.exposures,
           p.simulation = u.simulation, p.messages = u.messages
    PROVE  CollectCitationFailures(p) = CollectCitationFailures(u)
<1>1. \A path : ResolveSourcePath(p, path) = ResolveSourcePath(u, path)
  <2>1. \A path : Reaches(p, path) = Reaches(u, path)
    BY DEF Reaches
  <2> QED
    BY <2>1 DEF ResolveSourcePath
<1>2. ASSUME NEW m PROVE Cited(p, m) <=> Cited(u, m)
  <2>1. ASSUME NEW c PROVE ClaimHolds(p, m, c) <=> ClaimHolds(u, m, c)
    BY <1>1 DEF ClaimHolds
  <2>2. ClaimValues(p, m) = ClaimValues(u, m)
    BY <1>1 DEF ClaimValues
  <2> QED
    BY <2>1, <2>2 DEF Cited
<1> QED
  BY <1>2 DEF CollectCitationFailures

LEMMA GatekeeperReads ==
    ASSUME NEW name, NEW signals, NEW found, NEW d, NEW plan, NEW drafts, NEW runs,
           NEW p, p = Assemble(name, signals, found, d, plan, drafts, runs),
           p.gatekeeper # "BLOCKED"
    PROVE  /\ \A run \in Range(runs) : run.validation # "FAIL"
           /\ Ids(found.exposures) \subseteq Known
           /\ \A m \in drafts : m.supplier \in Ids(found.exposures)
           /\ CollectCitationFailures(p) = {}
<1> DEFINE unchecked ==
              [gatekeeper |-> None, card |-> found.card, signals |-> signals, exposures |-> found.exposures,
               simulation |-> found.simulation,
               gaps |-> found.gaps \cup IF d = "ACT" THEN {} ELSE {"withheld"},
               recommendation |-> d, playbooks |-> plan, messages |-> drafts,
               items |-> IF d = "ACT" THEN ActionItems(found.exposures) ELSE {},
               options |-> IF d = "ACT" THEN BuildRecoveryOptions(found.exposures, found.simulation)
                           ELSE <<>>,
               runs |-> Range(runs)]
<1>1. p = [unchecked EXCEPT !.gatekeeper = RunActionOpsGatekeeper(unchecked, Known)]
  BY DEF Assemble
<1>2. p.gatekeeper = RunActionOpsGatekeeper(unchecked, Known)
  BY <1>1
<1>3. /\ p.card = unchecked.card /\ p.signals = unchecked.signals
      /\ p.exposures = unchecked.exposures
      /\ p.simulation = unchecked.simulation /\ p.messages = unchecked.messages
  BY <1>1
<1>4. /\ unchecked.runs = Range(runs) /\ unchecked.exposures = found.exposures
      /\ unchecked.messages = drafts
  OBVIOUS
<1> HIDE DEF unchecked
<1>5. /\ ~\E run \in unchecked.runs : run.validation = "FAIL"
      /\ Ids(unchecked.exposures) \subseteq Known
      /\ ~\E m \in unchecked.messages : m.supplier \notin Ids(unchecked.exposures)
      /\ CollectCitationFailures(unchecked) = {}
  BY <1>2, Zenon DEF RunActionOpsGatekeeper
<1>6. CollectCitationFailures(p) = CollectCitationFailures(unchecked)
  BY <1>3, CitationsReadParts
<1> QED
  BY <1>4, <1>5, <1>6

\* The tools' runs are in the trail of every finished run.
LEMMA TrailHolds ==
    ASSUME DoneKnown
    PROVE  \A i \in DOMAIN RulesRuns(finding) : RulesRuns(finding)[i] \in Range(trail)
<1> DEFINE tools == RulesRuns(finding)
           Starts(t) == Len(t) \in Nat /\ Len(t) >= 4 /\ DOMAIN t = 1..Len(t)
                        /\ t[2] = tools[1] /\ t[3] = tools[2] /\ t[4] = tools[3]
<1>1. \A o, q, r, t : Starts(PastDispatcher(o, q, r, t))
  BY DEF PastDispatcher, PastStrategist, PastSkeptic, PastSentinel, RulesRuns
<1>2. DOMAIN tools = 1..3
  BY DEF RulesRuns
<1> HIDE DEF tools
<1>3. \E o, q, r, t : trail = PastDispatcher(o, q, r, t)
  BY DEF DoneKnown
<1>4. Starts(trail)
  BY <1>1, <1>3
<1>5. tools[1] \in Range(trail) /\ tools[2] \in Range(trail) /\ tools[3] \in Range(trail)
  BY <1>4 DEF Range
<1> QED
  BY <1>2, <1>5 DEF tools

\* A packet that is not held: no tool failed, its suppliers are known, its drafts are for
\* exposed ones and cite what they say.
Cleared ==
    /\ finding.atlas = "PASS"
    /\ Ids(finding.exposures) \subseteq Known
    /\ \A m \in messages : m.supplier \in Ids(finding.exposures)
    /\ CollectCitationFailures(packet) = {}

LEMMA ClearedKnown == PacketInv /\ Done /\ packet.gatekeeper # "BLOCKED" => Cleared
<1> SUFFICES ASSUME PacketInv, stage = "done", packet.gatekeeper # "BLOCKED" PROVE Cleared
  BY DEF Done
<1>1. DoneKnown
  BY DEF PacketInv
<1>2. PICK d : PacketIs(d)
  BY <1>1 DEF DoneKnown
<1>3. /\ \A run \in Range(trail) : run.validation # "FAIL"
      /\ Ids(finding.exposures) \subseteq Known
      /\ \A m \in messages : m.supplier \in Ids(finding.exposures)
      /\ CollectCitationFailures(packet) = {}
  BY <1>2, GatekeeperReads DEF PacketIs
<1>4. RulesRuns(finding)[2] \in Range(trail)
  <2>1. 2 \in DOMAIN RulesRuns(finding)
    BY DEF RulesRuns
  <2> QED
    BY <1>1, <2>1, TrailHolds
<1>5. RulesRuns(finding)[2] = Run("Atlas", IF finding.atlas = "FAIL" THEN "rejected" ELSE "rules")
  BY DEF RulesRuns
<1>6. Run("Atlas", "rejected").validation = "FAIL"
  BY DEF Run
<1>7. finding.atlas # "FAIL"
  BY <1>3, <1>4, <1>5, <1>6
<1>8. finding.atlas \in {"PASS", "FAIL"}
  <2>1. FindingIs
    BY FindingKnown
  <2>2. RunAtlas(Sc, finding.card, Suppliers).status \in {"PASS", "FAIL"}
    BY AtlasIs
  <2> QED
    BY <2>1, <2>2 DEF FindingIs
<1> QED
  BY <1>3, <1>7, <1>8 DEF Cleared

\* The numbers a draft may write, each under its unit.
Computed(p) ==
    {<<p.exposures[i].recoveryDays, "any">> : i \in DOMAIN p.exposures}
    \cup {<<s.age, "any">> : s \in p.signals} \cup {<<p.card.confidence, "ratio">>}
    \cup (IF p.simulation = None THEN {}
          ELSE {<<p.simulation.survivalDays, "days">>}
               \cup UNION {{<<h.days, "days">>, <<h.revenue, "USD">>, <<h.margin, "USD">>}
                            : h \in Range(p.simulation.horizons)})

\* A claim that holds, of no score, claims one of them.
LEMMA ClaimIsComputed ==
    ASSUME NEW p, NEW m, NEW c, ClaimHolds(p, m, c), c.value # None, c.path.leaf # "exposureScore"
    PROVE  <<c.value, c.unit>> \in Computed(p) \/ <<c.value, "any">> \in Computed(p)
<1>1. /\ ResolveSourcePath(p, c.path) = {c.value}
      /\ c.path.leaf \in DOMAIN FieldUnits => c.unit = FieldUnits[c.path.leaf]
  BY DEF ClaimHolds
<1>2. PICK r \in Reaches(p, c.path) : r.path = c.path /\ r.value = c.value
  BY <1>1 DEF ResolveSourcePath
<1>3. /\ FieldUnits["days"] = "days" /\ FieldUnits["survivalDays"] = "days"
      /\ FieldUnits["revenue"] = "USD" /\ FieldUnits["margin"] = "USD"
      /\ FieldUnits["confidence"] = "ratio"
      /\ {"days", "survivalDays", "revenue", "margin", "confidence"} \subseteq DOMAIN FieldUnits
  BY DEF FieldUnits
<1>4. CASE c.path.root = "exposureResults"
  <2>1. r \in {[path |-> Path("exposureResults", i - 1, leaf),
                value |-> IF leaf = "exposureScore" THEN p.exposures[i].score
                          ELSE p.exposures[i].recoveryDays]
                  : i \in DOMAIN p.exposures, leaf \in {"exposureScore", "recoveryDays"}}
    BY <1>2, <1>4 DEF Reaches
  <2>2. PICK i \in DOMAIN p.exposures, leaf \in {"exposureScore", "recoveryDays"} :
            r = [path |-> Path("exposureResults", i - 1, leaf),
                 value |-> IF leaf = "exposureScore" THEN p.exposures[i].score
                           ELSE p.exposures[i].recoveryDays]
    BY <2>1
  <2>3. c.path.leaf = leaf
    BY <1>2, <2>2 DEF Path
  <2>4. c.value = p.exposures[i].recoveryDays
    BY <1>2, <2>2, <2>3
  <2> QED
    BY <2>4 DEF Computed
<1>5. CASE c.path.root = "simulation" /\ p.simulation # None
  <2>1. \/ r \in {[path |-> Path("simulation", i - 1, leaf), value |-> p.simulation.horizons[i][leaf]]
                     : i \in DOMAIN p.simulation.horizons, leaf \in {"days", "revenue", "margin"}}
        \/ r = [path |-> Path("simulation", None, "survivalDays"), value |-> p.simulation.survivalDays]
    BY <1>2, <1>5 DEF Reaches
  <2>2. CASE r = [path |-> Path("simulation", None, "survivalDays"), value |-> p.simulation.survivalDays]
    <3>1. c.path.leaf = "survivalDays" /\ c.value = p.simulation.survivalDays
      BY <1>2, <2>2 DEF Path
    <3>2. c.unit = "days"
      BY <1>1, <1>3, <3>1
    <3> QED
      BY <1>5, <3>1, <3>2 DEF Computed
  <2>3. ASSUME NEW i \in DOMAIN p.simulation.horizons, NEW leaf \in {"days", "revenue", "margin"},
               r = [path |-> Path("simulation", i - 1, leaf), value |-> p.simulation.horizons[i][leaf]]
        PROVE  <<c.value, c.unit>> \in Computed(p)
    <3> DEFINE h == p.simulation.horizons[i]
    <3>1. c.path.leaf = leaf /\ c.value = h[leaf]
      BY <1>2, <2>3 DEF Path
    <3>2. c.unit = FieldUnits[leaf]
      BY <1>1, <1>3, <3>1
    <3>3. h \in Range(p.simulation.horizons)
      BY DEF Range
    <3> HIDE DEF h
    <3>4. {<<h.days, "days">>, <<h.revenue, "USD">>, <<h.margin, "USD">>} \subseteq Computed(p)
      BY <1>5, <3>3 DEF Computed
    <3>5. CASE leaf = "days"
      BY <1>3, <3>1, <3>2, <3>4, <3>5
    <3>6. CASE leaf = "revenue"
      BY <1>3, <3>1, <3>2, <3>4, <3>6
    <3>7. CASE leaf = "margin"
      BY <1>3, <3>1, <3>2, <3>4, <3>7
    <3> QED
      BY <3>5, <3>6, <3>7
  <2> QED
    BY <2>1, <2>2, <2>3
<1>6. CASE c.path.root = "threatCard"
  <2>1. r = [path |-> Path("threatCard", None, "confidence"), value |-> p.card.confidence]
    BY <1>2, <1>6 DEF Reaches
  <2>2. c.path.leaf = "confidence" /\ c.value = p.card.confidence
    BY <1>2, <2>1 DEF Path
  <2>3. c.unit = "ratio"
    BY <1>1, <1>3, <2>2
  <2> QED
    BY <2>2, <2>3 DEF Computed
<1>7. CASE c.path.root = "publicSignals"
  <2>1. PICK s \in p.signals : r = [path |-> Path("publicSignals", None, s.url), value |-> s.age]
    BY <1>2, <1>7 DEF Reaches
  <2>2. c.value = s.age
    BY <1>2, <2>1
  <2> QED
    BY <2>2 DEF Computed
<1>8. CASE ~(c.path.root = "exposureResults" \/ (c.path.root = "simulation" /\ p.simulation # None)
             \/ c.path.root = "threatCard" \/ c.path.root = "publicSignals")
  <2>1. Reaches(p, c.path) = {}
    BY <1>8 DEF Reaches
  <2> QED
    BY <1>2, <2>1
<1> QED
  BY <1>4, <1>5, <1>6, <1>7, <1>8

LEMMA FiguresBacked ==
    ASSUME NEW p, CollectCitationFailures(p) = {},
           \A m \in p.messages : \A c \in m.claims : c.path.leaf # "exposureScore"
    PROVE  FiguresAreBacked(p)
<1>1. ASSUME NEW m \in p.messages, NEW text \in {m.subject, m.body}
      PROVE  /\ ~text.odd
             /\ \A f \in text.figures \cup UNION {NameFigures(s) : s \in text.names \ {m.supplier}} :
                   \E c \in m.claims : c.value = f /\ {<<f, c.unit>>, <<f, "any">>} \cap Computed(p) # {}
  <2>1. Cited(p, m)
    BY DEF CollectCitationFailures
  <2>2. /\ \A c \in m.claims : ClaimHolds(p, m, c)
        /\ ~text.odd
        /\ FiguresOf(text, {m.supplier}) \subseteq ClaimValues(p, m)
    BY <2>1 DEF Cited
  <2>3. ASSUME NEW f \in FiguresOf(text, {m.supplier})
        PROVE  \E c \in m.claims : c.value = f /\ {<<f, c.unit>>, <<f, "any">>} \cap Computed(p) # {}
    <3>1. PICK c \in m.claims : c.value = f /\ c.value # None
      BY <2>2 DEF ClaimValues
    <3>2. <<c.value, c.unit>> \in Computed(p) \/ <<c.value, "any">> \in Computed(p)
      BY <2>2, <3>1, ClaimIsComputed
    <3> QED
      BY <3>1, <3>2
  <2> QED
    BY <2>2, <2>3, Zenon DEF FiguresOf
<1> QED
  BY <1>1, Zenon DEF FiguresAreBacked, Computed

\* A plan is grounded in exposed suppliers and writes no figure.
PlanIs(plan, e) ==
    /\ \A q \in plan : q.grounded \subseteq Ids(e)
    /\ CollectPlaybookNumeralFailures(plan) = {}

LEMMA RulesPlanIs ==
    ASSUME NEW e
    PROVE  PlanIs(DeterministicPlaybooks(e), e)
<1> DEFINE plan == DeterministicPlaybooks(e)
           first == FirstThree(e, DOMAIN e)
<1>1. \A q \in plan : q.summary = Prose /\ q.steps = {Prose} /\ q.grounded = first
  BY DEF DeterministicPlaybooks
<1>2. first \subseteq Ids(e)
  BY DEF FirstThree, Ids
<1>3. ~Prose.odd /\ FiguresOf(Prose, {}) = {}
  BY DEF Prose, FiguresOf
<1> HIDE DEF plan, first
<1>4. CollectPlaybookNumeralFailures(plan) = {}
  BY <1>1, <1>3 DEF CollectPlaybookNumeralFailures
<1> QED
  BY <1>1, <1>2, <1>4 DEF PlanIs, plan

LEMMA AcceptedPlanIs ==
    ASSUME NEW raw, NEW e, ApplyPlaybookFirewall(raw, e).ok
    PROVE  PlanIs(ApplyPlaybookFirewall(raw, e).value, e)
<1> DEFINE plan == {SanitizedPlaybook(p) : p \in raw}
<1>1. \/ ApplyPlaybookFirewall(raw, e) = Reject
      \/ /\ \A p \in plan : p.grounded \subseteq Ids(e)
         /\ CollectPlaybookNumeralFailures(plan) = {}
         /\ ApplyPlaybookFirewall(raw, e) = Accept(plan)
  BY Zenon DEF ApplyPlaybookFirewall
<1> HIDE DEF plan
<1>2. ~Reject.ok /\ Accept(plan).value = plan
  BY DEF Reject, Accept
<1> QED
  BY <1>1, <1>2 DEF PlanIs

LEMMA PlansAre == PlanKnown => PlanIs(playbooks, finding.exposures)
<1> SUFFICES ASSUME PlanKnown PROVE PlanIs(playbooks, finding.exposures)
  OBVIOUS
<1>1. CASE playbooks = DeterministicPlaybooks(finding.exposures)
  BY <1>1, RulesPlanIs
<1>2. CASE playbooks \in Accepted(PlaybookVerdicts)
  <2>1. PICK a \in PlaybookAnswers :
            LET v == ApplyPlaybookFirewall(PlaybookAnswer(a, finding.exposures), finding.exposures)
            IN  v.ok /\ playbooks = v.value
    BY <1>2 DEF Accepted, PlaybookVerdicts
  <2> QED
    BY <2>1, AcceptedPlanIs
<1> QED
  BY <1>1, <1>2 DEF PlanKnown

Affected == {s.id : s \in MatchSuppliers(Suppliers, Sc.match)}

LEMMA ExposuresMatch ==
    ASSUME FindingIs, finding.atlas = "PASS"
    PROVE  /\ Ids(finding.exposures) = Affected
           /\ Affected = {} => "no direct exposure" \in finding.gaps
           /\ Len(finding.exposures) = Cardinality(Affected)
           /\ Cardinality(Affected) \in 0..Cardinality(Suppliers)
<1> DEFINE matched == MatchSuppliers(Suppliers, Sc.match)
           e == finding.exposures
           n == Cardinality(matched)
<1>1. /\ matched \in SUBSET Suppliers /\ IsFiniteSet(matched) /\ n \in Nat
      /\ DOMAIN e = 1..n
      /\ \A s \in matched : \E i \in DOMAIN e : e[i].supplier = s.id
      /\ \A i \in DOMAIN e : \E s \in matched : e[i] = ExposureOf(Sc, finding.card, s)
      /\ \A i, j \in DOMAIN e : e[i].supplier = e[j].supplier => i = j
      /\ e = [i \in DOMAIN e |-> e[i]]
  <2> DEFINE atlas == RunAtlas(Sc, finding.card, Suppliers)
             x == atlas.exposures
  <2>1. x = e /\ atlas.status = "PASS"
    BY DEF FindingIs
  <2> HIDE DEF e
  <2>2. /\ matched \in SUBSET Suppliers /\ IsFiniteSet(matched) /\ n \in Nat
        /\ atlas.status = "PASS" => DOMAIN x = 1..n
                                    /\ \A s \in matched : \E i \in DOMAIN x : x[i].supplier = s.id
        /\ \A i \in DOMAIN x : \E s \in matched : x[i] = ExposureOf(Sc, finding.card, s)
        /\ \A i, j \in DOMAIN x : x[i].supplier = x[j].supplier => i = j
        /\ x = [i \in DOMAIN x |-> x[i]]
    BY AtlasIs, Zenon
  <2> HIDE DEF atlas, x, matched, n
  <2> QED
    BY <2>1, <2>2
<1>2. \A s : ExposureOf(Sc, finding.card, s).supplier = s.id
  BY DEF ExposureOf
<1> HIDE DEF e
<1>3. Ids(e) = Affected
  <2>1. \A x \in Ids(e) : x \in Affected
    BY <1>1, <1>2 DEF Ids, Affected
  <2>2. \A x \in Affected : x \in Ids(e)
    BY <1>1 DEF Ids, Affected
  <2> QED
    BY <2>1, <2>2
<1> HIDE DEF n
<1>4. e = [i \in 1..n |-> e[i]] /\ \A i, j \in 1..n : e[i].supplier = e[j].supplier => i = j
  BY <1>1
<1>5. Len(e) = n
  BY <1>1, <1>4, TopExposedIs
<1>6. Cardinality(Affected) = n
  <2>1. n \in 0..n
    BY <1>1
  <2>2. Cardinality(SuppliersOf(e, n)) = n
    BY <1>1, <1>4, <2>1, FirstOf
  <2>3. SuppliersOf(e, n) = Ids(e)
    BY <1>1 DEF SuppliersOf, Ids
  <2> QED
    BY <1>3, <2>2, <2>3
<1>7. n <= Cardinality(Suppliers) /\ Cardinality(Suppliers) \in Nat
  <2>1. IsFiniteSet(Suppliers)
    BY PacketAssumption
  <2> HIDE DEF matched
  <2> QED
    BY <1>1, <2>1, FS_Subset, FS_CardinalityType DEF n
<1>8. ASSUME Affected = {} PROVE "no direct exposure" \in finding.gaps
  <2>1. matched = {}
    BY <1>8 DEF Affected
  <2>2. RunAtlas(Sc, finding.card, Suppliers) = NoExposure("no direct exposure", "PASS")
    <3> HIDE DEF matched
    <3>1. ~\E s \in matched : s.country \notin Scope(finding.card).countries
      BY <2>1
    <3>2. \/ RunAtlas(Sc, finding.card, Suppliers) = NoExposure("no direct exposure", "PASS")
          \/ matched # {}
          \/ \E s \in matched : s.country \notin Scope(finding.card).countries
      BY Zenon DEF RunAtlas, matched
    <3> QED
      BY <2>1, <3>1, <3>2, Zenon
  <2>3. RunAtlas(Sc, finding.card, Suppliers).gaps = {"no direct exposure"}
    <3>1. NoExposure("no direct exposure", "PASS").gaps = {"no direct exposure"}
      BY DEF NoExposure
    <3> QED
      BY <2>2, <3>1, Zenon
  <2> QED
    BY <2>3 DEF FindingIs
<1>9. Cardinality(Affected) \in 0..Cardinality(Suppliers)
  BY <1>1, <1>6, <1>7
<1>10. Len(e) = Cardinality(Affected)
  BY <1>5, <1>6
<1> QED
  BY <1>3, <1>8, <1>9, <1>10, Zenon DEF e

-----------------------------------------------------------------------------
(* The graders.                                                            *)

LEMMA TruthIs ==
    /\ Truth.known = Known /\ Truth.affected = Affected
    /\ Truth.allowlist = EvidenceAllowlist(Sc, SignalsOf(scenario, live))
    /\ Truth.offTaxonomy = Sc.offTaxonomy /\ Truth.simInputs = Sc.simulation
BY DEF Truth, Affected, Sc

\* Each exposure is that of a supplier.
LEMMA ExposedOnes ==
    ASSUME FindingIs, NEW i \in DOMAIN finding.exposures
    PROVE  /\ finding.exposures[i].score \in Nat
           /\ finding.exposures[i].sector \in Sectors
           /\ Sc.offTaxonomy => finding.exposures[i].sector = "OTHER_UNMAPPED"
<1> DEFINE x == RunAtlas(Sc, finding.card, Suppliers).exposures
           matched == MatchSuppliers(Suppliers, Sc.match)
<1>1. matched \in SUBSET Suppliers /\ \A j \in DOMAIN x : \E s \in matched : x[j] = ExposureOf(Sc, finding.card, s)
  BY AtlasIs, Zenon
<1>2. finding.exposures = x
  BY DEF FindingIs
<1> HIDE DEF x, matched
<1>3. PICK s \in Suppliers : finding.exposures[i] = ExposureOf(Sc, finding.card, s)
  BY <1>1, <1>2
<1> QED
  BY <1>3, ExposureFigures

LEMMA TaxonomyGraded ==
    ASSUME FindingIs, NEW p, p.exposures = finding.exposures, finding.gaps \subseteq p.gaps
    PROVE  GradeOffTaxonomy(p, Truth)
<1>1. ASSUME Sc.offTaxonomy PROVE p.gaps # {}
  <2>1. Sc.gaps # {}
    BY <1>1, ScenarioIs DEF FindingIs, Sc
  <2>2. Sc.gaps \subseteq finding.gaps
    BY DEF FindingIs, RunSimulator
  <2> QED
    BY <2>1, <2>2
<1>2. \A i \in DOMAIN p.exposures :
          /\ p.exposures[i].sector \in Sectors
          /\ Sc.offTaxonomy => p.exposures[i].sector = "OTHER_UNMAPPED"
  BY ExposedOnes
<1>3. Truth.offTaxonomy = Sc.offTaxonomy
  BY TruthIs
<1> QED
  BY <1>1, <1>2, <1>3, Zenon DEF GradeOffTaxonomy

LEMMA ExposuresGraded ==
    ASSUME FindingIs, finding.atlas = "PASS",
           NEW p, p.exposures = finding.exposures, finding.gaps \subseteq p.gaps
    PROVE  GradeExposureControl(p, Truth)
<1>1. Ids(p.exposures) = Affected /\ (Affected = {} => "no direct exposure" \in p.gaps)
  BY ExposuresMatch
<1>2. \A i \in DOMAIN p.exposures : p.exposures[i].score >= 0
  <2>1. \A i \in DOMAIN p.exposures : p.exposures[i].score \in Nat
    BY ExposedOnes
  <2> QED
    BY <2>1
<1>3. Truth.affected = Affected
  BY TruthIs
<1> QED
  BY <1>1, <1>2, <1>3, Zenon DEF GradeExposureControl

LEMMA RunwayGraded ==
    ASSUME FindingIs, finding.atlas = "PASS", NEW p, p.simulation = finding.simulation
    PROVE  GradeSimulatorArithmetic(p, Truth)
<1> DEFINE params == Sc.simulation
           n == Cardinality(Affected)
           r == RecomputeSimulation(params, n)
<1>1. Truth.simInputs = params /\ Truth.affected = Affected
  BY TruthIs
<1>2. params = None => p.simulation = None
  BY SimulationIs
<1>3. ASSUME params # None PROVE p.simulation = r /\ r # None
  <2>1. params \in {Hormuz.simulation, RedSea.simulation, Hurricane.simulation}
        /\ finding.simulation = RecomputeSimulation(params, Len(finding.exposures))
    BY <1>3, SimulationIs
  <2>2. Len(finding.exposures) = n /\ n \in 0..Cardinality(Suppliers)
    BY ExposuresMatch
  <2> HIDE DEF params, n
  <2>3. None # RecomputeSimulation(params, n)
    BY <2>1, <2>2, PacketAssumption, Zenon
  <2> QED
    BY <2>1, <2>2, <2>3
<1>4. CASE params = None
  BY <1>1, <1>2, <1>4, Zenon DEF GradeSimulatorArithmetic
<1>5. CASE params # None
  <2>1. p.simulation = r /\ r # None
    BY <1>3, <1>5
  <2>2. /\ Range(p.simulation.horizons) = Range(r.horizons)
        /\ p.simulation.survivalDays = r.survivalDays
        /\ p.simulation.runouts = r.runouts
    BY <2>1
  <2> QED
    BY <1>1, <1>5, <2>1, <2>2, Zenon DEF GradeSimulatorArithmetic
<1> QED
  BY <1>4, <1>5

\* What was fetched links nowhere unsafe.
LEMMA SignalsAreFetched ==
    ASSUME FindingIs, live \in BOOLEAN, NEW s \in SignalsOf(scenario, live)
    PROVE  IsSafeHttpUrl(s.url) /\ s.url \in EvidenceAllowlist(Sc, SignalsOf(scenario, live))
<1>1. scenario \in ScenarioIds
  BY DEF FindingIs
<1>2. s.url \in EvidenceAllowlist(Sc, SignalsOf(scenario, live))
  BY DEF EvidenceAllowlist
<1>3. CASE live
  BY <1>1, <1>2, <1>3, PacketAssumption DEF SignalsOf
<1>4. CASE ~live
  <2>1. PICK g \in Sc.signals : s = [source |-> g.source, url |-> g.url, country |-> g.country, age |-> 0, summary |-> Prose]
    BY <1>4 DEF SignalsOf, Replayed, Sc
  <2>2. s.url = g.url
    BY <2>1
  <2>3. g.url \in Sc.threat.evidence /\ Sc.threat.evidence \cap UnsafeUrls = {}
    BY <1>1, ScenarioIs DEF Sc
  <2> QED
    BY <1>2, <2>2, <2>3 DEF IsSafeHttpUrl
<1> QED
  BY <1>3, <1>4

LEMMA EvidenceGraded ==
    ASSUME FindingIs, live \in BOOLEAN,
           NEW p, p.card = finding.card, p.signals = SignalsOf(scenario, live),
           \A i \in p.items : i.title = Prose,
           \A m \in p.messages : FindLinks(m.subject) = {} /\ FindLinks(m.body) = {},
           \A q \in p.playbooks : q.grounded \subseteq Ids(p.exposures)
    PROVE  GradeEvidence(WithoutUnread(p), Truth)
<1> DEFINE u == WithoutUnread(p)
           allowed == EvidenceAllowlist(Sc, SignalsOf(scenario, live))
           Good(url) == IsSafeHttpUrl(url) /\ url \in allowed
<1>1. /\ u.card = finding.card /\ u.exposures = p.exposures /\ u.messages = p.messages
      /\ u.items = p.items
  BY DEF WithoutUnread
<1>2. \A s \in u.signals : s.summary = Prose /\ \E g \in SignalsOf(scenario, live) : s.url = g.url
  <2>1. u.signals = {[url |-> g.url, summary |-> Prose] : g \in SignalsOf(scenario, live)}
    BY DEF WithoutUnread
  <2> HIDE DEF u
  <2> QED
    BY <2>1
<1>3. \A q \in u.playbooks : q.summary = Prose /\ q.steps = {} /\ q.grounded \subseteq Ids(p.exposures)
  <2>1. u.playbooks = {[summary |-> Prose, steps |-> {}, grounded |-> q.grounded] : q \in p.playbooks}
    BY DEF WithoutUnread
  <2> HIDE DEF u
  <2> QED
    BY <2>1
<1>4. \A url \in finding.card.evidence \cup FindLinks(finding.card.summary) : Good(url)
  BY DEF FindingIs, CardIs
<1>5. \A g \in SignalsOf(scenario, live) : Good(g.url)
  BY SignalsAreFetched
<1>6. FindLinks(Prose) = {}
  BY DEF FindLinks, Prose
<1>7. Truth.allowlist = allowed
  BY TruthIs
<1> HIDE DEF u, allowed, Good
<1>8. \A url \in u.card.evidence \cup {s.url : s \in u.signals} : Good(url)
  BY <1>1, <1>2, <1>4, <1>5
<1>9. \A t \in RecordProse(u) \cup MessageProse(u) \cup PlaybookProse(u) :
          t = finding.card.summary \/ FindLinks(t) = {}
  <2>1. \A t \in RecordProse(u) : t = finding.card.summary \/ t = Prose
    BY <1>1, <1>2 DEF RecordProse, ItemProse
  <2>2. \A t \in MessageProse(u) : FindLinks(t) = {}
    BY <1>1 DEF MessageProse
  <2>3. \A t \in PlaybookProse(u) : t = Prose
    BY <1>3 DEF PlaybookProse
  <2> QED
    BY <1>6, <2>1, <2>2, <2>3
<1>10. \A url \in LinksIn(RecordProse(u) \cup MessageProse(u) \cup PlaybookProse(u)) : Good(url)
  BY <1>4, <1>9 DEF LinksIn
<1>11. \A urls : (\A url \in urls : Good(url)) => Fetched(urls, Truth)
  BY <1>7 DEF Fetched, Good
<1>12. \A q \in u.playbooks : q.grounded \subseteq Ids(u.exposures)
  BY <1>1, <1>3
<1> QED
  BY <1>8, <1>10, <1>11, <1>12, Zenon DEF GradeEvidence, u

\* A packet that is not held passes every grader, whatever the models answered, but for
\* the links the gatekeeper does not read (ClearedIsGraded).
THEOREM ClearedIsGradedAlways == Spec => []ClearedIsGraded
<1>1. PacketInv => ClearedIsGraded
  <2> SUFFICES ASSUME PacketInv PROVE ClearedIsGraded
    OBVIOUS
  <2>1. ASSUME Done, packet.gatekeeper # "BLOCKED"
        PROVE  /\ GradeEntityIds(packet, Truth) /\ GradeCitationCoverage(packet)
               /\ GradeOffTaxonomy(packet, Truth) /\ GradeExposureControl(packet, Truth)
               /\ GradeSimulatorArithmetic(packet, Truth) /\ FiguresAreBacked(packet)
               /\ GradeEvidence(WithoutUnread(packet), Truth)
    <3>1. Packed /\ FindingIs /\ Cleared
      BY <2>1, PackedKnown, ClearedKnown
    <3>2. /\ packet.card = finding.card /\ packet.signals = SignalsOf(scenario, live)
          /\ packet.exposures = finding.exposures /\ packet.simulation = finding.simulation
          /\ finding.gaps \subseteq packet.gaps
          /\ packet.playbooks = playbooks /\ packet.messages = messages
      BY <3>1 DEF Packed
    <3>3. Discreet(messages, finding.exposures) \/ messages = {}
      BY <3>1, DraftsAreDiscreet DEF Packed, Acted, Refused
    <3>4. PlanIs(playbooks, finding.exposures)
      <4>1. CASE playbooks = {}
        BY <4>1 DEF PlanIs, CollectPlaybookNumeralFailures
      <4>2. CASE PlanKnown
        BY <4>2, PlansAre
      <4> QED
        BY <3>1, <4>1, <4>2 DEF Packed, Acted, Refused
    <3>5. GradeEntityIds(packet, Truth)
      <4>1. {m.supplier : m \in messages} \subseteq Known /\ Ids(finding.exposures) \subseteq Known
        BY <3>1 DEF Cleared
      <4>2. Truth.known = Known
        BY TruthIs
      <4> QED
        BY <3>2, <4>1, <4>2 DEF GradeEntityIds
    <3>6. GradeCitationCoverage(packet)
      BY <3>1, <3>2, <3>4 DEF GradeCitationCoverage, Cleared, PlanIs
    <3>7. GradeOffTaxonomy(packet, Truth)
      BY <3>1, <3>2, TaxonomyGraded
    <3>8. GradeExposureControl(packet, Truth) /\ GradeSimulatorArithmetic(packet, Truth)
      BY <3>1, <3>2, ExposuresGraded, RunwayGraded DEF Cleared
    <3>9. FiguresAreBacked(packet)
      <4>1. \A m \in packet.messages : \A c \in m.claims : c.path.leaf # "exposureScore"
        BY <3>2, <3>3 DEF Discreet
      <4>2. CollectCitationFailures(packet) = {}
        BY <3>1 DEF Cleared
      <4> QED
        BY <4>1, <4>2, FiguresBacked
    <3>10. GradeEvidence(WithoutUnread(packet), Truth)
      <4>1. \A i \in packet.items : i.title = Prose
        <5>1. \A i \in ActionItems(finding.exposures) : i.title = Prose
          BY DEF ActionItems
        <5>2. packet.items = {} \/ packet.items = ActionItems(finding.exposures)
          BY <3>1 DEF Packed
        <5> QED
          BY <5>1, <5>2
      <4>2. \A m \in packet.messages : FindLinks(m.subject) = {} /\ FindLinks(m.body) = {}
        BY <3>2, <3>3 DEF Discreet
      <4>3. \A q \in packet.playbooks : q.grounded \subseteq Ids(packet.exposures)
        BY <3>2, <3>4 DEF PlanIs
      <4>4. live \in BOOLEAN
        BY DEF PacketInv
      <4> QED
        BY <3>1, <3>2, <4>1, <4>2, <4>3, <4>4, EvidenceGraded
    <3> QED
      BY <3>5, <3>6, <3>7, <3>8, <3>9, <3>10
  <2> QED
    BY <2>1, Zenon DEF ClearedIsGraded
<1> QED
  BY <1>1, PacketInvAlways, PTL

-----------------------------------------------------------------------------
(* The promotion gate.                                                     *)

\* What the firewall leaves of a chokepoint covers the suppliers the scenario selects.
LEMMA AtlasPasses == FindingIs => finding.atlas = "PASS"
<1> SUFFICES ASSUME FindingIs PROVE RunAtlas(Sc, finding.card, Suppliers).status = "PASS"
  BY DEF FindingIs
<1> DEFINE card == finding.card
           matched == MatchSuppliers(Suppliers, Sc.match)
           atlas == RunAtlas(Sc, card, Suppliers)
           scope == Scope(card)
<1>1. \/ atlas = NoExposure("no direct exposure", "PASS")
      \/ scope.claimed /\ ~scope.known
      \/ scope.known /\ \E s \in matched : s.country \notin scope.countries
      \/ atlas = ExposuresTo(Sc, card, matched)
  BY Zenon DEF RunAtlas
<1>2. card.chokepoint = None \/ (card.chokepoint = "Strait of Hormuz" /\ Sc = Hormuz)
  <2>1. card.chokepoint \in {None, Sc.threat.chokepoint} /\ scenario \in ScenarioIds
    BY DEF FindingIs, CardIs
  <2>2. /\ Sc.threat.chokepoint \in {None, "Strait of Hormuz"}
        /\ Sc.threat.chokepoint # None => Sc = Hormuz
    BY <2>1, ScenarioIs DEF Sc
  <2> QED
    BY <2>1, <2>2
<1> HIDE DEF card, matched, scope, atlas
<1> DEFINE Fits == /\ ~(scope.claimed /\ ~scope.known)
                   /\ ~(scope.known /\ \E s \in matched : s.country \notin scope.countries)
<1>3. ASSUME card.chokepoint = None PROVE Fits
  <2>1. scope = [claimed |-> FALSE, known |-> FALSE, countries |-> {}]
    BY <1>3, Zenon DEF scope, Scope
  <2>2. ~scope.claimed /\ ~scope.known
    BY <2>1
  <2> QED
    BY <2>2
<1>4. ASSUME card.chokepoint = "Strait of Hormuz", Sc = Hormuz, card.chokepoint # None
      PROVE  Fits
  <2> DEFINE gulf == {"SA", "AE", "QA", "KW", "BH", "IQ", "IR", "OM"}
  <2>1. /\ "Strait of Hormuz" \in DOMAIN AffectedCountries
        /\ AffectedCountries["Strait of Hormuz"] = gulf
    BY DEF AffectedCountries
  <2> HIDE DEF gulf
  <2>2. scope = [claimed |-> TRUE, known |-> TRUE, countries |-> gulf]
    BY <1>4, <2>1, Zenon DEF scope, Scope
  <2>3. scope.known /\ scope.countries = gulf
    BY <2>2
  <2>4. Hormuz.match.countries = {"SA", "AE", "QA", "KW"}
    BY DEF Hormuz, Scenario, AnySupplier
  <2>5. \A s \in matched : Allows(Hormuz.match.countries, s.country)
    BY <1>4 DEF matched, MatchSuppliers
  <2>6. \A s \in matched : s.country \in {"SA", "AE", "QA", "KW"}
    BY <2>4, <2>5, PacketAssumption DEF Allows
  <2>7. \A s \in matched : s.country \in scope.countries
    BY <2>3, <2>6 DEF gulf
  <2> QED
    BY <2>3, <2>7
<1>5. Fits
  BY <1>2, <1>3, <1>4
<1>6. atlas.status = "PASS"
  <2>1. NoExposure("no direct exposure", "PASS").status = "PASS"
    BY DEF NoExposure
  <2>2. ExposuresTo(Sc, card, matched).status = "PASS"
    BY DEF ExposuresTo
  <2> QED
    BY <1>1, <1>5, <2>1, <2>2
<1> QED
  BY <1>6 DEF atlas, card

Step(capability, run) == [capability |-> capability, status |-> StepStatus(run)]

\* What each agent's run is a step of.
LEMMA StepsOfRun ==
    ASSUME NEW o
    PROVE  /\ StepsOf(Run("Sentinel", o)) = <<Step("classify", Run("Sentinel", o))>>
           /\ StepsOf(Run("Verifier", o)) = <<Step("corroborate", Run("Verifier", o))>>
           /\ StepsOf(Run("Atlas", o)) = <<Step("assess", Run("Atlas", o))>>
           /\ StepsOf(Run("Simulator", o)) = <<Step("simulate", Run("Simulator", o))>>
           /\ StepsOf(Run("Skeptic", o)) = <<Step("challenge", Run("Skeptic", o)),
                                             [capability |-> "decide", status |-> "ok"]>>
           /\ StepsOf(Run("Strategist", o)) = <<Step("plan", Run("Strategist", o))>>
           /\ StepsOf(Run("Dispatcher", o)) = <<Step("draft", Run("Dispatcher", o))>>
<1>1. \A agent : Run(agent, o).agent = agent
  BY DEF Run
<1>2. /\ AgentCapability["Sentinel"] = "classify" /\ "Sentinel" \in DOMAIN AgentCapability
      /\ AgentCapability["Verifier"] = "corroborate" /\ "Verifier" \in DOMAIN AgentCapability
      /\ AgentCapability["Atlas"] = "assess" /\ "Atlas" \in DOMAIN AgentCapability
      /\ AgentCapability["Simulator"] = "simulate" /\ "Simulator" \in DOMAIN AgentCapability
      /\ AgentCapability["Skeptic"] = "challenge" /\ "Skeptic" \in DOMAIN AgentCapability
      /\ AgentCapability["Strategist"] = "plan" /\ "Strategist" \in DOMAIN AgentCapability
      /\ AgentCapability["Dispatcher"] = "draft" /\ "Dispatcher" \in DOMAIN AgentCapability
  BY DEF AgentCapability
<1>3. ASSUME NEW agent, NEW capability, agent \in DOMAIN AgentCapability,
             AgentCapability[agent] = capability, agent # "Skeptic"
      PROVE  StepsOf(Run(agent, o)) = <<Step(capability, Run(agent, o))>>
  BY <1>1, <1>3 DEF StepsOf, Step
<1>4. StepsOf(Run("Skeptic", o)) = <<Step("challenge", Run("Skeptic", o)),
                                     [capability |-> "decide", status |-> "ok"]>>
  BY <1>1, <1>2, Zenon DEF StepsOf, Step
<1>5. /\ StepsOf(Run("Sentinel", o)) = <<Step("classify", Run("Sentinel", o))>>
      /\ StepsOf(Run("Verifier", o)) = <<Step("corroborate", Run("Verifier", o))>>
      /\ StepsOf(Run("Atlas", o)) = <<Step("assess", Run("Atlas", o))>>
      /\ StepsOf(Run("Simulator", o)) = <<Step("simulate", Run("Simulator", o))>>
  BY <1>2, <1>3, Zenon
<1>6. /\ StepsOf(Run("Strategist", o)) = <<Step("plan", Run("Strategist", o))>>
      /\ StepsOf(Run("Dispatcher", o)) = <<Step("draft", Run("Dispatcher", o))>>
  BY <1>2, <1>3, Zenon
<1> QED
  BY <1>4, <1>5, <1>6, Zenon

\* The steps are gathered run by run.
LEMMA GatheredSteps ==
    ASSUME NEW p, NEW x, NEW t, Len(t) = 7
    PROVE  DeriveTrajectory(p, t, x).steps =
              ((((((<<>> \o StepsOf(t[1])) \o StepsOf(t[2])) \o StepsOf(t[3])) \o StepsOf(t[4]))
                    \o StepsOf(t[5])) \o StepsOf(t[6])) \o StepsOf(t[7])
<1> DEFINE Join(s, n) == s \o StepsOf(t[n])
           Unfold(s) == [n \in 0..7 |-> IF n = 0 THEN <<>> ELSE Join(s[n - 1], n)]
           steps == CHOOSE s : s = Unfold(s)
           w1 == Join(<<>>, 1)
           w2 == Join(w1, 2)
           w3 == Join(w2, 3)
           w4 == Join(w3, 4)
           w5 == Join(w4, 5)
           w6 == Join(w5, 6)
           w7 == Join(w6, 7)
           w == [n \in 0..7 |-> IF n = 0 THEN <<>> ELSE IF n = 1 THEN w1 ELSE IF n = 2 THEN w2
                                ELSE IF n = 3 THEN w3 ELSE IF n = 4 THEN w4 ELSE IF n = 5 THEN w5
                                ELSE IF n = 6 THEN w6 ELSE w7]
<1>1. DeriveTrajectory(p, t, x).steps = steps[7]
  <2>1. DeriveTrajectory(p, t, x).steps =
          (CHOOSE s : s = [n \in 0..Len(t) |-> IF n = 0 THEN <<>> ELSE s[n - 1] \o StepsOf(t[n])])[Len(t)]
    BY Zenon DEF DeriveTrajectory
  <2> QED
    BY <2>1, Zenon
<1> HIDE DEF Join
<1>2. w = Unfold(w)
  <2>1. ASSUME NEW n \in 0..7
        PROVE  w[n] = IF n = 0 THEN <<>> ELSE Join(w[n - 1], n)
    BY <2>1
  <2> HIDE DEF w1, w2, w3, w4, w5, w6, w7
  <2> QED
    BY <2>1
<1> HIDE DEF w
<1>3. steps = Unfold(steps)
  BY <1>2, Zenon
<1> HIDE DEF steps
<1>4. steps[0] = <<>> /\ \A n \in 1..7 : steps[n] = Join(steps[n - 1], n)
  BY <1>3
<1>5. /\ steps[1] = Join(steps[0], 1) /\ steps[2] = Join(steps[1], 2) /\ steps[3] = Join(steps[2], 3)
      /\ steps[4] = Join(steps[3], 4) /\ steps[5] = Join(steps[4], 5) /\ steps[6] = Join(steps[5], 6)
      /\ steps[7] = Join(steps[6], 7)
  <2>1. /\ 1 - 1 = 0 /\ 2 - 1 = 1 /\ 3 - 1 = 2 /\ 4 - 1 = 3 /\ 5 - 1 = 4 /\ 6 - 1 = 5 /\ 7 - 1 = 6
        /\ 1 \in 1..7 /\ 2 \in 1..7 /\ 3 \in 1..7 /\ 4 \in 1..7 /\ 5 \in 1..7 /\ 6 \in 1..7 /\ 7 \in 1..7
    OBVIOUS
  <2> HIDE DEF Unfold
  <2> QED
    BY <1>4, <2>1, Zenon
<1>6. steps[7] = w7
  <2> HIDE DEF w1, w2, w3, w4, w5, w6, w7, Unfold
  <2>1. steps[1] = w1
    BY <1>4, <1>5, Zenon DEF w1
  <2>2. steps[2] = w2
    BY <1>5, <2>1, Zenon DEF w2
  <2>3. steps[3] = w3
    BY <1>5, <2>2, Zenon DEF w3
  <2>4. steps[4] = w4
    BY <1>5, <2>3, Zenon DEF w4
  <2>5. steps[5] = w5
    BY <1>5, <2>4, Zenon DEF w5
  <2>6. steps[6] = w6
    BY <1>5, <2>5, Zenon DEF w6
  <2> QED
    BY <1>5, <2>6, Zenon DEF w7
<1> QED
  BY <1>1, <1>6, Zenon DEF Join

\* Eight steps joined in turn are a list of the eight.
Joined(a1, a2, a3, a4, a5, a6, a7, a8) ==
    ((((((<<>> \o <<a1>>) \o <<a2>>) \o <<a3>>) \o <<a4>>) \o <<a5, a6>>) \o <<a7>>) \o <<a8>>
Lists(s, a1, a2, a3, a4, a5, a6, a7, a8) ==
    /\ s[1] = a1 /\ s[2] = a2 /\ s[3] = a3 /\ s[4] = a4
    /\ s[5] = a5 /\ s[6] = a6 /\ s[7] = a7 /\ s[8] = a8
    /\ DOMAIN s = 1..8 /\ Len(s) = 8

LEMMA JoinedInTurn ==
    ASSUME NEW a1, NEW a2, NEW a3, NEW a4, NEW a5, NEW a6, NEW a7, NEW a8
    PROVE  Lists(Joined(a1, a2, a3, a4, a5, a6, a7, a8), a1, a2, a3, a4, a5, a6, a7, a8)
BY DEF Joined, Lists

\* A trail of the seven agents, and the eight steps it is.
TrailIs(t, o1, o2, o3, o4, o5, o6, o7) ==
    /\ Len(t) = 7 /\ DOMAIN t = 1..7
    /\ t[1] = Run("Sentinel", o1) /\ t[2] = Run("Verifier", o2) /\ t[3] = Run("Atlas", o3)
    /\ t[4] = Run("Simulator", o4) /\ t[5] = Run("Skeptic", o5)
    /\ t[6] = Run("Strategist", o6) /\ t[7] = Run("Dispatcher", o7)
Capabilities ==
    <<"classify", "corroborate", "assess", "simulate", "challenge", "decide", "plan", "draft">>

LEMMA TrailSteps ==
    ASSUME NEW p, NEW x, NEW o1, NEW o2, NEW o3, NEW o4, NEW o5, NEW o6, NEW o7,
           NEW t, TrailIs(t, o1, o2, o3, o4, o5, o6, o7)
    PROVE  LET s == DeriveTrajectory(p, t, x).steps
           IN  /\ DOMAIN s = 1..8 /\ Len(s) = 8
               /\ \A i \in 1..8 : s[i].capability = Capabilities[i]
               /\ s[7].status = StepStatus(Run("Strategist", o6))
               /\ s[8].status = StepStatus(Run("Dispatcher", o7))
<1> DEFINE s == DeriveTrajectory(p, t, x).steps
           a1 == Step("classify", Run("Sentinel", o1))
           a2 == Step("corroborate", Run("Verifier", o2))
           a3 == Step("assess", Run("Atlas", o3))
           a4 == Step("simulate", Run("Simulator", o4))
           a5 == Step("challenge", Run("Skeptic", o5))
           a6 == [capability |-> "decide", status |-> "ok"]
           a7 == Step("plan", Run("Strategist", o6))
           a8 == Step("draft", Run("Dispatcher", o7))
<1>1. Len(t) = 7
  BY DEF TrailIs
<1>2. /\ StepsOf(t[1]) = <<a1>> /\ StepsOf(t[2]) = <<a2>> /\ StepsOf(t[3]) = <<a3>>
      /\ StepsOf(t[4]) = <<a4>> /\ StepsOf(t[5]) = <<a5, a6>>
      /\ StepsOf(t[6]) = <<a7>> /\ StepsOf(t[7]) = <<a8>>
  <2>1. /\ t[1] = Run("Sentinel", o1) /\ t[2] = Run("Verifier", o2) /\ t[3] = Run("Atlas", o3)
        /\ t[4] = Run("Simulator", o4) /\ t[5] = Run("Skeptic", o5)
        /\ t[6] = Run("Strategist", o6) /\ t[7] = Run("Dispatcher", o7)
    BY DEF TrailIs
  <2> QED
    BY <2>1, StepsOfRun, Zenon
<1>3. s = ((((((<<>> \o StepsOf(t[1])) \o StepsOf(t[2])) \o StepsOf(t[3])) \o StepsOf(t[4]))
              \o StepsOf(t[5])) \o StepsOf(t[6])) \o StepsOf(t[7])
  BY <1>1, GatheredSteps
<1> HIDE DEF s, a1, a2, a3, a4, a5, a6, a7, a8
<1>4. s = Joined(a1, a2, a3, a4, a5, a6, a7, a8)
  BY <1>2, <1>3, Zenon DEF Joined
<1>5. Lists(s, a1, a2, a3, a4, a5, a6, a7, a8)
  BY <1>4, JoinedInTurn, Zenon
<1>6. /\ a1.capability = "classify" /\ a2.capability = "corroborate" /\ a3.capability = "assess"
      /\ a4.capability = "simulate" /\ a5.capability = "challenge" /\ a6.capability = "decide"
      /\ a7.capability = "plan" /\ a8.capability = "draft"
      /\ a7.status = StepStatus(Run("Strategist", o6)) /\ a8.status = StepStatus(Run("Dispatcher", o7))
  BY DEF Step, a1, a2, a3, a4, a5, a6, a7, a8
<1>7. /\ s[1] = a1 /\ s[2] = a2 /\ s[3] = a3 /\ s[4] = a4 /\ s[5] = a5 /\ s[6] = a6 /\ s[7] = a7 /\ s[8] = a8
      /\ DOMAIN s = 1..8 /\ Len(s) = 8
  BY <1>5 DEF Lists
<1>8. \A i \in 1..8 : i \in {1, 2, 3, 4, 5, 6, 7, 8}
  OBVIOUS
<1>9. /\ s[1].capability = Capabilities[1] /\ s[2].capability = Capabilities[2]
      /\ s[3].capability = Capabilities[3] /\ s[4].capability = Capabilities[4]
      /\ s[5].capability = Capabilities[5] /\ s[6].capability = Capabilities[6]
      /\ s[7].capability = Capabilities[7] /\ s[8].capability = Capabilities[8]
  BY <1>6, <1>7 DEF Capabilities
<1>10. \A i \in 1..8 : s[i].capability = Capabilities[i]
  BY <1>8, <1>9
<1>11. s[7].status = StepStatus(Run("Strategist", o6)) /\ s[8].status = StepStatus(Run("Dispatcher", o7))
  BY <1>6, <1>7, Zenon
<1> QED
  BY <1>7, <1>10, <1>11, Zenon DEF s

\* A trajectory of the eight steps, whose plan and draft are withheld on a refusal and on
\* nothing else.
Orderly(t) ==
    /\ DOMAIN t.steps = 1..8 /\ Len(t.steps) = 8
    /\ \A i \in 1..8 : t.steps[i].capability = Capabilities[i]
    /\ \A i \in {7, 8} : (t.steps[i].status = "withheld") <=> (t.recommendation = "NO_ACTION")

\* Such trajectories are told apart by their outcome alone.
LEMMA OrderlyScores ==
    ASSUME NEW t, Orderly(t)
    PROVE  /\ PreconditionScore(t) =
                [met |-> Cardinality({i \in 1..8 : Preconditions[Capabilities[i]]
                                                    \subseteq {Capabilities[j] : j \in 1..(i - 1)}}),
                 of |-> 8]
           /\ CoverageScore(t) =
                Cardinality(RequiredCapabilities \cap {Capabilities[i] : i \in 1..8})
           /\ StopCorrect(t) /\ FailClosedRespected(t)
<1>1. /\ DOMAIN t.steps = 1..8 /\ Len(t.steps) = 8
      /\ \A i \in 1..8 : t.steps[i].capability = Capabilities[i]
      /\ \A i \in {7, 8} : (t.steps[i].status = "withheld") <=> (t.recommendation = "NO_ACTION")
  BY DEF Orderly
<1> DEFINE s == t.steps
           before(i) == {s[j].capability : j \in 1..(i - 1)}
           known(i) == {Capabilities[j] : j \in 1..(i - 1)}
           met == {i \in DOMAIN s : Preconditions[s[i].capability] \subseteq before(i)}
           expected == {i \in 1..8 : Preconditions[Capabilities[i]] \subseteq known(i)}
<1>2. met = expected
  <2>1. \A i \in 1..8 : before(i) = known(i)
    BY <1>1
  <2> HIDE DEF before, known
  <2> QED
    BY <1>1, <2>1
<1>3. Max({1, Len(s)}) = 8
  <2>1. Len(s) = 8
    BY <1>1
  <2> HIDE DEF s
  <2> QED
    BY <2>1, PairExtrema
<1>4. PreconditionScore(t) = [met |-> Cardinality(expected), of |-> 8]
  <2>1. PreconditionScore(t) = [met |-> Cardinality(met), of |-> Max({1, Len(s)})]
    BY Zenon DEF PreconditionScore
  <2> HIDE DEF met, expected, s
  <2> QED
    BY <1>2, <1>3, <2>1
<1>5. {x.capability : x \in Range(s)} = {Capabilities[i] : i \in 1..8}
  BY <1>1 DEF Range
<1>6. CoverageScore(t) = Cardinality(RequiredCapabilities \cap {Capabilities[i] : i \in 1..8})
  <2>1. CoverageScore(t) = Cardinality(RequiredCapabilities \cap {x.capability : x \in Range(s)})
    BY Zenon DEF CoverageScore
  <2> QED
    BY <1>5, <2>1, Zenon
<1>7. \A i \in 1..8 : i \in {1, 2, 3, 4, 5, 6, 7, 8}
  OBVIOUS
<1>8. /\ Capabilities[1] = "classify" /\ Capabilities[2] = "corroborate"
      /\ Capabilities[3] = "assess" /\ Capabilities[4] = "simulate"
      /\ Capabilities[5] = "challenge" /\ Capabilities[6] = "decide"
      /\ Capabilities[7] = "plan" /\ Capabilities[8] = "draft"
  BY DEF Capabilities
<1> HIDE DEF s
<1>9. \A i \in 1..8 : Capabilities[i] \in {"plan", "draft"} <=> i \in {7, 8}
  BY <1>7, <1>8
<1>10. \A i, j \in 1..8 : i < j => Capabilities[i] # Capabilities[j]
  BY <1>7, <1>8
<1>11. StopCorrect(t)
  <2> DEFINE outbound == {x \in Range(s) : x.capability \in {"plan", "draft"}}
  <2>1. Range(s) = {s[i] : i \in 1..8}
    BY <1>1 DEF s, Range
  <2>2. \A i \in 1..8 : s[i].capability = Capabilities[i]
    BY <1>1 DEF s
  <2>3. s[7] \in outbound
    BY <1>8, <2>1, <2>2
  <2>4. \A x \in outbound : x = s[7] \/ x = s[8]
    BY <1>9, <2>1, <2>2
  <2>5. \A x \in outbound : (x.status = "withheld") = (t.recommendation = "NO_ACTION")
    <3>1. \A i \in {7, 8} : (s[i].status = "withheld") <=> (t.recommendation = "NO_ACTION")
      BY <1>1 DEF s
    <3> HIDE DEF outbound
    <3> QED
      BY <2>4, <3>1
  <2> QED
    BY <2>3, <2>5 DEF StopCorrect, s
<1>12. FailClosedRespected(t)
  BY <1>1, <1>10 DEF FailClosedRespected
<1> QED
  BY <1>4, <1>6, <1>11, <1>12, Zenon DEF s

LEMMA ScoresAreNumbers ==
    /\ Cardinality({i \in 1..8 : Preconditions[Capabilities[i]]
                                    \subseteq {Capabilities[j] : j \in 1..(i - 1)}}) \in Nat
    /\ Cardinality(RequiredCapabilities \cap {Capabilities[i] : i \in 1..8}) \in Nat
<1>1. IsFiniteSet(1..8)
  BY UpTo
<1>2. IsFiniteSet({i \in 1..8 : Preconditions[Capabilities[i]]
                                    \subseteq {Capabilities[j] : j \in 1..(i - 1)}})
  BY <1>1, FS_Subset
<1> DEFINE T == {Capabilities[i] : i \in 1..8}
<1>3. IsFiniteSet(T)
  <2>1. DOMAIN Capabilities = 1..8 /\ Capabilities = [i \in 1..8 |-> Capabilities[i]]
    BY DEF Capabilities
  <2> QED
    BY <2>1, ImageIsFinite
<1> HIDE DEF T
<1>4. RequiredCapabilities \cap T \in SUBSET T
  OBVIOUS
<1>5. IsFiniteSet(RequiredCapabilities \cap T)
  BY <1>3, <1>4, FS_Subset
<1> QED
  BY <1>2, <1>5, FS_CardinalityType DEF T

LEMMA OutcomeDecides ==
    ASSUME NEW base, NEW new, Orderly(base), Orderly(new),
           ~base.blocked, base.decisionCorrect, new.blocked \in BOOLEAN, new.decisionCorrect \in BOOLEAN
    PROVE  CompareTrajectories(base, new) <=> ~new.blocked /\ new.decisionCorrect
<1> DEFINE M == Cardinality({i \in 1..8 : Preconditions[Capabilities[i]]
                                            \subseteq {Capabilities[j] : j \in 1..(i - 1)}})
           C == Cardinality(RequiredCapabilities \cap {Capabilities[i] : i \in 1..8})
<1>1. M \in Nat /\ C \in Nat
  BY ScoresAreNumbers
<1>2. \A t \in {base, new} :
          /\ PreconditionScore(t) = [met |-> M, of |-> 8] /\ CoverageScore(t) = C
          /\ StopCorrect(t) /\ FailClosedRespected(t)
  BY OrderlyScores, Zenon
<1> HIDE DEF M, C
<1>3. \A t \in {base, new} : /\ PreconditionScore(t).met = M /\ PreconditionScore(t).of = 8
                             /\ CoverageScore(t) = C /\ StopCorrect(t) /\ FailClosedRespected(t)
  BY <1>2
<1>4. /\ OutcomeScore(base) = 2
      /\ OutcomeScore(new) \in 0..2
      /\ OutcomeScore(new) = 2 <=> ~new.blocked /\ new.decisionCorrect
  BY DEF OutcomeScore, Points
<1>5. \A t \in {base, new} :
          Composite(t) = 210 * 8 * OutcomeScore(t) + 350 * M + 280 * 8 + 30 * 8 * C + 140 * 8
  BY <1>3 DEF Composite, Points
<1>6. CompositeHolds(base, new) <=> OutcomeScore(new) = 2
  BY <1>1, <1>3, <1>4, <1>5 DEF CompositeHolds
<1>7. ~PreconditionsRegress(base, new)
  BY <1>1, <1>3 DEF PreconditionsRegress
<1>8. CoverageScore(new) >= CoverageScore(base)
  BY <1>1, <1>3
<1>9. OutcomeScore(new) = 2 => ~(OutcomeScore(new) < OutcomeScore(base))
  BY <1>4
<1> QED
  BY <1>3, <1>4, <1>6, <1>7, <1>8, <1>9 DEF CompareTrajectories

LEMMA WithheldIs ==
    ASSUME NEW agent, NEW o
    PROVE  StepStatus(Run(agent, o)) = "withheld" <=> o = "withheld"
<1>1. Run(agent, o).withheld <=> o = "withheld"
  BY DEF Run
<1>2. CASE Run(agent, o).withheld
  BY <1>1, <1>2, Zenon DEF StepStatus
<1>3. CASE ~Run(agent, o).withheld
  <2>1. StepStatus(Run(agent, o)) \in {"degraded", "failed", "ok"}
    BY <1>3 DEF StepStatus
  <2> QED
    BY <1>1, <1>3, <2>1
<1> QED
  BY <1>2, <1>3

LEMMA OrderlyTrail ==
    ASSUME NEW p, NEW x, NEW o1, NEW o2, NEW o3, NEW o4, NEW o5, NEW o6, NEW o7,
           NEW t, TrailIs(t, o1, o2, o3, o4, o5, o6, o7),
           o6 = "withheld" <=> p.recommendation = "NO_ACTION",
           o7 = "withheld" <=> p.recommendation = "NO_ACTION"
    PROVE  Orderly(DeriveTrajectory(p, t, x))
<1> DEFINE d == DeriveTrajectory(p, t, x)
<1>1. d.recommendation = p.recommendation
  BY DEF DeriveTrajectory
<1>2. /\ DOMAIN d.steps = 1..8 /\ Len(d.steps) = 8
      /\ \A i \in 1..8 : d.steps[i].capability = Capabilities[i]
      /\ d.steps[7].status = StepStatus(Run("Strategist", o6))
      /\ d.steps[8].status = StepStatus(Run("Dispatcher", o7))
  BY TrailSteps
<1> HIDE DEF d
<1>3. /\ d.steps[7].status = "withheld" <=> o6 = "withheld"
      /\ d.steps[8].status = "withheld" <=> o7 = "withheld"
  BY <1>2, WithheldIs
<1>4. \A i \in {7, 8} : (d.steps[i].status = "withheld") <=> (d.recommendation = "NO_ACTION")
  BY <1>1, <1>3
<1> QED
  BY <1>2, <1>4 DEF Orderly, d

\* The trail of a finished run, and of the run by rules.
LEMMA PastIsTrail ==
    ASSUME NEW o, NEW q, NEW r, NEW t
    PROVE  TrailIs(PastDispatcher(o, q, r, t),
                   o, IF finding.checks.sources > 0 THEN "rules" ELSE "rejected",
                   IF finding.atlas = "FAIL" THEN "rejected" ELSE "rules", "rules", q, r, t)
BY DEF TrailIs, PastDispatcher, PastStrategist, PastSkeptic, PastSentinel, RulesRuns

LEMMA BaselineTrail ==
    ASSUME NEW found, NEW r, NEW t
    PROVE  TrailIs(<<Run("Sentinel", "rules")>> \o RulesRuns(found)
                     \o <<Run("Skeptic", "rules"), Run("Strategist", r), Run("Dispatcher", t)>>,
                   "rules", IF found.checks.sources > 0 THEN "rules" ELSE "rejected",
                   IF found.atlas = "FAIL" THEN "rejected" ELSE "rules", "rules", "rules", r, t)
BY DEF TrailIs, RulesRuns

LEMMA ActsOrRefuses ==
    ASSUME NEW found, NEW judged
    PROVE  DecisionOn(found, judged).recommendation \in {"ACT", "NO_ACTION"}
<1> DEFINE kind == ExposureKind(found.exposures)
           base == Gates!Decide(found.checks.corroborated, found.card.confidence, kind)
           verdict == [accepted |-> judged = "accept", errored |-> judged = "broken"]
           strong == Gates!Strong(found.checks, found.card.confidence, kind)
<1>1. base.recommendation \in {"ACT", "NO_ACTION"}
  BY DEF Gates!Decide
<1>2. DecisionOn(found, judged) = Gates!ApplySkepticGate(base, verdict, strong)
  BY DEF DecisionOn
<1> HIDE DEF base, verdict, strong
<1>3. \/ DecisionOn(found, judged) = Gates!Veto(base)
      \/ \E outcome : DecisionOn(found, judged) = Gates!Keep(base, outcome)
  BY <1>2, Zenon DEF Gates!ApplySkepticGate
<1>4. Gates!Veto(base).recommendation = "NO_ACTION"
  BY DEF Gates!Veto
<1>5. \A outcome : Gates!Keep(base, outcome).recommendation = base.recommendation
  BY DEF Gates!Keep
<1> QED
  BY <1>1, <1>3, <1>4, <1>5

\* The window of the first horizon is where a draft of the rules says it is.
LEMMA WindowReached ==
    ASSUME NEW root, root.simulation # None, NEW k \in Nat,
           DOMAIN root.simulation.horizons = 1..k, k > 0
    PROVE  ResolveSourcePath(root, WindowPath) = {root.simulation.horizons[1].days}
<1> DEFINE h == root.simulation.horizons
           leaves == {"days", "revenue", "margin"}
           lines == {[path |-> Path("simulation", i - 1, leaf), value |-> h[i][leaf]] :
                        i \in DOMAIN h, leaf \in leaves}
           whole == {[path |-> Path("simulation", None, "survivalDays"),
                      value |-> root.simulation.survivalDays]}
<1>1. Reaches(root, WindowPath) = lines \cup whole
  <2>1. WindowPath.root = "simulation"
    BY DEF WindowPath, Path
  <2> QED
    BY <2>1 DEF Reaches
<1>2. WindowPath = [root |-> "simulation", index |-> 0, leaf |-> "days"]
  BY DEF WindowPath, Path
<1>3. \A r \in whole : r.path # WindowPath
  BY <1>2 DEF Path
<1>4. \A r \in lines : r.path = WindowPath => r.value = h[1].days
  <2> SUFFICES ASSUME NEW i \in DOMAIN h, NEW leaf \in leaves,
                      Path("simulation", i - 1, leaf) = WindowPath
               PROVE  h[i][leaf] = h[1].days
    OBVIOUS
  <2>1. i - 1 = 0 /\ leaf = "days" /\ i \in Int
    BY <1>2 DEF Path
  <2> QED
    BY <2>1
<1>5. [path |-> WindowPath, value |-> h[1].days] \in lines
  <2>1. 1 \in DOMAIN h /\ "days" \in leaves
    OBVIOUS
  <2>2. WindowPath = Path("simulation", 1 - 1, "days")
    BY DEF WindowPath
  <2> QED
    BY <2>1, <2>2
<1> HIDE DEF h, lines, whole
<1>6. ResolveSourcePath(root, WindowPath) = {r.value : r \in {r \in lines \cup whole : r.path = WindowPath}}
  BY <1>1, Zenon DEF ResolveSourcePath
<1> DEFINE x == [path |-> WindowPath, value |-> h[1].days]
<1>7. x.path = WindowPath /\ x.value = h[1].days
  OBVIOUS
<1> HIDE DEF x
<1> QED
  BY <1>3, <1>4, <1>5, <1>6, <1>7 DEF h, x

\* What the rules write is cited.
LEMMA RulesDraftsCited ==
    ASSUME NEW root, root.messages \subseteq DeterministicDrafts(root.exposures, root.simulation),
           root.simulation # None =>
              \E k \in Nat : DOMAIN root.simulation.horizons = 1..k /\ k > 0
    PROVE  CollectCitationFailures(root) = {}
<1> DEFINE window == WindowDaysOf(root.simulation)
           claim == Claim(window, "days", WindowPath)
           body == IF window = None THEN Prose ELSE [Prose EXCEPT !.figures = {window}]
           claims == IF window = None THEN {} ELSE {claim}
<1>1. \A m \in root.messages : m.subject = Prose /\ m.body = body /\ m.claims = claims
  <2>1. DeterministicDrafts(root.exposures, root.simulation) =
          {[supplier |-> s, subject |-> Prose, body |-> body, claims |-> claims] : s \in TopExposed(root.exposures)}
    BY Zenon DEF DeterministicDrafts
  <2> HIDE DEF body, claims
  <2> QED
    BY <2>1
<1>2. /\ claim.value = window /\ claim.unit = "days" /\ claim.path = WindowPath
      /\ WindowPath.root = "simulation" /\ WindowPath.leaf = "days"
  BY DEF Claim, WindowPath, Path
<1>3. ASSUME window # None PROVE ResolveSourcePath(root, WindowPath) = {window}
  <2>1. root.simulation # None /\ window = root.simulation.horizons[1].days
    BY <1>3 DEF WindowDaysOf
  <2> QED
    BY <2>1, WindowReached
<1>4. /\ ~Prose.odd /\ Prose.figures = {} /\ Prose.names = {}
      /\ ~body.odd /\ body.names = {}
      /\ body.figures = IF window = None THEN {} ELSE {window}
  BY DEF Prose
<1> HIDE DEF window, claim, body
<1>5. ASSUME window # None, NEW m PROVE ClaimHolds(root, m, claim)
  <2>1. /\ "days" \in DOMAIN FieldUnits /\ FieldUnits["days"] = "days"
        /\ "simulation" \in CitationInputRoots
    BY DEF FieldUnits, CitationInputRoots
  <2> QED
    BY <1>2, <1>3, <1>5, <2>1 DEF ClaimHolds
<1>6. \A m : FiguresOf(Prose, {m.supplier}) = {} /\ FiguresOf(body, {m.supplier}) = body.figures
  BY <1>4 DEF FiguresOf
<1>7. ASSUME NEW m \in root.messages PROVE Cited(root, m)
  <2>1. m.subject = Prose /\ m.body = body /\ m.claims = claims
    BY <1>1
  <2>2. \A c \in m.claims : ClaimHolds(root, m, c)
    BY <1>5, <2>1
  <2>3. body.figures \subseteq ClaimValues(root, m)
    <3>1. CASE window = None
      BY <1>4, <3>1
    <3>2. CASE window # None
      <4>1. claim \in m.claims
        BY <2>1, <3>2
      <4>2. /\ claim.value # None /\ claim.path.root \in CitationInputRoots
            /\ ResolveSourcePath(root, claim.path) # {}
        BY <1>2, <1>3, <3>2 DEF CitationInputRoots
      <4>3. claim.value \in ClaimValues(root, m)
        BY <4>1, <4>2 DEF ClaimValues
      <4> QED
        BY <1>2, <1>4, <3>2, <4>3
    <3> QED
      BY <3>1, <3>2
  <2> HIDE DEF claims
  <2>4. \A text \in {m.subject, m.body} :
            ~text.odd /\ FiguresOf(text, {m.supplier}) \subseteq ClaimValues(root, m)
    BY <1>4, <1>6, <2>1, <2>3
  <2> QED
    BY <2>2, <2>4 DEF Cited
<1> QED
  BY <1>7 DEF CollectCitationFailures

\* Every scenario replays a signal of a named outlet.
OutletNames ==
    <<"GDELT DOC 2.0", "EIA Today in Energy", "Reuters (via GDELT)", "USTR", "Lloyd's List (via GDELT)",
      "National Weather Service", "NOAA SWPC">>

LEMMA ReplayIs ==
    ASSUME NEW name \in ScenarioIds
    PROVE  LET signals == ActionOpsScenarios[name].signals
           IN  signals # {} /\ \A s \in signals : \E i \in 1..7 : s.source = OutletNames[i]
<1>1. ActionOpsScenarios[name] \in
          {Hormuz, Tariff, RedSea, Hurricane, Bankruptcy, ZeroExposure, OffTaxonomy, ThinEvidence}
  BY PacketAssumption DEF ActionOpsScenarios
<1> DEFINE Named(sc) == sc.signals # {} /\ \A s \in sc.signals : \E i \in 1..7 : s.source = OutletNames[i]
<1>2. \A url, country : \A i \in 1..7 : ReplaySignal(OutletNames[i], url, country).source = OutletNames[i]
  BY DEF ReplaySignal
<1>3. /\ OutletNames[1] = "GDELT DOC 2.0" /\ OutletNames[2] = "EIA Today in Energy"
      /\ OutletNames[3] = "Reuters (via GDELT)" /\ OutletNames[4] = "USTR"
      /\ OutletNames[5] = "Lloyd's List (via GDELT)" /\ OutletNames[6] = "National Weather Service"
      /\ OutletNames[7] = "NOAA SWPC"
  BY DEF OutletNames
<1>4. Named(Hormuz)
  <2>1. Hormuz.signals = {ReplaySignal(OutletNames[1], "gdelt-hormuz", "OM"),
                          ReplaySignal(OutletNames[2], "eia-hormuz", None),
                          ReplaySignal(OutletNames[3], "reuters-hormuz", "AE")}
    <3>1. Hormuz.signals = {ReplaySignal("GDELT DOC 2.0", "gdelt-hormuz", "OM"),
                            ReplaySignal("EIA Today in Energy", "eia-hormuz", None),
                            ReplaySignal("Reuters (via GDELT)", "reuters-hormuz", "AE")}
      BY SMTT(30) DEF Hormuz, Scenario
    <3> QED
      BY <1>3, <3>1
  <2> QED
    BY <1>2, <2>1
<1>5. Named(Tariff)
  <2>1. Tariff.signals = {ReplaySignal(OutletNames[4], "ustr-tariff", "CN"),
                          ReplaySignal(OutletNames[1], "gdelt-tariff", "CN")}
    BY <1>3 DEF Tariff, Scenario
  <2> QED
    BY <1>2, <2>1
<1>6. Named(RedSea)
  <2>1. RedSea.signals = {ReplaySignal(OutletNames[1], "gdelt-redsea", None),
                          ReplaySignal(OutletNames[5], "lloyds-redsea", "IN")}
    BY <1>3 DEF RedSea, Scenario
  <2> QED
    BY <1>2, <2>1
<1>7. Named(Hurricane)
  <2>1. Hurricane.signals = {ReplaySignal(OutletNames[6], "nws-hurricane", "US")}
    <3>1. Hurricane.signals = {ReplaySignal("National Weather Service", "nws-hurricane", "US")}
      BY DEF Hurricane, Scenario
    <3> QED
      BY <1>3, <3>1
  <2> QED
    BY <1>2, <2>1
<1>8. Named(Bankruptcy)
  <2>1. Bankruptcy.signals = {ReplaySignal(OutletNames[1], "gdelt-bankruptcy", "IN")}
    BY <1>3 DEF Bankruptcy, Scenario
  <2> QED
    BY <1>2, <2>1
<1>9. Named(ZeroExposure)
  <2>1. ZeroExposure.signals = {ReplaySignal(OutletNames[1], "gdelt-callao", "PE")}
    BY <1>3 DEF ZeroExposure, Scenario
  <2> QED
    BY <1>2, <2>1
<1>10. Named(OffTaxonomy)
  <2>1. OffTaxonomy.signals = {ReplaySignal(OutletNames[7], "swpc-flare", None)}
    BY <1>3 DEF OffTaxonomy, Scenario
  <2> QED
    BY <1>2, <2>1
<1>11. Named(ThinEvidence)
  <2>1. ThinEvidence.signals = {ReplaySignal(OutletNames[1], "gdelt-rumor", "US")}
    BY <1>3 DEF ThinEvidence, Scenario
  <2> QED
    BY <1>2, <2>1
<1> HIDE DEF Named
<1>12. Named(ActionOpsScenarios[name])
  BY <1>1, <1>4, <1>5, <1>6, <1>7, <1>8, <1>9, <1>10, <1>11
<1> QED
  BY <1>12 DEF Named

LEMMA ReplayHeard ==
    ASSUME NEW name \in ScenarioIds, NEW card
    PROVE  Gates!Verify(Replayed(name), card).sources > 0
<1> DEFINE signals == Replayed(name)
           outlets == Gates!Outlets(signals)
           named == {OutletNames[i] : i \in 1..7}
<1>1. signals \subseteq AnySignal
  BY DEF AnySignal
<1>2. /\ signals # {}
      /\ \A s \in signals : \E i \in 1..7 : s.source = OutletNames[i]
  <2>1. ActionOpsScenarios[name].signals # {}
        /\ \A s \in ActionOpsScenarios[name].signals : \E i \in 1..7 : s.source = OutletNames[i]
    BY ReplayIs
  <2>2. signals = {[source |-> s.source, url |-> s.url, country |-> s.country, age |-> 0, summary |-> Prose]
                    : s \in ActionOpsScenarios[name].signals}
    BY DEF Replayed
  <2> HIDE DEF signals
  <2>3. signals # {}
    BY <2>1, <2>2
  <2>4. \A s \in signals : \E g \in ActionOpsScenarios[name].signals : s.source = g.source
    BY <2>2
  <2> QED
    BY <2>1, <2>3, <2>4
<1>3. IsFiniteSet(named)
  <2>1. DOMAIN OutletNames = 1..7 /\ OutletNames = [i \in 1..7 |-> OutletNames[i]]
    BY DEF OutletNames
  <2> QED
    BY <2>1, ImageIsFinite
<1>4. \A i \in 1..7 : OutletNames[i] # ""
  <2>1. \A i \in 1..7 : i \in {1, 2, 3, 4, 5, 6, 7}
    OBVIOUS
  <2>2. /\ OutletNames[1] # "" /\ OutletNames[2] # "" /\ OutletNames[3] # "" /\ OutletNames[4] # ""
        /\ OutletNames[5] # "" /\ OutletNames[6] # "" /\ OutletNames[7] # ""
    BY DEF OutletNames
  <2> QED
    BY <2>1, <2>2
<1>5. outlets = {s.source : s \in signals} \ {""}
  <2>1. outlets = {[t \in AnySignal |-> t.source][s] : s \in signals} \ {""}
    BY Zenon DEF Gates!Outlets
  <2> HIDE DEF signals, outlets
  <2> QED
    BY <1>1, <2>1
<1>6. Gates!Verify(signals, card).sources = Cardinality(outlets)
  <2>1. Gates!Verify(signals, card).sources = Gates!Cardinality(outlets)
    BY DEF Gates!Verify
  <2> QED
    BY <2>1, Zenon DEF Cardinality, Gates!Cardinality
<1> HIDE DEF signals, outlets, named
<1>7. outlets # {} /\ outlets \in SUBSET named
  BY <1>2, <1>4, <1>5 DEF named
<1>8. IsFiniteSet(outlets)
  BY <1>3, <1>7, FS_Subset
<1>9. Cardinality(outlets) \in Nat /\ Cardinality(outlets) # 0
  BY <1>7, <1>8, FS_CardinalityType, FS_EmptySet
<1> QED
  BY <1>6, <1>9 DEF signals

\* A packet nothing is broken in is not held.
LEMMA NothingBroken ==
    ASSUME NEW name, NEW signals, NEW found, NEW d, NEW plan, NEW drafts, NEW runs,
           NEW p, p = Assemble(name, signals, found, d, plan, drafts, runs),
           \A run \in Range(runs) : run.validation # "FAIL",
           Ids(found.exposures) \subseteq Known,
           \A m \in drafts : m.supplier \in Ids(found.exposures),
           CollectCitationFailures(p) = {}
    PROVE  p.gatekeeper # "BLOCKED"
<1> DEFINE unchecked ==
              [gatekeeper |-> None, card |-> found.card, signals |-> signals, exposures |-> found.exposures,
               simulation |-> found.simulation,
               gaps |-> found.gaps \cup IF d = "ACT" THEN {} ELSE {"withheld"},
               recommendation |-> d, playbooks |-> plan, messages |-> drafts,
               items |-> IF d = "ACT" THEN ActionItems(found.exposures) ELSE {},
               options |-> IF d = "ACT" THEN BuildRecoveryOptions(found.exposures, found.simulation)
                           ELSE <<>>,
               runs |-> Range(runs)]
<1>1. p = [unchecked EXCEPT !.gatekeeper = RunActionOpsGatekeeper(unchecked, Known)]
  BY DEF Assemble
<1>2. p.gatekeeper = RunActionOpsGatekeeper(unchecked, Known)
  BY <1>1
<1>3. /\ p.card = unchecked.card /\ p.signals = unchecked.signals
      /\ p.exposures = unchecked.exposures
      /\ p.simulation = unchecked.simulation /\ p.messages = unchecked.messages
  BY <1>1
<1>4. /\ unchecked.runs = Range(runs) /\ unchecked.exposures = found.exposures
      /\ unchecked.messages = drafts
  OBVIOUS
<1> HIDE DEF unchecked
<1>5. CollectCitationFailures(unchecked) = {}
  BY <1>3, CitationsReadParts
<1> DEFINE broken == \/ \E run \in unchecked.runs : run.validation = "FAIL"
                     \/ ~Ids(unchecked.exposures) \subseteq Known
                     \/ \E m \in unchecked.messages : m.supplier \notin Ids(unchecked.exposures)
                     \/ CollectCitationFailures(unchecked) # {}
<1>6. ~broken
  BY <1>4, <1>5
<1>7. broken \/ RunActionOpsGatekeeper(unchecked, Known) = "WARN"
             \/ RunActionOpsGatekeeper(unchecked, Known) = "PASS"
  BY Zenon DEF RunActionOpsGatekeeper
<1> QED
  BY <1>2, <1>6, <1>7

\* A run that did not fail quotes nothing.
LEMMA PassingQuotesNothing ==
    ASSUME NEW t, NEW o1, NEW o2, NEW o3, NEW o4, NEW o5, NEW o6, NEW o7,
           TrailIs(t, o1, o2, o3, o4, o5, o6, o7),
           \A run \in Range(t) : run.validation # "FAIL"
    PROVE  \A run \in Range(t) : run.summary = Prose
<1>1. \A agent, o : Run(agent, o).validation # "FAIL" => Run(agent, o).summary = Prose
  BY DEF Run
<1>2. \A i \in 1..7 : i \in {1, 2, 3, 4, 5, 6, 7}
  OBVIOUS
<1>3. \A i \in {1, 2, 3, 4, 5, 6, 7} : \E agent, o : t[i] = Run(agent, o)
  BY Zenon DEF TrailIs
<1>4. \A run \in Range(t) : \E i \in 1..7 : run = t[i]
  BY DEF Range, TrailIs
<1> SUFFICES ASSUME NEW run \in Range(t) PROVE run.summary = Prose
  OBVIOUS
<1>5. PICK i \in 1..7 : run = t[i]
  BY <1>4
<1>5a. i \in {1, 2, 3, 4, 5, 6, 7}
  BY <1>2
<1>5b. PICK agent, o : t[i] = Run(agent, o)
  BY <1>3, <1>5a, Zenon
<1>6. run = Run(agent, o)
  BY <1>5, <1>5b
<1>7. run.validation # "FAIL"
  OBVIOUS
<1> QED
  BY <1>1, <1>6, <1>7

\* Where the drafts link nowhere, the figures are cited and no run quotes an answer, a
\* leak is a model's words in a draft or a plan, or a link in a plan.
CleanWords(p) ==
    /\ \A m \in p.messages : ~m.subject.raw /\ ~m.body.raw
    /\ \A q \in p.playbooks : \A text \in {q.summary} \cup q.steps : ~text.raw /\ FindLinks(text) = {}

LEMMA LeaksAre ==
    ASSUME NEW p, \A i \in p.items : i.title = Prose,
           \A m \in p.messages : FindLinks(m.subject) = {} /\ FindLinks(m.body) = {},
           \A run \in p.runs : run.summary = Prose,
           GradeCitationCoverage(p)
    PROVE  FindOutputSafetyLeaks(p) <=> ~CleanWords(p)
<1>1. \A text \in ItemProse(p) \cup RunProse(p) : ~text.raw /\ FindLinks(text) = {}
  <2>1. ~Prose.raw /\ FindLinks(Prose) = {}
    BY DEF Prose, FindLinks
  <2>2. \A text \in ItemProse(p) \cup RunProse(p) : text = Prose
    BY DEF ItemProse, RunProse
  <2> QED
    BY <2>1, <2>2
<1>2. \A text \in MessageProse(p) : FindLinks(text) = {}
  BY DEF MessageProse
<1> DEFINE leak == \E text \in OutputProse(p) : text.raw \/ FindLinks(text) # {}
<1>3. FindOutputSafetyLeaks(p) <=> leak
  <2>1. LinksIn(OutputProse(p)) # {} <=> \E text \in OutputProse(p) : FindLinks(text) # {}
    BY DEF LinksIn
  <2> QED
    BY <2>1 DEF FindOutputSafetyLeaks
<1>4. leak <=> \/ \E text \in MessageProse(p) : text.raw
               \/ \E text \in PlaybookProse(p) : text.raw \/ FindLinks(text) # {}
  BY <1>1, <1>2 DEF OutputProse
<1>5. (\E text \in MessageProse(p) : text.raw) <=> \E m \in p.messages : m.subject.raw \/ m.body.raw
  BY DEF MessageProse
<1>6. (\E text \in PlaybookProse(p) : text.raw \/ FindLinks(text) # {})
        <=> \E q \in p.playbooks : \E text \in {q.summary} \cup q.steps : text.raw \/ FindLinks(text) # {}
  BY Zenon DEF PlaybookProse
<1> QED
  BY <1>3, <1>4, <1>5, <1>6, Zenon DEF CleanWords

LEMMA PassingTrail ==
    ASSUME NEW t, NEW r, r \in {"rules", "withheld"},
           TrailIs(t, "rules", "rules", "rules", "rules", "rules", r, r)
    PROVE  \A run \in Range(t) : run.validation # "FAIL"
<1>1. \A agent : \A o \in {"rules", "withheld"} : Run(agent, o).validation = "PASS"
  BY DEF Run
<1>2. \A i \in 1..7 : i \in {1, 2, 3, 4, 5, 6, 7}
  OBVIOUS
<1>3. /\ t[1].validation = "PASS" /\ t[2].validation = "PASS" /\ t[3].validation = "PASS"
      /\ t[4].validation = "PASS" /\ t[5].validation = "PASS" /\ t[6].validation = "PASS"
      /\ t[7].validation = "PASS"
  <2>1. "rules" \in {"rules", "withheld"}
    OBVIOUS
  <2> QED
    BY <1>1, <2>1, Zenon DEF TrailIs
<1>4. \A i \in 1..7 : t[i].validation = "PASS"
  BY <1>2, <1>3
<1>5. \A run \in Range(t) : \E i \in 1..7 : run = t[i]
  BY DEF Range, TrailIs
<1> QED
  BY <1>4, <1>5

\* The run by rules is orderly, passes the gatekeeper and leaks nothing.
LEMMA BaselineIs ==
    ASSUME PacketInv, stage = "done"
    PROVE  /\ Baseline.packet.gatekeeper # "BLOCKED" /\ ~FindOutputSafetyLeaks(Baseline.packet)
           /\ \A x : Orderly(DeriveTrajectory(Baseline.packet, Baseline.trail, x))
<1> DEFINE card == DeterministicThreatCard(ActionOpsScenarios[scenario])
           found == [finding EXCEPT !.card = card]
           heard == Gates!Verify(Replayed(scenario), found.card)
           checked == [found EXCEPT !.checks = heard]
           d == DecisionOn(checked, "accept").recommendation
           acts == d = "ACT"
           o == IF acts THEN "rules" ELSE "withheld"
           runs == <<Run("Sentinel", "rules")>> \o RulesRuns(checked)
                     \o <<Run("Skeptic", "rules"), Run("Strategist", o), Run("Dispatcher", o)>>
           plan == IF acts THEN DeterministicPlaybooks(found.exposures) ELSE {}
           drafts == IF acts THEN DeterministicDrafts(found.exposures, found.simulation) ELSE {}
           p == Assemble(scenario, Replayed(scenario), found, d, plan, drafts, runs)
           e == finding.exposures
<1>1. Baseline = [packet |-> p, trail |-> runs]
  BY Zenon DEF Baseline
<1>2. Baseline.packet = p /\ Baseline.trail = runs
  BY <1>1
<1>3. d \in {"ACT", "NO_ACTION"}
  BY ActsOrRefuses
<1>4. FindingIs /\ scenario \in ScenarioIds /\ finding.atlas = "PASS"
  BY FindingKnown, AtlasPasses DEF FindingIs
<1>5. /\ found.exposures = e /\ found.simulation = finding.simulation
      /\ checked.checks = heard /\ checked.atlas = "PASS"
  <2>1. PICK c : finding = FindingOf(c)
    BY DEF PacketInv
  <2>2. \E c1, c2, c3, c4, c5, c6 :
            finding = [card |-> c1, checks |-> c2, atlas |-> c3, exposures |-> c4,
                       simulation |-> c5, gaps |-> c6]
    BY <2>1, Zenon DEF FindingOf
  <2> HIDE DEF card, heard
  <2> QED
    BY <1>4, <2>2
<1>6. heard.sources > 0
  BY <1>4, ReplayHeard
<1>7. TrailIs(runs, "rules", "rules", "rules", "rules", "rules", o, o)
  <2>1. TrailIs(runs, "rules", IF checked.checks.sources > 0 THEN "rules" ELSE "rejected",
                IF checked.atlas = "FAIL" THEN "rejected" ELSE "rules", "rules", "rules", o, o)
    BY BaselineTrail, Zenon
  <2>2. /\ (IF checked.checks.sources > 0 THEN "rules" ELSE "rejected") = "rules"
        /\ (IF checked.atlas = "FAIL" THEN "rejected" ELSE "rules") = "rules"
    BY <1>5, <1>6
  <2> HIDE DEF runs, checked, o
  <2> QED
    BY <2>1, <2>2
<1>8. o \in {"rules", "withheld"} /\ (o = "withheld" <=> d = "NO_ACTION")
  BY <1>3
<1> HIDE DEF runs, checked, heard, d, o, card
<1>9. \A run \in Range(runs) : run.validation # "FAIL"
  BY <1>7, <1>8, PassingTrail
<1>10. Ids(e) \subseteq Known
  <2>1. Ids(e) = Affected
    BY <1>4, ExposuresMatch
  <2> QED
    BY <2>1 DEF Affected, Known, MatchSuppliers
<1>11. Listed(e)
  BY <1>4, FindingListed
<1>12. drafts \subseteq DeterministicDrafts(e, finding.simulation)
       /\ (plan = {} \/ plan = DeterministicPlaybooks(e))
  BY <1>5
<1> HIDE DEF found, plan, drafts
<1>13. Discreet(DeterministicDrafts(e, finding.simulation), e)
  BY <1>11, RulesDraftsDiscreet
<1>14. \A m \in drafts : /\ m.supplier \in Ids(e)
                         /\ FindLinks(m.subject) = {} /\ FindLinks(m.body) = {}
  <2>1. TopExposed(e) \subseteq Ids(e)
    <3>1. PICK n \in Nat : /\ DOMAIN e = 1..n /\ e = [i \in 1..n |-> e[i]]
                           /\ \A i, j \in 1..n : e[i].supplier = e[j].supplier => i = j
      BY <1>11 DEF Listed
    <3> HIDE DEF e
    <3> QED
      BY <3>1, TopExposedIs
  <2>2. \A m \in drafts : m.supplier \in TopExposed(e)
    BY <1>12, <1>13 DEF Discreet, Recipients
  <2> QED
    BY <1>12, <1>13, <2>1, <2>2 DEF Discreet
<1>15. /\ p.exposures = e /\ p.simulation = finding.simulation /\ p.recommendation = d
       /\ p.playbooks = plan /\ p.messages = drafts
       /\ p.items = {} \/ p.items = ActionItems(e)
  <2> HIDE DEF p
  <2>1. /\ p.exposures = found.exposures /\ p.simulation = found.simulation /\ p.recommendation = d
        /\ p.playbooks = plan /\ p.messages = drafts
        /\ p.items = (IF d = "ACT" THEN ActionItems(found.exposures) ELSE {})
    BY PacketPartsAre DEF p
  <2> QED
    BY <1>5, <2>1
<1> HIDE DEF p
<1>16. CollectCitationFailures(p) = {}
  <2>1. p.simulation # None => \E k \in Nat : DOMAIN p.simulation.horizons = 1..k /\ k > 0
    <3>1. ASSUME finding.simulation # None
          PROVE  \E k \in Nat : DOMAIN finding.simulation.horizons = 1..k /\ k > 0
      <4> DEFINE params == Sc.simulation
                 n == Len(e)
      <4>1. /\ params \in {Hormuz.simulation, RedSea.simulation, Hurricane.simulation}
            /\ n \in Nat /\ finding.simulation = RecomputeSimulation(params, n)
        BY <1>4, <3>1, SimulationIs
      <4>0. PICK cover : Lasts(params, cover)
        BY <1>4, <3>1, SimulationIs
      <4> HIDE DEF params, n
      <4>2. 1 \in DOMAIN params.horizonDays
        <5>1. /\ Hormuz.simulation = Runway(30, <<7, 30, 90>>, 10000, 1000, 40, 34)
              /\ RedSea.simulation = Runway(60, <<7, 30, 90>>, 8000, 900, 30, 42)
              /\ Hurricane.simulation = Runway(14, <<7, 30>>, 25000, 300, 30, 46)
          BY DEF Hormuz, RedSea, Hurricane, Scenario
        <5>2. /\ Runway(30, <<7, 30, 90>>, 10000, 1000, 40, 34).horizonDays = <<7, 30, 90>>
              /\ Runway(60, <<7, 30, 90>>, 8000, 900, 30, 42).horizonDays = <<7, 30, 90>>
              /\ Runway(14, <<7, 30>>, 25000, 300, 30, 46).horizonDays = <<7, 30>>
          BY DEF Runway
        <5>3. /\ Hormuz.simulation.horizonDays = <<7, 30, 90>>
              /\ RedSea.simulation.horizonDays = <<7, 30, 90>>
              /\ Hurricane.simulation.horizonDays = <<7, 30>>
          BY <5>1, <5>2
        <5>4. params.horizonDays \in {<<7, 30, 90>>, <<7, 30>>}
          BY <4>1, <5>3
        <5>5. 1 \in DOMAIN <<7, 30, 90>> /\ 1 \in DOMAIN <<7, 30>>
          OBVIOUS
        <5> QED
          BY <5>4, <5>5, Zenon
      <4>3. /\ DOMAIN finding.simulation.horizons = DOMAIN params.horizonDays
            /\ \E k \in Nat : DOMAIN finding.simulation.horizons = 1..k
        <5> DEFINE r == RecomputeSimulation(params, n)
        <5>1. /\ DOMAIN r.horizons = DOMAIN params.horizonDays
              /\ \E k \in Nat : DOMAIN r.horizons = 1..k
          BY <4>1, <4>0, RecomputeIs
        <5> HIDE DEF r
        <5> QED
          BY <4>1, <5>1 DEF r
      <4> QED
        BY <4>2, <4>3
    <3> QED
      BY <1>15, <3>1
  <2>2. p.messages \subseteq DeterministicDrafts(p.exposures, p.simulation)
    BY <1>12, <1>15
  <2> QED
    BY <2>1, <2>2, RulesDraftsCited
<1>17. p.gatekeeper # "BLOCKED"
  BY <1>5, <1>9, <1>10, <1>14, <1>16, NothingBroken DEF p
<1>18. GradeCitationCoverage(p)
  <2>1. CollectPlaybookNumeralFailures(plan) = {}
    <3>1. PlanIs(DeterministicPlaybooks(e), e)
      BY RulesPlanIs
    <3>2. CollectPlaybookNumeralFailures({}) = {}
      BY DEF CollectPlaybookNumeralFailures
    <3> QED
      BY <1>12, <3>1, <3>2 DEF PlanIs
  <2> QED
    BY <1>15, <1>16, <2>1 DEF GradeCitationCoverage
<1>19. CleanWords(p)
  <2>1. \A m \in DeterministicDrafts(e, finding.simulation) : ~m.subject.raw /\ ~m.body.raw
    BY DEF DeterministicDrafts, Prose
  <2>2. \A q \in DeterministicPlaybooks(e) : q.summary = Prose /\ q.steps = {Prose}
    BY DEF DeterministicPlaybooks
  <2>3. ~Prose.raw /\ FindLinks(Prose) = {}
    BY DEF Prose, FindLinks
  <2> QED
    BY <1>12, <1>15, <2>1, <2>2, <2>3 DEF CleanWords
<1>20. ~FindOutputSafetyLeaks(p)
  <2>1. \A i \in p.items : i.title = Prose
    BY <1>15 DEF ActionItems
  <2>2. \A m \in p.messages : FindLinks(m.subject) = {} /\ FindLinks(m.body) = {}
    BY <1>14, <1>15
  <2>3. \A run \in p.runs : run.summary = Prose
    <3>1. p.runs = Range(runs)
      BY PacketPartsAre DEF p
    <3> QED
      BY <1>7, <1>9, <3>1, PassingQuotesNothing
  <2> QED
    BY <1>18, <1>19, <2>1, <2>2, <2>3, LeaksAre
<1>21. \A x : Orderly(DeriveTrajectory(p, runs, x))
  BY <1>7, <1>8, <1>15, OrderlyTrail
<1> QED
  BY <1>2, <1>17, <1>20, <1>21, Zenon

\* A finished run's trajectory is orderly too.
LEMMA RunIsOrderly ==
    ASSUME PacketInv, stage = "done", NEW x
    PROVE  Orderly(DeriveTrajectory(packet, trail, x))
<1>1. DoneKnown
  BY DEF PacketInv
<1>2. \A d : PacketIs(d) => packet.recommendation = d
  BY PacketPartsAre DEF PacketIs
<1>3. PICK o \in Outcomes, q \in Outcomes :
        \/ PacketIs("NO_ACTION") /\ trail = PastDispatcher(o, q, "withheld", "withheld")
        \/ PacketIs("ACT") /\ \E r, t \in Outcomes : trail = PastDispatcher(o, q, r, t)
  BY <1>1, Zenon DEF DoneKnown
<1>4. "withheld" \notin Outcomes
  BY DEF Outcomes
<1>5. PICK r, t : /\ trail = PastDispatcher(o, q, r, t)
                  /\ r = "withheld" <=> packet.recommendation = "NO_ACTION"
                  /\ t = "withheld" <=> packet.recommendation = "NO_ACTION"
  <2>1. CASE PacketIs("NO_ACTION") /\ trail = PastDispatcher(o, q, "withheld", "withheld")
    BY <1>2, <2>1
  <2>2. CASE PacketIs("ACT") /\ \E r, t \in Outcomes : trail = PastDispatcher(o, q, r, t)
    <3>1. PICK r \in Outcomes, t \in Outcomes : trail = PastDispatcher(o, q, r, t)
      BY <2>2
    <3>2. packet.recommendation = "ACT"
      BY <1>2, <2>2
    <3> QED
      BY <1>4, <3>1, <3>2
  <2> QED
    BY <1>3, <2>1, <2>2
<1>6. TrailIs(trail, o, IF finding.checks.sources > 0 THEN "rules" ELSE "rejected",
              IF finding.atlas = "FAIL" THEN "rejected" ELSE "rules", "rules", q, r, t)
  BY <1>5, PastIsTrail
<1> QED
  BY <1>5, <1>6, OrderlyTrail

\* What is not held leaks only where the gatekeeper does not read.
LEMMA ClearedLeaks ==
    ASSUME PacketInv, stage = "done", packet.gatekeeper # "BLOCKED"
    PROVE  FindOutputSafetyLeaks(packet) <=> ~CleanWords(packet)
<1>1. Packed /\ FindingIs /\ Cleared
  BY PackedKnown, ClearedKnown DEF Done
<1>2. packet.playbooks = playbooks /\ packet.messages = messages
  BY <1>1 DEF Packed
<1>3. Discreet(messages, finding.exposures) \/ messages = {}
  BY <1>1, DraftsAreDiscreet DEF Packed, Acted, Refused
<1>4. CollectPlaybookNumeralFailures(playbooks) = {}
  <2>1. CASE playbooks = {}
    BY <2>1 DEF CollectPlaybookNumeralFailures
  <2>2. CASE PlanKnown
    BY <2>2, PlansAre DEF PlanIs
  <2> QED
    BY <1>1, <2>1, <2>2 DEF Packed, Acted, Refused
<1>5. GradeCitationCoverage(packet)
  BY <1>1, <1>2, <1>4 DEF GradeCitationCoverage, Cleared
<1>6. \A i \in packet.items : i.title = Prose
  <2>1. \A i \in ActionItems(finding.exposures) : i.title = Prose
    BY DEF ActionItems
  <2>2. packet.items = {} \/ packet.items = ActionItems(finding.exposures)
    BY <1>1 DEF Packed
  <2> QED
    BY <2>1, <2>2
<1>7. \A m \in packet.messages : FindLinks(m.subject) = {} /\ FindLinks(m.body) = {}
  BY <1>2, <1>3 DEF Discreet
<1>8. \A run \in packet.runs : run.summary = Prose
  <2>1. PICK d : PacketIs(d)
    BY DEF PacketInv, DoneKnown
  <2>2. packet.runs = Range(trail) /\ \A run \in Range(trail) : run.validation # "FAIL"
    BY <2>1, PacketPartsAre, GatekeeperReads DEF PacketIs
  <2>3. PICK o, q, r, t : trail = PastDispatcher(o, q, r, t)
    BY DEF PacketInv, DoneKnown
  <2> QED
    BY <2>2, <2>3, PastIsTrail, PassingQuotesNothing
<1> QED
  BY <1>5, <1>6, <1>7, <1>8, LeaksAre

\* A run is promoted over the run by rules exactly when it is not held, decides as that
\* one does and writes no untrusted word or link (PromotionIsSafe): the two trajectories
\* take the same steps, so the criteria weigh nothing but the outcome.
THEOREM PromotionIsSafeAlways == Spec => []PromotionIsSafe
<1>1. PacketInv => PromotionIsSafe
  <2> SUFFICES ASSUME PacketInv, stage = "done" PROVE PromotionIsSafe
    BY Zenon DEF PromotionIsSafe, Done
  <2> DEFINE base == Baseline.packet
             expected == base.recommendation
             new == DeriveTrajectory(packet, trail, expected)
             old == DeriveTrajectory(base, Baseline.trail, expected)
             held == packet.gatekeeper = "BLOCKED"
             leaks == FindOutputSafetyLeaks(packet)
  <2>1. Orderly(new) /\ Orderly(old)
    BY RunIsOrderly, BaselineIs, Zenon
  <2>2. base.gatekeeper # "BLOCKED" /\ ~FindOutputSafetyLeaks(base)
    BY BaselineIs, Zenon
  <2>3. /\ new.blocked = (held \/ leaks)
        /\ new.decisionCorrect = (packet.recommendation = expected)
        /\ old.blocked = (base.gatekeeper = "BLOCKED" \/ FindOutputSafetyLeaks(base))
        /\ old.decisionCorrect = (base.recommendation = expected)
    BY DEF DeriveTrajectory
  <2> HIDE DEF new, old, base
  <2>4. /\ ~old.blocked /\ old.decisionCorrect
        /\ new.blocked \in BOOLEAN /\ new.decisionCorrect \in BOOLEAN
    BY <2>2, <2>3
  <2>5. CompareTrajectories(old, new) <=> ~new.blocked /\ new.decisionCorrect
    BY <2>1, <2>4, OutcomeDecides, Zenon
  <2>6. ~held => (leaks <=> ~CleanWords(packet))
    BY ClearedLeaks
  <2>7. CompareTrajectories(old, new) <=> ~held /\ packet.recommendation = expected /\ CleanWords(packet)
    BY <2>3, <2>5, <2>6
  <2> QED
    BY <2>7, Zenon DEF PromotionIsSafe, CleanWords, new, old, base
<1> QED
  BY <1>1, PacketInvAlways, PTL
=============================================================================
