----------------------------- MODULE CustomsPolicy -----------------------------
(***************************************************************************)
(* The customs desk's policy table, the penalty-exposure calculator and    *)
(* the deadline clocks (lib/agents/customsdesk/{policy-table,              *)
(* penalty-exposure,deadline-clocks}.ts).  Amounts are cents, dates are    *)
(* day numbers.                                                            *)
(***************************************************************************)
EXTENDS Integers

Culpability == {"FRAUD", "GROSS_NEGLIGENCE", "NEGLIGENCE"}
LossType == {"DUTY_LOSS", "NON_DUTY_LOSS"}
Icp == "ICP-1592 F(2)"
IcpDisclosure == "ICP-1592 (f)"

\* The disposition table: hundredths of the loss of revenue, or ten-thousandths
\* of the dutiable value.
LowestOf == [FRAUD |-> [DUTY_LOSS |-> 500, NON_DUTY_LOSS |-> 5000],
             GROSS_NEGLIGENCE |-> [DUTY_LOSS |-> 250, NON_DUTY_LOSS |-> 2500],
             NEGLIGENCE |-> [DUTY_LOSS |-> 50, NON_DUTY_LOSS |-> 500]]
HighestOf == [FRAUD |-> [DUTY_LOSS |-> 800, NON_DUTY_LOSS |-> 8000],
              GROSS_NEGLIGENCE |-> [DUTY_LOSS |-> 400, NON_DUTY_LOSS |-> 4000],
              NEGLIGENCE |-> [DUTY_LOSS |-> 200, NON_DUTY_LOSS |-> 2000]]
\* What a claimed factor is, in the ICP's vocabulary: one outside it is refused.
Factors == {"KNOWN", "UNKNOWN"}

\* Math.round of a / b, for naturals.
RoundDiv(a, b) == (2 * a + b) \div (2 * b)
AtMost(a, b) == IF a > b THEN b ELSE a
AtLeast(a, b) == IF a < b THEN b ELSE a

NoInterest == [rate |-> -1, days |-> -1]
TotalLoss(case) == case.actual + case.potential

\* Every throw of computePenaltyExposure.
OwesInterest(case) ==
    /\ case.disclosed /\ case.culpability # "FRAUD"
    /\ case.loss = "DUTY_LOSS" /\ case.actual # 0

Refused(case) ==
    \/ \E amount \in {case.actual, case.potential, case.dutiable, case.domestic} : amount < 0
    \/ "UNKNOWN" \in case.factors
    \/ /\ OwesInterest(case)
       /\ \/ case.interest = NoInterest
          \/ case.interest.rate < 0 \/ case.interest.rate > 100 \/ case.interest.days < 0

\* What one end of the table's range comes to.
Disposition(case, share) ==
    IF case.loss = "DUTY_LOSS" THEN RoundDiv(TotalLoss(case) * share, 100)
                               ELSE RoundDiv(case.dutiable * share, 10000)

\* (mutant) only the top of the range is capped
CaughtCappedAtTop(case) ==
    LET low == Disposition(case, LowestOf[case.culpability][case.loss])
        high == Disposition(case, HighestOf[case.culpability][case.loss])
    IN  [min |-> low, max |-> AtMost(high, case.domestic),
         capped |-> high > case.domestic, citation |-> Icp]

Caught(case) ==
    LET low == Disposition(case, LowestOf[case.culpability][case.loss])
        high == Disposition(case, HighestOf[case.culpability][case.loss])
    IN  [min |-> AtMost(low, case.domestic), max |-> AtMost(high, case.domestic),
         capped |-> high > case.domestic, citation |-> Icp]

\* A valid prior disclosure: one amount, never capped at the domestic value.
DisclosedAmount(case) ==
    CASE case.culpability = "FRAUD" /\ case.loss = "DUTY_LOSS" -> TotalLoss(case)
      [] case.culpability = "FRAUD" /\ case.loss = "NON_DUTY_LOSS" ->
            RoundDiv(case.dutiable * 1000, 10000)
      [] OwesInterest(case) ->
            RoundDiv(case.actual * case.interest.rate * case.interest.days, 36500)
      [] OTHER -> 0

Disclosed(case) ==
    [min |-> DisclosedAmount(case), max |-> DisclosedAmount(case),
     capped |-> FALSE, citation |-> IcpDisclosure]

Exposure(case) == IF case.disclosed THEN Disclosed(case) ELSE Caught(case)

\* EO 14411: directed, not codified.  The directive counts only where a scenario
\* asks for it, and an enjoined or withdrawn one contributes nothing.
DefaultFloor == 50
Scenarios == {"NOT_ASKED", "WITHDRAWN", "ENJOINED", "DEFAULT", "SOFTENED"}
DirectedFloor(scenario, softened) ==
    CASE scenario \in {"WITHDRAWN", "ENJOINED", "NOT_ASKED"} -> {}
      [] scenario = "SOFTENED" -> {softened}
      [] OTHER -> {DefaultFloor}

ScenarioMin(case, scenario, softened) ==
    {AtLeast(Exposure(case).min, RoundDiv(Exposure(case).max * floor, 100)) :
        floor \in DirectedFloor(scenario, softened)}

-----------------------------------------------------------------------------
(* The deadline clocks.                                                    *)

WindowDays == [PREPENALTY_RESPONSE |-> 30, PENALTY_PETITION |-> 60, CF28_RESPONSE |-> 30]

Clock(kind, mailed) ==
    [kind |-> kind, mailed |-> mailed, due |-> mailed + WindowDays[kind],
     days |-> WindowDays[kind]]
=============================================================================
