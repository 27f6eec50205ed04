--------------------------- MODULE CounselDeskProofs ---------------------------
(***************************************************************************)
(* What may leave the customs desk, what its cases come to, and what its   *)
(* Skeptic makes of them, for any docket, any names and any bounds.        *)
(*                                                                         *)
(* The clause about what left is not inductive: an export is made of a     *)
(* gate that was mounted pages ago, by a decision taken since.  DeskInv    *)
(* says what the gate carries from its mounting to its door, and that what *)
(* waits for the clipboard has already passed it.                          *)
(*                                                                         *)
(* The clauses about a case are about the case alone, whoever looks at it: *)
(* each is a lemma about any case that the generator makes (Generated) or  *)
(* about any scope of its lines, and the page only ever shows a case of    *)
(* the docket (ShownIsOnDocket).                                           *)
(***************************************************************************)
EXTENDS CounselDesk, FiniteSetTheorems, SequenceTheorems, WellFoundedInduction, TLAPS

Proceeds(case) == Result[case].disposition = "PROCEED"

\* What ExportsWereSigned asks of one artifact.
Signed(artifact) ==
    /\ Proceeds(artifact.packet)
    /\ artifact.by # Blank /\ artifact \in signed
    /\ Unparseable(artifact.by.numerals) = {}
    /\ Figures(artifact.by.numerals) \subseteq {f.value : f \in Cited(artifact.packet)}

\* A mounted gate is for a packet that may proceed, and so is the page it is on:
\* a reset of the gate takes the page's packet.
GateProceeds == gate # None => Proceeds(gate.packet) /\ Proceeds(shown)

\* An approval in the gate is a click on the text of the gate's own packet.
ApprovalIsSigned ==
    gate # None /\ gate.approval.state = "APPROVED_FOR_EXPORT" =>
        Artifact(gate) \in signed

GateShape == gate # None => gate = [packet |-> gate.packet, approval |-> gate.approval]

DeskInv ==
    /\ GateShape /\ GateProceeds /\ ApprovalIsSigned
    /\ \A artifact \in copying : Signed(artifact)
    /\ exported \in Seq(signed)
    /\ \A i \in 1..Len(exported) : Signed(exported[i])

\* The bar on the artifact's numerals covers the reviewer's line.
LEMMA LineIsCited ==
    ASSUME NEW numerals, NEW line, NEW cited,
           CitationsCover(numerals \cup line, cited)
    PROVE  /\ Unparseable(line) = {}
           /\ Figures(line) \subseteq {c.value : c \in cited}
<1>1. /\ Unparseable(numerals \cup line) = {}
      /\ Figures(numerals \cup line) \subseteq {c.value : c \in cited}
  BY DEF CitationsCover, Extract
<1>2. Unparseable(line) \subseteq Unparseable(numerals \cup line)
  BY DEF Unparseable
<1>3. Figures(line) \subseteq Figures(numerals \cup line)
  BY DEF Figures
<1> QED
  BY <1>1, <1>2, <1>3

\* What comes out of the door is signed, and cited to the reviewer's line.
LEMMA DoorIsGuarded ==
    ASSUME DeskInv, gate # None, DoorOpens(gate)
    PROVE  Signed(Artifact(gate))
<1>1. Artifact(gate).packet = gate.packet /\ Artifact(gate).by = gate.approval.by
  BY DEF Artifact
<1>2. /\ Unparseable(gate.approval.by.numerals) = {}
      /\ Figures(gate.approval.by.numerals) \subseteq {f.value : f \in Cited(gate.packet)}
  <2> DEFINE numerals == Text[gate.packet].numerals
             cited == Cited(gate.packet)
             line == gate.approval.by.numerals
  <2>1. CitationsCover(numerals \cup line, cited)
    BY DEF DoorOpens
  <2> HIDE DEF numerals, cited, line
  <2>2. Unparseable(line) = {} /\ Figures(line) \subseteq {c.value : c \in cited}
    BY <2>1, LineIsCited
  <2> QED
    BY <2>2 DEF cited, line
<1> QED
  BY <1>1, <1>2 DEF DeskInv, GateProceeds, ApprovalIsSigned, DoorOpens, Signed

\* Signatures are only added, so that an artifact stays signed.
LEMMA SignedStays ==
    ASSUME signed \subseteq signed', NEW artifact, Signed(artifact)
    PROVE  Signed(artifact)'
BY DEF Signed, Proceeds

LEMMA DeskInit == Init => DeskInv
BY DEF Init, DeskInv, GateShape, GateProceeds, ApprovalIsSigned

\* A gate that is mounted fresh is for the page's packet and undecided.
LEMMA FreshGate ==
    ASSUME NEW case, Proceeds(case), gate' = IntoReview(case), shown' = case
    PROVE  GateShape' /\ GateProceeds' /\ ApprovalIsSigned'
<1>1. gate'.packet = case /\ gate'.approval.state = "PENDING_COUNSEL_REVIEW"
  BY DEF IntoReview, Pending
<1> QED
  BY <1>1 DEF GateShape, GateProceeds, ApprovalIsSigned, Proceeds, IntoReview

\* A signed artifact leaves; what waits afterwards waited before.
LEMMA Left ==
    ASSUME DeskInv, NEW artifact, Signed(artifact),
           exported' = Append(exported, artifact),
           UNCHANGED <<shown, gate, signed>>, copying' \subseteq copying
    PROVE  DeskInv'
<1> USE DEF DeskInv
<1>1. GateShape' /\ GateProceeds' /\ ApprovalIsSigned'
  BY DEF GateShape, GateProceeds, ApprovalIsSigned, Proceeds, Artifact
<1>2. artifact \in signed /\ Signed(artifact)'
  BY SignedStays DEF Signed
<1>3. exported' \in Seq(signed')
  BY <1>2
<1>4. ASSUME NEW i \in 1..Len(exported') PROVE Signed(exported[i])'
  <2>1. PICK a : a = exported'[i]
    OBVIOUS
  <2>2. a = artifact \/ \E k \in 1..Len(exported) : a = exported[k]
    BY <2>1
  <2>3. Signed(a)
    BY <2>2
  <2>4. Signed(a)'
    BY <2>3, SignedStays
  <2> QED
    BY <2>1, <2>4 DEF Signed, Proceeds
<1>5. \A a \in copying' : Signed(a)'
  BY SignedStays
<1> QED
  BY <1>1, <1>3, <1>4, <1>5 DEF Signed, Proceeds

LEMMA DeskStep == DeskInv /\ [Next]_vars => DeskInv'
<1> SUFFICES ASSUME DeskInv, [Next]_vars PROVE DeskInv'
  OBVIOUS
<1> USE DEF DeskInv
\* What waits and what has left stays as it was where neither changes.
<1>0. ASSUME UNCHANGED <<copying, exported>>, signed \subseteq signed',
             GateShape', GateProceeds', ApprovalIsSigned'
      PROVE  DeskInv'
  <2>1. exported \in Seq(signed')
    BY <1>0
  <2>2. \A artifact \in copying : Signed(artifact)'
    BY <1>0, SignedStays
  <2>3. \A i \in 1..Len(exported) : Signed(exported[i])'
    BY <1>0, SignedStays
  <2> QED
    BY <1>0, <2>1, <2>2, <2>3 DEF Signed, Proceeds
\* A step that leaves the gate alone, and its page.
<1>a. ASSUME UNCHANGED <<shown, gate, copying, exported>>, signed \subseteq signed'
       PROVE  DeskInv'
  <2>1. GateShape' /\ GateProceeds' /\ ApprovalIsSigned'
    BY <1>a DEF GateShape, GateProceeds, ApprovalIsSigned, Proceeds, Artifact
  <2> QED
    BY <1>a, <1>0, <2>1
<1>1. ASSUME NEW case, Open(case) PROVE DeskInv'
  <2>1. UNCHANGED <<copying, signed, exported>> /\ shown' = case /\ Mount(case)
    BY <1>1 DEF Open
  <2>2. CASE Unmounted
    BY <2>1, <2>2, <1>0 DEF Unmounted, GateShape, GateProceeds, ApprovalIsSigned
  <2>3. CASE Proceeds(case) /\ gate' = IntoReview(case)
    BY <2>1, <2>3, <1>0, FreshGate
  <2>4. CASE Proceeds(case) /\ gate # None /\ UNCHANGED gate
    <3>1. GateShape' /\ GateProceeds' /\ ApprovalIsSigned'
      BY <2>1, <2>4 DEF GateShape, GateProceeds, ApprovalIsSigned, Proceeds, Artifact
    <3> QED
      BY <2>1, <3>1, <1>0
  <2> QED
    BY <2>1, <2>2, <2>3, <2>4 DEF Mount, Proceeds
<1>2. ASSUME NEW name, TypeName(name) PROVE DeskInv'
  BY <1>2, <1>a DEF TypeName
<1>3. CASE Leave
  BY <1>3, <1>0 DEF Leave, Unmounted, GateShape, GateProceeds, ApprovalIsSigned
<1>4. CASE TypeNote
  BY <1>4, <1>a DEF TypeNote
<1>5. CASE Approve
  <2>1. gate' = [gate EXCEPT !.approval = Decided("APPROVED_FOR_EXPORT", gate.packet)]
    BY <1>5 DEF Approve
  <2>2. signed' = signed \cup {[packet |-> gate.packet, by |-> reviewer]}
    BY <1>5 DEF Approve
  <2>3. gate'.packet = gate.packet /\ gate'.approval.by = reviewer
    BY <1>5, <2>1 DEF IsPending, Approve, GateShape, Decided
  <2>4. GateShape' /\ GateProceeds'
    BY <1>5, <2>1, <2>3 DEF IsPending, Approve, GateShape, GateProceeds, Proceeds
  <2>5. ApprovalIsSigned'
    BY <2>2, <2>3 DEF ApprovalIsSigned, Artifact
  <2> QED
    BY <1>5, <1>0, <2>2, <2>4, <2>5 DEF Approve
<1>6. CASE Reject
  <2>1. gate' = [gate EXCEPT !.approval = Decided("REJECTED", None)]
    BY <1>6 DEF Reject
  <2>2. gate'.packet = gate.packet /\ gate'.approval.state = "REJECTED"
    BY <1>6, <2>1 DEF IsPending, Reject, GateShape, Decided
  <2>3. GateShape' /\ GateProceeds' /\ ApprovalIsSigned'
    BY <1>6, <2>1, <2>2
       DEF IsPending, Reject, GateShape, GateProceeds, Proceeds, ApprovalIsSigned
  <2> QED
    BY <1>6, <1>0, <2>3 DEF Reject
<1>7. CASE Reset
  <2>1. PICK case : case = shown
    OBVIOUS
  <2>2. Proceeds(case) /\ gate' = IntoReview(case) /\ shown' = case
    BY <1>7, <2>1 DEF Reset, GateProceeds
  <2>3. GateShape' /\ GateProceeds' /\ ApprovalIsSigned'
    BY <2>2, FreshGate
  <2> QED
    BY <1>7, <1>0, <2>3 DEF Reset
<1>8. CASE Download
  <2>1. gate # None /\ DoorOpens(gate) /\ exported' = Append(exported, Artifact(gate))
        /\ UNCHANGED <<shown, gate, copying, signed>>
    BY <1>8 DEF Download
  <2>2. PICK artifact : artifact = Artifact(gate)
    OBVIOUS
  <2>3. Signed(artifact) /\ exported' = Append(exported, artifact)
    BY <2>1, <2>2, DoorIsGuarded
  <2> QED
    BY <2>1, <2>3, Left
<1>9. CASE Copy
  <2>1. /\ gate # None /\ DoorOpens(gate) /\ copying' = {Artifact(gate)}
        /\ UNCHANGED <<shown, gate, signed, exported>>
    BY <1>9 DEF Copy
  <2>2. PICK artifact : artifact = Artifact(gate)
    OBVIOUS
  <2>3. Signed(artifact)'
    BY <2>1, <2>2, DoorIsGuarded, SignedStays
  <2>4. \A i \in 1..Len(exported) : Signed(exported[i])'
    BY <2>1, SignedStays
  <2>5. GateShape' /\ GateProceeds' /\ ApprovalIsSigned'
    BY <2>1 DEF GateShape, GateProceeds, ApprovalIsSigned, Proceeds, Artifact
  <2> QED
    BY <2>1, <2>2, <2>3, <2>4, <2>5
<1>10. CASE ClipboardWrites
  <2>1. PICK artifact \in copying : exported' = Append(exported, artifact)
    BY <1>10 DEF ClipboardWrites
  <2>2. UNCHANGED <<shown, gate, signed>> /\ copying' = {}
    BY <1>10 DEF ClipboardWrites
  <2> QED
    BY <2>1, <2>2, Left
<1>11. CASE ClipboardBlocked
  <2>1. UNCHANGED <<shown, gate, signed, exported>> /\ copying' = {}
    BY <1>11 DEF ClipboardBlocked
  <2>2. \A i \in 1..Len(exported) : Signed(exported[i])'
    BY <2>1, SignedStays
  <2>3. GateShape' /\ GateProceeds' /\ ApprovalIsSigned'
    BY <2>1 DEF GateShape, GateProceeds, ApprovalIsSigned, Proceeds, Artifact
  <2> QED
    BY <2>1, <2>2, <2>3
<1>12. CASE UNCHANGED vars
  BY <1>12, <1>a DEF vars
<1> QED
  BY <1>1, <1>2, <1>3, <1>4, <1>5, <1>6, <1>7, <1>8, <1>9, <1>10, <1>11, <1>12 DEF Next

\* Whatever leaves the desk is a packet that may proceed, approved by a named
\* reviewer's click on that packet, and its numerals are cited to the reviewer's
\* line, for every docket, through changes of case, restarts of the review and a
\* clipboard that settles late (counsel-gate.ts, counsel-gate.tsx).
THEOREM ExportsAlwaysSigned == Spec => []ExportsWereSigned
<1>1. Init => DeskInv
  BY DeskInit
<1>2. DeskInv /\ [Next]_vars => DeskInv'
  BY DeskStep
<1>3. DeskInv => ExportsWereSigned
  BY DEF DeskInv, ExportsWereSigned, Signed, Proceeds
<1> QED
  BY <1>1, <1>2, <1>3, PTL DEF Spec

-----------------------------------------------------------------------------
(* The penalties.                                                          *)

\* Rounding keeps the order of amounts, and the divisors of the calculator.
LEMMA Rounding ==
    ASSUME NEW a \in Nat, NEW b \in Nat, a <= b
    PROVE  /\ RoundDiv(a, 100) \in Nat /\ RoundDiv(a, 100) <= RoundDiv(b, 100)
           /\ RoundDiv(a, 10000) \in Nat /\ RoundDiv(a, 10000) <= RoundDiv(b, 10000)
           /\ RoundDiv(100 * a, 100) = a
<1>1. RoundDiv(a, 100) \in Nat /\ RoundDiv(a, 100) <= RoundDiv(b, 100)
  BY DEF RoundDiv
<1>2. RoundDiv(a, 10000) \in Nat /\ RoundDiv(a, 10000) <= RoundDiv(b, 10000)
  BY DEF RoundDiv
<1>3. RoundDiv(100 * a, 100) = a
  BY DEF RoundDiv
<1> QED
  BY <1>1, <1>2, <1>3

\* The ranges of the table are ranges.
LEMMA RangesAreOrdered ==
    ASSUME NEW c \in Culpability, NEW l \in LossType, NEW amount \in Nat
    PROVE  /\ amount * LowestOf[c][l] \in Nat /\ amount * HighestOf[c][l] \in Nat
           /\ amount * LowestOf[c][l] <= amount * HighestOf[c][l]
<1>1. CASE c = "FRAUD" /\ l = "DUTY_LOSS"
  BY <1>1 DEF LowestOf, HighestOf
<1>2. CASE c = "FRAUD" /\ l = "NON_DUTY_LOSS"
  BY <1>2 DEF LowestOf, HighestOf
<1>3. CASE c = "GROSS_NEGLIGENCE" /\ l = "DUTY_LOSS"
  BY <1>3 DEF LowestOf, HighestOf
<1>4. CASE c = "GROSS_NEGLIGENCE" /\ l = "NON_DUTY_LOSS"
  BY <1>4 DEF LowestOf, HighestOf
<1>5. CASE c = "NEGLIGENCE" /\ l = "DUTY_LOSS"
  BY <1>5 DEF LowestOf, HighestOf
<1>6. CASE c = "NEGLIGENCE" /\ l = "NON_DUTY_LOSS"
  BY <1>6 DEF LowestOf, HighestOf
<1> QED
  BY <1>1, <1>2, <1>3, <1>4, <1>5, <1>6 DEF Culpability, LossType

\* A case that was not disclosed.
Undisclosed(case) ==
    /\ case.culpability \in Culpability /\ case.loss \in LossType
    /\ TotalLoss(case) \in Nat /\ case.dutiable \in Nat /\ case.domestic \in Nat
    /\ case.disclosed = FALSE

LEMMA CaughtIsBounded ==
    ASSUME NEW case, Undisclosed(case)
    PROVE  /\ Exposure(case).min \in Nat /\ Exposure(case).max \in Nat
           /\ Exposure(case).min <= Exposure(case).max /\ Exposure(case).max <= case.domestic
<1> PICK c \in Culpability, l \in LossType, total \in Nat, dutiable \in Nat, domestic \in Nat :
         /\ case.culpability = c /\ case.loss = l /\ TotalLoss(case) = total
         /\ case.dutiable = dutiable /\ case.domestic = domestic
  BY DEF Undisclosed
<1> DEFINE low == Disposition(case, LowestOf[c][l])
           high == Disposition(case, HighestOf[c][l])
<1>1. low \in Nat /\ high \in Nat /\ low <= high
  <2>1. \A a, b \in Nat : a <= b =>
           /\ RoundDiv(a, 100) \in Nat /\ RoundDiv(b, 100) \in Nat
           /\ RoundDiv(a, 100) <= RoundDiv(b, 100)
           /\ RoundDiv(a, 10000) \in Nat /\ RoundDiv(b, 10000) \in Nat
           /\ RoundDiv(a, 10000) <= RoundDiv(b, 10000)
    <3> TAKE a, b \in Nat
    <3> HAVE a <= b
    <3>1. RoundDiv(b, 100) \in Nat /\ RoundDiv(b, 10000) \in Nat
      BY Rounding
    <3> QED
      BY <3>1, Rounding
  <2>2. CASE l = "DUTY_LOSS"
    <3> DEFINE a == total * LowestOf[c][l]
               b == total * HighestOf[c][l]
    <3>1. a \in Nat /\ b \in Nat /\ a <= b
      BY RangesAreOrdered
    <3>2. low = RoundDiv(a, 100) /\ high = RoundDiv(b, 100)
      BY <2>2 DEF Disposition
    <3> HIDE DEF a, b
    <3> QED
      BY <2>1, <3>1, <3>2
  <2>3. CASE l # "DUTY_LOSS"
    <3> DEFINE a == dutiable * LowestOf[c][l]
               b == dutiable * HighestOf[c][l]
    <3>1. a \in Nat /\ b \in Nat /\ a <= b
      BY RangesAreOrdered
    <3>2. low = RoundDiv(a, 10000) /\ high = RoundDiv(b, 10000)
      BY <2>3 DEF Disposition
    <3> HIDE DEF a, b
    <3> QED
      BY <2>1, <3>1, <3>2
  <2> QED
    BY <2>2, <2>3
<1>2. Exposure(case).min = AtMost(low, domestic) /\ Exposure(case).max = AtMost(high, domestic)
  BY DEF Exposure, Caught, Undisclosed
<1> HIDE DEF low, high
<1> QED
  BY <1>1, <1>2 DEF AtMost

\* A floor that is asked for lies in the range.
LEMMA FloorIsInRange ==
    ASSUME NEW case, Undisclosed(case), NEW s \in Scenarios, NEW floor \in ScenarioMin(case, s, 30)
    PROVE  Exposure(case).min <= floor /\ floor <= Exposure(case).max
<1> PICK low \in Nat, high \in Nat :
         Exposure(case).min = low /\ Exposure(case).max = high /\ low <= high
  BY CaughtIsBounded
<1>1. PICK share \in {30, 50} : floor = AtLeast(low, RoundDiv(high * share, 100))
  <2>1. DirectedFloor(s, 30) \subseteq {30, 50}
    BY DEF DirectedFloor, Scenarios, DefaultFloor
  <2> QED
    BY <2>1 DEF ScenarioMin
<1>2. RoundDiv(high * share, 100) \in Nat /\ RoundDiv(high * share, 100) <= high
  BY DEF RoundDiv
<1> QED
  BY <1>1, <1>2 DEF AtLeast

LEMMA AnyPenaltyIsBounded ==
    ASSUME NEW scope, scope.duty \in Nat, scope.entered \in Nat, scope.duty <= 2 * scope.entered
    PROVE  PenaltyBounded(scope)
<1> PICK duty \in Nat, entered \in Nat :
         scope.duty = duty /\ scope.entered = entered /\ duty <= 2 * entered
  OBVIOUS
<1>1. Exposure(PenaltyCase(scope, TRUE)).max <= Exposure(PenaltyCase(scope, FALSE)).min
  <2> DEFINE told == PenaltyCase(scope, TRUE)
             silent == PenaltyCase(scope, FALSE)
             paid == RoundDiv(duty * 6 * 365, 36500)
             least == RoundDiv(duty * 50, 100)
  <2>1. Exposure(told).max = IF duty # 0 THEN paid ELSE 0
    <3>1. /\ told.culpability = "NEGLIGENCE" /\ told.loss = "DUTY_LOSS" /\ told.actual = duty
          /\ told.disclosed = TRUE /\ told.interest.rate = 6 /\ told.interest.days = 365
      BY DEF PenaltyCase, DemoInterest
    <3> HIDE DEF told
    <3> QED
      BY <3>1 DEF Exposure, Disclosed, DisclosedAmount, OwesInterest
  <2>2. Exposure(silent).min = AtMost(least, 2 * entered)
    <3>1. TotalLoss(silent) = duty
      BY DEF TotalLoss, PenaltyCase
    <3>2. Exposure(silent).min = AtMost(Disposition(silent, 50), 2 * entered)
      BY DEF Exposure, Caught, PenaltyCase, LowestOf
    <3>3. Disposition(silent, 50) = RoundDiv(duty * 50, 100)
      BY <3>1 DEF Disposition, PenaltyCase
    <3> QED
      BY <3>2, <3>3
  <2>3. paid \in Nat /\ least \in Nat /\ paid <= least /\ paid <= duty
    <3>1. paid = (4380 * duty + 36500) \div 73000
      BY DEF RoundDiv
    <3>2. least = (100 * duty + 100) \div 200
      BY DEF RoundDiv
    <3> HIDE DEF paid, least
    <3>3. paid \in Nat /\ paid <= duty
      BY <3>1
    <3>4. least \in Nat /\ paid <= least
      BY <3>1, <3>2, <3>3
    <3> QED
      BY <3>3, <3>4
  <2> HIDE DEF told, silent, paid, least
  <2>4. Exposure(told).max <= Exposure(silent).min
    BY <2>1, <2>2, <2>3 DEF AtMost
  <2> QED
    BY <2>4 DEF told, silent
<1>2. ASSUME NEW c \in Culpability, NEW l \in LossType, NEW realized \in {0, duty},
             NEW domestic \in {duty, entered}
      PROVE  LossBounded(scope, c, l, realized, domestic)
  <2> DEFINE case == LossCase(scope, c, l, realized, domestic, FALSE, DemoInterest)
             told == LossCase(scope, c, l, realized, domestic, TRUE, DemoInterest)
             bare == LossCase(scope, c, l, realized, domestic, TRUE, NoInterest)
             potential == duty - realized
  <2>1. potential \in Nat /\ realized \in Nat /\ domestic \in Nat /\ realized + potential = duty
    OBVIOUS
  <2>2. /\ case.culpability = c /\ case.loss = l /\ case.actual = realized
        /\ case.potential = potential /\ case.dutiable = entered /\ case.domestic = domestic
        /\ case.disclosed = FALSE /\ case.factors = {}
    BY DEF LossCase
  <2>3. /\ told.culpability = c /\ told.loss = l /\ told.actual = realized
        /\ told.potential = potential /\ told.dutiable = entered /\ told.domestic = domestic
        /\ told.disclosed = TRUE /\ told.factors = {} /\ told.interest = DemoInterest
    BY DEF LossCase
  <2>4. /\ bare.culpability = c /\ bare.loss = l /\ bare.actual = realized
        /\ bare.potential = potential /\ bare.dutiable = entered /\ bare.domestic = domestic
        /\ bare.disclosed = TRUE /\ bare.factors = {} /\ bare.interest = NoInterest
    BY DEF LossCase
  <2> HIDE DEF case, told, bare, potential
  <2>5. ~Refused(case) /\ ~Refused(told)
    BY <2>1, <2>2, <2>3 DEF Refused, OwesInterest, DemoInterest, NoInterest
  <2>6. Refused(bare) <=> OwesInterest(told)
    <3>1. OwesInterest(bare) <=> OwesInterest(told)
      BY <2>3, <2>4 DEF OwesInterest
    <3>2. Refused(bare) <=> OwesInterest(bare)
      BY <2>1, <2>4 DEF Refused, NoInterest
    <3> QED
      BY <3>1, <3>2
  <2>7. Undisclosed(case)
    <3>1. TotalLoss(case) = duty
      BY <2>1, <2>2 DEF TotalLoss
    <3> QED
      BY <2>1, <2>2, <3>1 DEF Undisclosed
  <2>8. c # "FRAUD" /\ realized = 0 => Exposure(told).max = 0
    BY <2>3 DEF Exposure, Disclosed, DisclosedAmount, OwesInterest
  <2>9. case.domestic = domestic
    BY <2>2
  <2>10. /\ 0 <= Exposure(case).min /\ Exposure(case).min <= Exposure(case).max
         /\ Exposure(case).max <= domestic
    BY <2>7, <2>9, CaughtIsBounded
  <2>11. \A s \in Scenarios : \A floor \in ScenarioMin(case, s, 30) :
            Exposure(case).min <= floor /\ floor <= Exposure(case).max
    BY <2>7, FloorIsInRange
  <2> QED
    BY <2>5, <2>6, <2>8, <2>10, <2>11 DEF LossBounded, case, told, bare
<1> QED
  BY <1>1, <1>2 DEF PenaltyBounded

-----------------------------------------------------------------------------
(* The cases of the docket.                                                *)

\* A case of the docket is on the page, or none.
ShownIsOnDocket == shown \in Docket \cup {None}

LEMMA ShownStays == Spec => []ShownIsOnDocket
<1>1. Init => ShownIsOnDocket
  BY DEF Init, ShownIsOnDocket
<1>2. ShownIsOnDocket /\ [Next]_vars => ShownIsOnDocket'
  <2> SUFFICES ASSUME ShownIsOnDocket, [Next]_vars PROVE ShownIsOnDocket'
    OBVIOUS
  <2>1. ASSUME NEW case \in Openable, Open(case) PROVE ShownIsOnDocket'
    BY <2>1, DocketAssumption DEF Open, Openable, ShownIsOnDocket
  <2>2. CASE Leave
    BY <2>2 DEF Leave, ShownIsOnDocket
  <2>3. CASE UNCHANGED shown
    BY <2>3 DEF ShownIsOnDocket
  <2> QED
    BY <2>1, <2>2, <2>3 DEF Next, vars, TypeName, TypeNote, Approve, Reject, Reset, Download, Copy,
                            ClipboardWrites, ClipboardBlocked
<1> QED
  BY <1>1, <1>2, PTL DEF Spec

\* What the generator makes: see DocketAssumption.
Generated(input) ==
    /\ input.cell \in MatrixCells \cup {Undeclared}
    /\ \E missing \in MissingSets(input.cell) :
          input.exhibits = {Exhibit(input.cell, kind) : kind \in ExhibitKinds \ missing}
    /\ input.commenced = (input.cell.deadline = "LAPSED")
    /\ input.seed \in Int

LEMMA DocketIsGenerated ==
    ASSUME NEW d \in Docket
    PROVE  Generated(File[d])
BY DocketAssumption DEF Generated

\* What the matrix holds.
LEMMA CellsAre ==
    ASSUME NEW cell \in MatrixCells \cup {Undeclared}
    PROVE  /\ cell.posture \in Postures /\ cell.deadline \in DeadlineStates
           /\ cell.class = DispositionClass(cell.posture, cell.deadline)
           /\ Declared(cell) =>
                 cell.workflow \in {"PRIOR_DISCLOSURE", "CF28_RESPONSE"}
           /\ Declared(cell) /\ cell.workflow = "CF28_RESPONSE" => cell.deadline = "IMMINENT"
           /\ ~Declared(cell) <=> cell.workflow = "CF28_RESPONSE" /\ cell.deadline = "LAPSED"
           /\ ~Declared(cell) => cell.posture = "COMPLETE"
<1>1. \A w, p, o, l : LET c == Cell(w, p, o, l)
                      IN  c.workflow = w /\ c.posture = p /\ c.deadline = l
                             /\ c.class = DispositionClass(p, l)
  BY DEF Cell
<1>2. /\ Undeclared.workflow = "CF28_RESPONSE" /\ Undeclared.deadline = "LAPSED"
      /\ Undeclared.posture = "COMPLETE" /\ Undeclared.class = DispositionClass("COMPLETE", "LAPSED")
  BY <1>1 DEF Undeclared
<1>3. ASSUME cell \in MatrixCells
      PROVE  /\ cell.posture \in Postures /\ cell.deadline \in DeadlineStates
             /\ cell.class = DispositionClass(cell.posture, cell.deadline)
             /\ \/ cell.workflow = "PRIOR_DISCLOSURE"
                \/ cell.workflow = "CF28_RESPONSE" /\ cell.deadline = "IMMINENT"
  <2>1. CASE \E p \in Postures, o \in Origins, l \in DeadlineStates :
                cell = Cell("PRIOR_DISCLOSURE", p, o, l)
    BY <1>1, <2>1
  <2>2. CASE \E p \in Postures, o \in Origins : cell = Cell("CF28_RESPONSE", p, o, "IMMINENT")
    <3>1. "IMMINENT" \in DeadlineStates
      BY DEF DeadlineStates
    <3> QED
      BY <1>1, <2>2, <3>1
  <2>3. {"COMPLETE", "PARTIAL", "ADVERSARIAL_INJECTED"} \subseteq Postures
        /\ {"SINGLE_COUNTRY", "TRANSSHIPMENT_PATTERN"} \subseteq Origins
    BY DEF Postures, Origins
  <2> QED
    BY <1>3, <2>1, <2>2, <2>3 DEF MatrixCells
<1>4. Declared(cell) <=> cell \in MatrixCells
  BY DEF Declared
<1>5. CASE cell \in MatrixCells
  BY <1>3, <1>4, <1>5
<1>6. CASE cell \notin MatrixCells
  <2>1. cell = Undeclared
    BY <1>6
  <2> QED
    BY <1>2, <1>4, <1>6, <2>1 DEF Postures, DeadlineStates
<1> QED
  BY <1>5, <1>6

\* What the exhibits of a generated case leave open, by its posture and its deadline.
LEMMA GapsAre ==
    ASSUME NEW input, Generated(input)
    PROVE  Rederived(input) = {} <=>
              /\ input.cell.posture \notin {"PARTIAL", "CONTRADICTORY"}
              /\ ~(input.cell.workflow = "PRIOR_DISCLOSURE" /\ input.cell.deadline = "LAPSED")
<1> DEFINE cell == input.cell
           quarantined == QuarantineAll(input.exhibits)
           present == {q.kind : q \in quarantined}
<1>1. PICK missing \in MissingSets(cell) :
         input.exhibits = {Exhibit(cell, kind) : kind \in ExhibitKinds \ missing}
  BY DEF Generated
<1>2. \A kind : /\ Quarantine(Exhibit(cell, kind)).kind = kind
                /\ Quarantine(Exhibit(cell, kind)).consistent =
                      ~(cell.posture = "CONTRADICTORY" /\ kind \in LoadBearing)
  BY DEF Quarantine, Exhibit
<1>3. quarantined = {Quarantine(Exhibit(cell, kind)) : kind \in ExhibitKinds \ missing}
  BY <1>1 DEF QuarantineAll
<1> HIDE DEF quarantined
<1>4. present = ExhibitKinds \ missing
  BY <1>2, <1>3
<1>5. LoadBearing \ present = {} <=> cell.posture # "PARTIAL"
  BY <1>4 DEF MissingSets, LoadBearing, ExhibitKinds
<1>6. (\E q \in quarantined : ~q.consistent) <=> cell.posture = "CONTRADICTORY"
  <2>1. CASE cell.posture = "CONTRADICTORY"
    <3>1. missing = {}
      BY <2>1 DEF MissingSets
    <3>2. "PRODUCTION_RECORD" \in LoadBearing /\ "PRODUCTION_RECORD" \in ExhibitKinds
      BY DEF LoadBearing, ExhibitKinds
    <3>3. Quarantine(Exhibit(cell, "PRODUCTION_RECORD")) \in quarantined
      BY <1>3, <3>1, <3>2
    <3> QED
      BY <1>2, <2>1, <3>2, <3>3
  <2>2. CASE cell.posture # "CONTRADICTORY"
    BY <1>2, <1>3, <2>2
  <2> QED
    BY <2>1, <2>2
<1>7. input.commenced <=> cell.deadline = "LAPSED"
  BY DEF Generated
<1>8. Rederived(input) =
         (IF cell.workflow = "PRIOR_DISCLOSURE" /\ input.commenced THEN {Ineligible} ELSE {})
         \cup {<<"MISSING", kind>> : kind \in LoadBearing \ present}
         \cup (IF \E q \in quarantined : ~q.consistent THEN {Contradiction} ELSE {})
  BY DEF Rederived, AssessSufficiency, quarantined
<1> HIDE DEF present, cell
<1>9. {<<"MISSING", kind>> : kind \in LoadBearing \ present} = {} <=> LoadBearing \ present = {}
  OBVIOUS
<1>10. Rederived(input) = {} <=>
          /\ ~(cell.workflow = "PRIOR_DISCLOSURE" /\ input.commenced)
          /\ LoadBearing \ present = {}
          /\ ~\E q \in quarantined : ~q.consistent
  BY <1>8, <1>9
<1> QED
  BY <1>5, <1>6, <1>7, <1>10 DEF cell

\* What a run of a case decides.
LEMMA RunDecides ==
    ASSUME NEW input
    PROVE  LET outcome == RunCustomsDefenseCase(input)
           IN  /\ outcome.disposition =
                     IF Declared(input.cell) /\ Rederived(input) = {} THEN "PROCEED" ELSE "REFUSE"
               /\ outcome.gaps = IF Declared(input.cell) THEN Rederived(input) ELSE {Outside}
<1> DEFINE quarantined == QuarantineAll(input.exhibits)
           gaps == Rederived(input)
<1>1. RunCustomsDefenseCase(input) =
         IF ~Declared(input.cell) THEN OutcomeOf(RefusalPacket(input, {Outside}, {}))
         ELSE IF gaps # {} THEN OutcomeOf(RefusalPacket(input, gaps, quarantined))
         ELSE OutcomeOf(ProceedPacket(input, quarantined))
  BY DEF RunCustomsDefenseCase, Rederived
<1>2. \A packet : /\ OutcomeOf(packet).disposition = packet.disposition
                  /\ OutcomeOf(packet).gaps = packet.gaps
  BY DEF OutcomeOf
<1>3. \A g, q : RefusalPacket(input, g, q).disposition = "REFUSE" /\ RefusalPacket(input, g, q).gaps = g
  BY DEF RefusalPacket
<1>4. \A q : ProceedPacket(input, q).disposition = "PROCEED" /\ ProceedPacket(input, q).gaps = {}
  BY DEF ProceedPacket
<1> HIDE DEF quarantined, gaps
<1>5. CASE ~Declared(input.cell)
  BY <1>1, <1>2, <1>3, <1>5
<1>6. CASE Declared(input.cell) /\ gaps # {}
  BY <1>1, <1>2, <1>3, <1>6 DEF gaps
<1>7. CASE Declared(input.cell) /\ gaps = {}
  BY <1>1, <1>2, <1>4, <1>7 DEF gaps
<1> QED
  BY <1>5, <1>6, <1>7

LEMMA MatrixIsFollowed ==
    ASSUME NEW input, Generated(input)
    PROVE  LET cell == input.cell
               proceeds == RunCustomsDefenseCase(input).disposition = "PROCEED"
           IN  /\ proceeds => Declared(cell)
               /\ cell.class = "REFUSE_EXPECTED" => ~proceeds
               /\ Declared(cell) /\ cell.class = "PROCEED_CANDIDATE" => proceeds
               /\ cell.class = "QUARANTINE_TEST" => (proceeds <=> cell.deadline # "LAPSED")
               /\ ~proceeds <=> RunCustomsDefenseCase(input).gaps # {}
<1> DEFINE cell == input.cell
           proceeds == RunCustomsDefenseCase(input).disposition = "PROCEED"
           open == cell.workflow = "PRIOR_DISCLOSURE" /\ cell.deadline = "LAPSED"
<1>1. cell \in MatrixCells \cup {Undeclared}
  BY DEF Generated
<1>2. /\ cell.posture \in Postures /\ cell.deadline \in DeadlineStates
      /\ cell.class = DispositionClass(cell.posture, cell.deadline)
      /\ Declared(cell) => cell.workflow \in {"PRIOR_DISCLOSURE", "CF28_RESPONSE"}
      /\ Declared(cell) /\ cell.workflow = "CF28_RESPONSE" => cell.deadline = "IMMINENT"
      /\ ~Declared(cell) <=> cell.workflow = "CF28_RESPONSE" /\ cell.deadline = "LAPSED"
      /\ ~Declared(cell) => cell.posture = "COMPLETE"
  BY <1>1, CellsAre
<1>3. Rederived(input) = {} <=> cell.posture \notin {"PARTIAL", "CONTRADICTORY"} /\ ~open
  BY GapsAre
<1>4. proceeds <=> Declared(cell) /\ Rederived(input) = {}
  BY RunDecides
<1>5. RunCustomsDefenseCase(input).gaps = {} <=> Declared(cell) /\ Rederived(input) = {}
  BY RunDecides
<1> HIDE DEF cell, proceeds
<1>6. /\ cell.class = "REFUSE_EXPECTED" <=>
            \/ cell.posture \in {"PARTIAL", "CONTRADICTORY"}
            \/ cell.posture = "COMPLETE" /\ cell.deadline = "LAPSED"
      /\ cell.class = "QUARANTINE_TEST" <=> cell.posture = "ADVERSARIAL_INJECTED"
      /\ cell.class = "PROCEED_CANDIDATE" <=>
            cell.posture = "COMPLETE" /\ cell.deadline # "LAPSED"
  BY <1>2 DEF DispositionClass, Postures
<1>7. cell.workflow = "CF28_RESPONSE" => cell.workflow # "PRIOR_DISCLOSURE"
  OBVIOUS
<1>8. /\ cell.class = "REFUSE_EXPECTED" => ~proceeds
      /\ Declared(cell) /\ cell.class = "PROCEED_CANDIDATE" => proceeds
      /\ cell.class = "QUARANTINE_TEST" => (proceeds <=> cell.deadline # "LAPSED")
  BY <1>2, <1>3, <1>4, <1>6, <1>7
<1> QED
  BY <1>4, <1>5, <1>8 DEF cell, proceeds

\* Every case of any docket the generator makes is decided as the matrix declares it,
\* whatever its lines, its amounts and the record that is missing: refused for a structure
\* that demands it, and never for what an injected exhibit says
\* (edge-case-matrix.ts, exhibit-quarantine.ts, evidence-sufficiency.ts).
THEOREM MatrixAlwaysFollowed == Spec => []DispositionFollowsMatrix
<1>1. ShownIsOnDocket => DispositionFollowsMatrix
  <2> SUFFICES ASSUME ShownIsOnDocket, JustOpened PROVE DispositionFollowsMatrix
    BY DEF DispositionFollowsMatrix
  <2>1. shown \in Docket
    BY DEF ShownIsOnDocket, JustOpened
  <2>2. Result[shown] = RunCustomsDefenseCase(File[shown])
    BY <2>1 DEF Result
  <2>3. Generated(File[shown])
    BY <2>1, DocketIsGenerated
  <2> QED
    BY <2>2, <2>3, MatrixIsFollowed DEF DispositionFollowsMatrix
<1> QED
  BY <1>1, ShownStays, PTL

-----------------------------------------------------------------------------
(* What the lines of a case come to.  A total is a function over the       *)
(* places of a row: what it bounds is shown of every place, by a set of    *)
(* numbers that has 0 and every successor.                                 *)

LEMMA LeastNumber ==
    ASSUME NEW T \in SUBSET Nat, T # {}
    PROVE  \E x \in T : \A y \in T : x <= y
<1>1. PICK x \in T : \A y \in T : ~ (<<y, x>> \in OpToRel(<, Nat))
  BY WFMin, NatLessThanWellFounded, Zenon
<1>2. \A y \in T : ~(y < x)
  BY <1>1, Zenon DEF OpToRel
<1> QED
  BY <1>2

LEMMA Induct ==
    ASSUME NEW T \in SUBSET Nat, 0 \in T, \A n \in T : n + 1 \in T
    PROVE  T = Nat
<1>1. SUFFICES ASSUME Nat \ T # {} PROVE FALSE
  OBVIOUS
<1>2. PICK x \in Nat \ T : \A y \in Nat \ T : x <= y
  BY <1>1, LeastNumber
<1>3. x - 1 \in Nat /\ x - 1 \notin Nat \ T
  BY <1>2
<1>4. (x - 1) + 1 \in T
  BY <1>3
<1> QED
  BY <1>2, <1>4

\* What Sums is, up to place k.
IsSums(s, w, k) == s = [i \in 0..k |-> IF i = 0 THEN 0 ELSE s[i - 1] + w[i]]

\* There is such a function, up to any place.
LEMMA SumsExist ==
    ASSUME NEW w, NEW n \in Nat
    PROVE  \E s : IsSums(s, w, n)
<1> DEFINE T == {k \in Nat : \E s : IsSums(s, w, k)}
<1>1. 0 \in T
  <2> DEFINE s == [i \in 0..0 |-> 0]
  <2>1. IsSums(s, w, 0)
    BY DEF IsSums
  <2> QED
    BY <2>1
<1>2. ASSUME NEW k \in T PROVE k + 1 \in T
  <2>1. PICK s : IsSums(s, w, k)
    OBVIOUS
  <2> DEFINE t == [i \in 0..(k + 1) |-> IF i = k + 1 THEN s[k] + w[k + 1] ELSE s[i]]
  <2>2. ASSUME NEW i \in 0..(k + 1)
        PROVE  t[i] = IF i = 0 THEN 0 ELSE t[i - 1] + w[i]
    <3>1. CASE i = k + 1
      BY <3>1
    <3>2. CASE i # k + 1
      <4>1. i \in 0..k /\ t[i] = s[i] /\ (i # 0 => i - 1 \in 0..(k + 1) /\ t[i - 1] = s[i - 1])
        BY <3>2
      <4> QED
        BY <2>1, <4>1 DEF IsSums
    <3> QED
      BY <3>1, <3>2
  <2>3. IsSums(t, w, k + 1)
    BY <2>2 DEF IsSums
  <2> QED
    BY <2>3
<1> HIDE DEF T
<1>3. T = Nat
  BY <1>1, <1>2, Induct DEF T
<1> QED
  BY <1>3 DEF T

\* A row's sums start at nothing and grow by what is at each place.
LEMMA SumsAre ==
    ASSUME NEW w, NEW n \in Nat, Len(w) = n
    PROVE  /\ Sums(w)[0] = 0 /\ Total(w) = Sums(w)[n]
           /\ \A i \in 1..n : Sums(w)[i] = Sums(w)[i - 1] + w[i]
<1> DEFINE s == CHOOSE s : IsSums(s, w, n)
<1>1. IsSums(s, w, n)
  BY SumsExist
<1>2. Sums(w) = s
  BY DEF Sums, IsSums
<1> HIDE DEF s
<1>3. s[0] = 0 /\ \A i \in 1..n : s[i] = s[i - 1] + w[i]
  BY <1>1 DEF IsSums
<1> QED
  BY <1>2, <1>3 DEF Total

\* A duty of at most twice its value, in cents against dollars; duties add up to one.
Within(x, y) == x \in Nat /\ y \in Nat /\ x <= 200 * y

LEMMA WithinAdds ==
    ASSUME NEW a, NEW b, NEW x, NEW y, Within(a, b), Within(x, y)
    PROVE  Within(a + x, b + y)
BY DEF Within

LEMMA TotalsCompare ==
    ASSUME NEW w, NEW v, NEW n \in Nat, Len(w) = n, Len(v) = n,
           \A i \in 1..n : Within(w[i], v[i])
    PROVE  Within(Total(w), Total(v))
<1> PICK s : s = Sums(w)
  OBVIOUS
<1> PICK t : t = Sums(v)
  OBVIOUS
<1> DEFINE T == {k \in Nat : k <= n => Within(s[k], t[k])}
<1>0. /\ s[0] = 0 /\ Total(w) = s[n] /\ \A i \in 1..n : s[i] = s[i - 1] + w[i]
      /\ t[0] = 0 /\ Total(v) = t[n] /\ \A i \in 1..n : t[i] = t[i - 1] + v[i]
  BY SumsAre
<1>1. 0 \in T
  BY <1>0 DEF Within
<1>2. ASSUME NEW k \in T PROVE k + 1 \in T
  <2>0. k \in Nat
    OBVIOUS
  <2> SUFFICES ASSUME k + 1 <= n PROVE Within(s[k + 1], t[k + 1])
    BY <2>0
  <2>1. Within(s[k], t[k]) /\ k + 1 \in 1..n /\ (k + 1) - 1 = k
    BY <2>0
  <2>2. s[k + 1] = s[k] + w[k + 1] /\ t[k + 1] = t[k] + v[k + 1]
    BY <1>0, <2>1
  <2>3. Within(w[k + 1], v[k + 1])
    BY <2>1
  <2>4. Within(s[k] + w[k + 1], t[k] + v[k + 1])
    BY <2>1, <2>3, WithinAdds
  <2> QED
    BY <2>2, <2>4
<1> HIDE DEF T
<1>3. T = Nat
  BY <1>1, <1>2, Induct DEF T
<1>4. Within(s[n], t[n])
  <2>1. n \in T /\ n <= n
    BY <1>3
  <2> QED
    BY <2>1 DEF T
<1> QED
  BY <1>0, <1>4

\* A function on 1..n is a row of that length.
LEMMA LengthIs ==
    ASSUME NEW w, NEW n \in Nat, DOMAIN w = 1..n
    PROVE  Len(w) = n
OBVIOUS

\* The duty of a line is at most twice its value, cents against cents.
LEMMA DutyIsWithin ==
    ASSUME NEW v \in Nat
    PROVE  Within(DutyCents(v), v)
BY DEF DutyCents, RoundDiv, Within

\* What a scope of made entries comes to, whatever it selects.
LEMMA ScopeIsWithin ==
    ASSUME NEW entries, NEW n \in Nat, DOMAIN entries = 1..n,
           \A e \in 1..n : Made(entries[e]), NEW criteria
    PROVE  LET scope == ScopeEntryPopulation(entries, criteria)
           IN  scope.duty \in Nat /\ scope.entered \in Nat /\ scope.duty <= 2 * scope.entered
<1> DEFINE In(e, i) == InScope(entries[e], entries[e].lines[i], criteria)
           Duties(e) == [i \in DOMAIN entries[e].lines |->
                            IF In(e, i) THEN entries[e].lines[i].duty ELSE 0]
           Values(e) == [i \in DOMAIN entries[e].lines |->
                            IF In(e, i) THEN entries[e].lines[i].value ELSE 0]
           duties == [e \in DOMAIN entries |-> Total(Duties(e))]
           values == [e \in DOMAIN entries |-> Total(Values(e))]
           scope == ScopeEntryPopulation(entries, criteria)
<1>1. scope.duty = Total(duties) /\ scope.entered = 100 * Total(values)
  BY DEF ScopeEntryPopulation, SumOver
<1>2. ASSUME NEW e \in 1..n
      PROVE  Within(Total(Duties(e)), Total(Values(e)))
  <2> PICK m \in Nat : m = Len(entries[e].lines)
    BY DEF Made
  <2>1. DOMAIN entries[e].lines = 1..m
    BY DEF Made
  <2>2. ASSUME NEW i \in 1..m
        PROVE  LET line == entries[e].lines[i]
               IN  Within(line.duty, line.value)
    <3> DEFINE line == entries[e].lines[i]
    <3>1. line.value \in Nat /\ line = EntryLine(line.value, line.country)
      BY <2>1 DEF Made
    <3>2. line.duty = DutyCents(line.value)
      BY <3>1 DEF EntryLine
    <3> HIDE DEF line
    <3> QED
      BY <3>1, <3>2, DutyIsWithin DEF line
  <2> PICK D : D = Duties(e)
    OBVIOUS
  <2> PICK V : V = Values(e)
    OBVIOUS
  <2>3. DOMAIN D = 1..m /\ DOMAIN V = 1..m
    BY <2>1
  <2>4. \A i \in 1..m : Within(D[i], V[i])
    <3>1. Within(0, 0)
      BY DEF Within
    <3> QED
      BY <2>1, <2>2, <3>1
  <2>5. Len(D) = m /\ Len(V) = m
    BY <2>3, LengthIs
  <2>6. Within(Total(D), Total(V))
    BY <2>4, <2>5, TotalsCompare
  <2> QED
    BY <2>6
<1> HIDE DEF Duties, Values
<1> PICK D : D = duties
  OBVIOUS
<1> PICK V : V = values
  OBVIOUS
<1>3. DOMAIN D = 1..n /\ DOMAIN V = 1..n
  OBVIOUS
<1>4. \A e \in 1..n : Within(D[e], V[e])
  BY <1>2
<1>5. Len(D) = n /\ Len(V) = n
  BY <1>3, LengthIs
<1>6. Within(Total(D), Total(V))
  BY <1>4, <1>5, TotalsCompare
<1>7. \A x, y : Within(x, y) => x \in Nat /\ 100 * y \in Nat /\ x <= 2 * (100 * y)
  BY DEF Within
<1> QED
  BY <1>1, <1>6, <1>7

\* Whatever the lines of the cases of a docket come to, a penalty that is disclosed is within
\* the one that is caught, and that within nothing and the domestic value (penalty-exposure.ts).
THEOREM PenaltyBoundedAlways == Spec => []PenaltyIsBounded
<1>1. ShownIsOnDocket => PenaltyIsBounded
  <2> SUFFICES ASSUME ShownIsOnDocket, JustOpened PROVE PenaltyIsBounded
    BY DEF PenaltyIsBounded
  <2>1. shown \in Docket
    BY DEF ShownIsOnDocket, JustOpened
  <2> PICK scope : scope = ScopeEntryPopulation(File[shown].entries, Anywhere)
    OBVIOUS
  <2>2. scope.duty \in Nat /\ scope.entered \in Nat /\ scope.duty <= 2 * scope.entered
    <3> PICK entries : entries = File[shown].entries
      OBVIOUS
    <3> PICK n \in Nat : n = Len(entries)
      BY <2>1, DocketAssumption
    <3>1. DOMAIN entries = 1..n /\ \A e \in 1..n : Made(entries[e])
      BY <2>1, DocketAssumption
    <3> QED
      BY <3>1, ScopeIsWithin
  <2>3. PenaltyBounded(scope)
    BY <2>2, AnyPenaltyIsBounded
  <2> QED
    BY <2>3 DEF PenaltyIsBounded
<1> QED
  BY <1>1, ShownStays, PTL

-----------------------------------------------------------------------------
(* The Skeptic.                                                            *)

\* What a token says, and what a cited figure does.
LEMMA TokensSay ==
    /\ \A form, v : Token(form, v).form = form /\ Token(form, v).value = v
    /\ \A v, r : Cite(v, r).value = v /\ Cite(v, r).ref = r
BY DEF Token, Cite

\* The figures and the dates of a text made of plain numbers and dates.
LEMMA ReadBack ==
    ASSUME NEW values, NEW days
    PROVE  /\ Unparseable(Plain(values) \cup Dates(days)) = {}
           /\ Figures(Plain(values) \cup Dates(days)) = values
           /\ {t.value : t \in {t \in Plain(values) \cup Dates(days) : t.form = "DATE"}} = days
<1> DEFINE text == Plain(values) \cup Dates(days)
<1>1. /\ \A v \in values : Token("FIGURE", v) \in text
      /\ \A v \in days : Token("DATE", v) \in text
      /\ \A t \in text : (\E v \in values : t = Token("FIGURE", v))
                            \/ (\E v \in days : t = Token("DATE", v))
  BY DEF Plain, Dates
<1> HIDE DEF text
<1>2. Unparseable(text) = {}
  <2>1. \A t \in text : t.form \in {"FIGURE", "DATE"}
    BY <1>1, TokensSay
  <2> QED
    BY <2>1 DEF Unparseable, Unreadable
<1>3. Figures(text) = values
  <2>1. \A v \in values : v \in Figures(text)
    BY <1>1, TokensSay DEF Figures
  <2>2. \A v \in Figures(text) : v \in values
    BY <1>1, TokensSay DEF Figures
  <2> QED
    BY <2>1, <2>2
<1>4. {t.value : t \in {t \in text : t.form = "DATE"}} = days
  <2> DEFINE D == {t.value : t \in {t \in text : t.form = "DATE"}}
  <2>1. \A v \in days : v \in D
    BY <1>1, TokensSay
  <2>2. \A v \in D : v \in days
    BY <1>1, TokensSay
  <2> QED
    BY <2>1, <2>2
<1> QED
  BY <1>2, <1>3, <1>4 DEF text

\* The figures and the dates that a text is made of.
PlainText(packet, values, days) ==
    Render(packet).numerals = Plain(values) \cup Dates(days)

\* What a packet's text is made of, given its prose.
CitedValues(packet) == {f.value : f \in packet.cited}
SectionValues(packet) == UNION {SectionFigures(c) : c \in packet.citations}
ClockValues(packet) == {Count(c.days) : c \in packet.clocks}
FetchDates(packet) == IF packet.citations # {} THEN {FetchedOn} ELSE {}
DueDates(packet) == {c.due : c \in packet.clocks}
Stated(packet) ==
    {Count(packet.case.seed)} \cup CitedValues(packet) \cup SectionValues(packet) \cup ClockValues(packet)
Dated(packet) == FetchDates(packet) \cup DueDates(packet)

LEMMA TextIs ==
    ASSUME NEW packet, NEW values, NEW days, packet.prose = Plain(values) \cup Dates(days)
    PROVE  PlainText(packet, values \cup Stated(packet), days \cup Dated(packet))
<1> DEFINE a == {Count(packet.case.seed)}
           b == CitedValues(packet)
           c == SectionValues(packet)
           d == ClockValues(packet)
           e == FetchDates(packet)
           g == DueDates(packet)
           fetched == {t \in Dates({FetchedOn}) : packet.citations # {}}
<1>1. fetched = Dates(e)
  BY DEF Dates, FetchDates
<1>2. Render(packet).numerals = packet.prose \cup Plain(a) \cup Plain(b) \cup Plain(c)
         \cup fetched \cup Plain(d) \cup Dates(g)
  BY DEF Render, CitedValues, SectionValues, ClockValues, DueDates
<1>3. Stated(packet) = a \cup b \cup c \cup d /\ Dated(packet) = e \cup g
  BY DEF Stated, Dated
<1> HIDE DEF a, b, c, d, e, g, fetched
<1>4. Plain(values \cup Stated(packet)) = Plain(values) \cup Plain(a) \cup Plain(b) \cup Plain(c) \cup Plain(d)
  BY <1>3 DEF Plain
<1>5. Dates(days \cup Dated(packet)) = Dates(days) \cup Dates(e) \cup Dates(g)
  BY <1>3 DEF Dates
<1> QED
  BY <1>1, <1>2, <1>4, <1>5 DEF PlainText

\* What the pipeline makes of a packet, whichever it is: its prose states cited figures and its
\* own due dates, it carries no exhibit, and whatever it renders beside the prose is cited.
Stamps == {"seed", "caught.max", "made-up"}
PacketKnown(input, packet) ==
    /\ packet = [field \in DOMAIN packet |-> packet[field]]
    /\ DOMAIN packet = {"case", "disposition", "prose", "bodies", "cited", "gaps", "clocks",
                        "citations", "audit"}
    /\ packet.bodies = {} /\ packet.case.seed = input.seed
    /\ \E values :
          /\ packet.prose = Plain(values) \cup Dates(DueDates(packet))
          /\ values \subseteq CitedValues(packet)
          /\ \A f \in packet.cited : f.value = 77 /\ f.ref \in Stamps => 77 \in values
    /\ Count(input.seed) \in CitedValues(packet)
    /\ SectionValues(packet) \subseteq CitedValues(packet)
    /\ ClockValues(packet) \subseteq CitedValues(packet)
    /\ \A f \in packet.cited : f.ref # NoRef

\* The figures of the sections are cited under the table.
LEMMA PolicyIsCited ==
    ASSUME NEW citations
    PROVE  /\ \A c \in citations : \A v \in SectionFigures(c) :
                 Cite(v, PolicyRef(c)) \in PolicyCitationFigures(citations)
           /\ \A f \in PolicyCitationFigures(citations) :
                 f.ref \in {"policy-table#eCFR", "policy-table#ICP-1592"}
<1>1. \A c : PolicyRef(c) \in {"policy-table#eCFR", "policy-table#ICP-1592"}
  BY DEF PolicyRef
<1>2. \A f : f \in PolicyCitationFigures(citations) <=>
                \E c \in citations : \E v \in SectionFigures(c) : f = Cite(v, PolicyRef(c))
  BY DEF PolicyCitationFigures
<1> QED
  BY <1>1, <1>2, TokensSay

LEMMA RefusalKnown ==
    ASSUME NEW input, input.seed \in Int, NEW gaps, NEW quarantined
    PROVE  PacketKnown(input, RefusalPacket(input, gaps, quarantined))
<1> DEFINE p == RefusalPacket(input, gaps, quarantined)
           n == Count(Cardinality(quarantined))
           policy == PolicyCitationFigures(RefusalCitations(gaps))
<1>1. /\ p = [field \in DOMAIN p |-> p[field]]
      /\ DOMAIN p = {"case", "disposition", "prose", "bodies", "cited", "gaps", "clocks",
                     "citations", "audit"}
  BY DEF RefusalPacket
<1>2. /\ p.bodies = {} /\ p.case.seed = input.seed /\ p.prose = Plain({n}) /\ p.clocks = {}
      /\ p.citations = RefusalCitations(gaps)
      /\ p.cited = InputFigures(input, Cardinality(quarantined)) \cup policy
  BY DEF RefusalPacket
<1>3. InputFigures(input, Cardinality(quarantined)) = {Cite(Count(input.seed), "seed"), Cite(n, "exhibits")}
  BY DEF InputFigures
<1> HIDE DEF p, n
<1>4. DueDates(p) = {} /\ ClockValues(p) = {}
  BY <1>2 DEF DueDates, ClockValues
<1>5. p.prose = Plain({n}) \cup Dates(DueDates(p))
  BY <1>2, <1>4 DEF Dates
<1>6. {n} \subseteq CitedValues(p) /\ Count(input.seed) \in CitedValues(p)
  BY <1>2, <1>3, TokensSay DEF CitedValues
<1>7. SectionValues(p) \subseteq CitedValues(p)
  <2>1. ASSUME NEW c \in RefusalCitations(gaps), NEW v \in SectionFigures(c)
        PROVE  v \in CitedValues(p)
    <3>1. Cite(v, PolicyRef(c)) \in p.cited
      BY <1>2, PolicyIsCited
    <3> QED
      BY <3>1, TokensSay DEF CitedValues
  <2> QED
    BY <1>2, <2>1 DEF SectionValues
<1>8. ASSUME NEW f \in p.cited
      PROVE  f.ref # NoRef /\ (f.value = 77 /\ f.ref \in Stamps => 77 \in {n})
  <2>1. CASE f \in policy
    BY <2>1, PolicyIsCited DEF Stamps, NoRef
  <2>2. CASE f = Cite(n, "exhibits")
    <3>1. f.ref = "exhibits"
      BY <2>2, TokensSay
    <3> QED
      BY <3>1 DEF NoRef, Stamps
  <2>3. CASE f = Cite(Count(input.seed), "seed")
    <3>1. f.value = Count(input.seed) /\ f.ref = "seed"
      BY <2>3, TokensSay
    <3>2. Count(input.seed) # 77
      BY DEF Count
    <3> QED
      BY <3>1, <3>2 DEF NoRef
  <2> QED
    BY <1>2, <1>3, <2>1, <2>2, <2>3
<1> QED
  BY <1>1, <1>2, <1>4, <1>5, <1>6, <1>7, <1>8 DEF PacketKnown, p

\* Figures that do not come from the policy table, of a packet that may proceed.
ProceedFigures(input, quarantined) ==
    InputFigures(input, Cardinality(quarantined))
    \cup ScopeFigures(ScopeEntryPopulation(input.entries, Anywhere))
    \cup PenaltyFigures(ScopeEntryPopulation(input.entries, Anywhere))
    \cup ModelFigures \cup ClockFigures(Deadlines(input))

LEMMA ProceedIs ==
    ASSUME NEW input, NEW quarantined
    PROVE  LET p == ProceedPacket(input, quarantined)
               figures == ProceedFigures(input, quarantined)
           IN  /\ p = [field \in DOMAIN p |-> p[field]]
               /\ DOMAIN p = {"case", "disposition", "prose", "bodies", "cited", "gaps", "clocks",
                              "citations", "audit"}
               /\ p.bodies = {} /\ p.case.seed = input.seed
               /\ p.prose = Plain({f.value : f \in figures}) \cup Dates({c.due : c \in Deadlines(input)})
               /\ p.clocks = Deadlines(input) /\ p.citations = ProceedCitations
               /\ p.cited = figures \cup PolicyCitationFigures(ProceedCitations)
BY DEF ProceedPacket, ProceedFigures

LEMMA ProceedKnown ==
    ASSUME NEW input, NEW quarantined
    PROVE  PacketKnown(input, ProceedPacket(input, quarantined))
<1> DEFINE p == ProceedPacket(input, quarantined)
           figures == ProceedFigures(input, quarantined)
           values == {f.value : f \in figures}
           policy == PolicyCitationFigures(ProceedCitations)
<1>1. /\ p = [field \in DOMAIN p |-> p[field]]
      /\ DOMAIN p = {"case", "disposition", "prose", "bodies", "cited", "gaps", "clocks",
                     "citations", "audit"}
      /\ p.bodies = {} /\ p.case.seed = input.seed
      /\ p.prose = Plain(values) \cup Dates({c.due : c \in Deadlines(input)})
      /\ p.clocks = Deadlines(input) /\ p.citations = ProceedCitations
      /\ p.cited = figures \cup policy
  BY ProceedIs
<1>2. /\ Cite(Count(input.seed), "seed") \in figures
      /\ \A c \in Deadlines(input) : Cite(Count(c.days), "clock") \in figures
  BY DEF ProceedFigures, InputFigures, ClockFigures
<1>3. \A f \in figures : f.ref # NoRef
  <2> DEFINE scope == ScopeEntryPopulation(input.entries, Anywhere)
  <2>1. \A f \in InputFigures(input, Cardinality(quarantined)) : f.ref \in {"seed", "exhibits"}
    BY TokensSay DEF InputFigures
  <2> HIDE DEF scope
  <2>2. \A f \in ScopeFigures(scope) :
           f.ref \in {"entryCount", "lineCount", "totalEnteredValue", "totalDeclaredDuty", "lor-model"}
    <3>1. \A f \in ScopeFigures(scope) : \E v :
             \/ f = Cite(v, "entryCount") \/ f = Cite(v, "lineCount") \/ f = Cite(v, "totalEnteredValue")
             \/ f = Cite(v, "totalDeclaredDuty") \/ f = Cite(v, "lor-model")
      BY DEF ScopeFigures
    <3> QED
      BY <3>1, TokensSay
  <2>3. \A f \in PenaltyFigures(scope) : f.ref \in {"caught.min", "caught.max", "disclosed.max"}
    <3>1. \A f \in PenaltyFigures(scope) : \E v :
             f = Cite(v, "caught.min") \/ f = Cite(v, "caught.max") \/ f = Cite(v, "disclosed.max")
      BY DEF PenaltyFigures
    <3> QED
      BY <3>1, TokensSay
  <2>4. \A f \in ModelFigures : f.ref \in {"interestRate", "interestDays"}
    BY TokensSay DEF ModelFigures
  <2>5. \A f \in ClockFigures(Deadlines(input)) : f.ref = "clock"
    BY TokensSay DEF ClockFigures
  <2>6. figures = InputFigures(input, Cardinality(quarantined)) \cup ScopeFigures(scope)
           \cup PenaltyFigures(scope) \cup ModelFigures \cup ClockFigures(Deadlines(input))
    BY DEF ProceedFigures, scope
  <2> HIDE DEF figures
  <2>7. \A f \in figures : f.ref \in {"seed", "exhibits"} \cup {"caught.min", "caught.max", "disclosed.max"}
           \cup {"entryCount", "lineCount", "totalEnteredValue", "totalDeclaredDuty", "lor-model"}
           \cup {"interestRate", "interestDays"} \cup {"clock"}
    BY <2>1, <2>2, <2>3, <2>4, <2>5, <2>6
  <2> QED
    BY <2>7 DEF NoRef
<1> HIDE DEF p, figures, policy
<1>4. p.prose = Plain(values) \cup Dates(DueDates(p))
  BY <1>1 DEF DueDates
<1>5. values \subseteq CitedValues(p) /\ Count(input.seed) \in CitedValues(p)
  BY <1>1, <1>2, TokensSay DEF CitedValues
<1>6. ClockValues(p) \subseteq CitedValues(p)
  BY <1>1, <1>2, TokensSay DEF CitedValues, ClockValues
<1>7. SectionValues(p) \subseteq CitedValues(p)
  <2>1. ASSUME NEW c \in ProceedCitations, NEW v \in SectionFigures(c)
        PROVE  v \in CitedValues(p)
    <3>1. Cite(v, PolicyRef(c)) \in p.cited
      BY <1>1, PolicyIsCited DEF policy
    <3> QED
      BY <3>1, TokensSay DEF CitedValues
  <2> QED
    BY <1>1, <2>1 DEF SectionValues
<1>8. ASSUME NEW f \in p.cited
      PROVE  f.ref # NoRef /\ (f.value = 77 /\ f.ref \in Stamps => 77 \in values)
  <2>1. CASE f \in policy
    BY <2>1, PolicyIsCited, ZenonT(60) DEF Stamps, NoRef, policy
  <2>2. CASE f \in figures
    <3>1. f.value \in values
      BY <2>2
    <3> QED
      BY <1>3, <2>2, <3>1
  <2> QED
    BY <1>1, <2>1, <2>2
<1> HIDE DEF values
<1> QED
  BY <1>1, <1>4, <1>5, <1>6, <1>7, <1>8 DEF PacketKnown, p

\* As many bodies are examined as there are exhibits.
LEMMA ExaminedAreCounted ==
    ASSUME NEW input, Generated(input)
    PROVE  Cardinality(QuarantineAll(input.exhibits)) = Cardinality(input.exhibits)
<1> DEFINE exhibits == input.exhibits
           quarantined == QuarantineAll(exhibits)
<1>1. PICK missing \in MissingSets(input.cell) :
         exhibits = {Exhibit(input.cell, kind) : kind \in ExhibitKinds \ missing}
  BY DEF Generated
<1>2. IsFiniteSet(ExhibitKinds)
  <2> DEFINE named == <<"PRODUCTION_RECORD", "BILL_OF_MATERIALS", "COMMERCIAL_INVOICE",
                        "SUPPLIER_AFFIDAVIT", "FACTORY_AUDIT_REPORT", "BROKER_CORRESPONDENCE">>
  <2>1. named \in [1..6 -> ExhibitKinds]
    BY DEF ExhibitKinds, LoadBearing
  <2>2. \A kind \in ExhibitKinds : \E i \in 1..6 : named[i] = kind
    <3>1. /\ named[1] = "PRODUCTION_RECORD" /\ named[2] = "BILL_OF_MATERIALS"
          /\ named[3] = "COMMERCIAL_INVOICE" /\ named[4] = "SUPPLIER_AFFIDAVIT"
          /\ named[5] = "FACTORY_AUDIT_REPORT" /\ named[6] = "BROKER_CORRESPONDENCE"
      OBVIOUS
    <3> HIDE DEF named
    <3>2. 1 \in 1..6 /\ 2 \in 1..6 /\ 3 \in 1..6 /\ 4 \in 1..6 /\ 5 \in 1..6 /\ 6 \in 1..6
      OBVIOUS
    <3> QED
      BY <3>1, <3>2 DEF ExhibitKinds, LoadBearing
  <2> HIDE DEF named
  <2>3. named \in Surjection(1..6, ExhibitKinds)
    BY <2>1, <2>2, Zenon DEF Surjection
  <2>4. IsFiniteSet(1..6)
    <3>1. 1 \in Int /\ 6 \in Int
      OBVIOUS
    <3> QED
      BY <3>1, FS_Interval, Zenon
  <2> QED
    BY <2>3, <2>4, FS_Surjection
<1>3. IsFiniteSet(exhibits)
  <2> DEFINE kinds == ExhibitKinds \ missing
             made == [kind \in kinds |-> Exhibit(input.cell, kind)]
  <2>1. IsFiniteSet(kinds)
    BY <1>2, FS_Subset
  <2>2. made \in Surjection(kinds, exhibits)
    BY <1>1 DEF Surjection
  <2> HIDE DEF kinds, made, exhibits
  <2> QED
    BY <2>1, <2>2, FS_Surjection, Zenon
<1>4. ExistsBijection(exhibits, quarantined)
  <2> DEFINE seen == [x \in exhibits |-> Quarantine(x)]
  <2>1. ASSUME NEW x \in exhibits, NEW y \in exhibits, seen[x] = seen[y] PROVE x = y
    <3>1. Quarantine(x) = Quarantine(y)
      BY <2>1
    <3>2. x.kind = y.kind /\ x.origin = y.origin /\ x.consistent = y.consistent /\ x.body = y.body
      <4>1. \A z : /\ Quarantine(z).kind = z.kind /\ Quarantine(z).origin = z.origin
                   /\ Quarantine(z).consistent = z.consistent /\ Quarantine(z).digest = z.body
        BY DEF Quarantine
      <4> QED
        BY <3>1, <4>1
    <3>3. /\ x = [kind |-> x.kind, origin |-> x.origin, consistent |-> x.consistent, body |-> x.body]
          /\ y = [kind |-> y.kind, origin |-> y.origin, consistent |-> y.consistent, body |-> y.body]
      BY <1>1 DEF Exhibit
    <3> QED
      BY <3>2, <3>3
  <2>2. seen \in Bijection(exhibits, quarantined)
    <3>1. seen \in [exhibits -> quarantined] /\ \A q \in quarantined : \E x \in exhibits : seen[x] = q
      BY DEF QuarantineAll
    <3> HIDE DEF seen, exhibits, quarantined
    <3>2. seen \in Injection(exhibits, quarantined)
      BY <2>1, <3>1 DEF Injection, IsInjective
    <3>3. seen \in Surjection(exhibits, quarantined)
      BY <3>1 DEF Surjection
    <3> QED
      BY <3>2, <3>3 DEF Bijection
  <2> QED
    BY <2>2 DEF ExistsBijection
<1> HIDE DEF exhibits, quarantined
<1>5. Cardinality(quarantined) = Cardinality(exhibits)
  BY <1>3, <1>4, FS_Bijection
<1> QED
  BY <1>5 DEF exhibits, quarantined

\* A run ends as the Skeptic expects it to.
LEMMA RunIsExpected ==
    ASSUME NEW input, Generated(input)
    PROVE  LET outcome == RunCustomsDefenseCase(input)
           IN  /\ outcome = OutcomeOf(outcome.packet)
               /\ PacketKnown(input, outcome.packet)
               /\ outcome.packet.cited = ExpectedFigures(input, outcome)
               /\ outcome.packet.citations = ExpectedCitations(input, outcome)
               /\ outcome.packet.clocks = ExpectedClocks(input, outcome)
<1> DEFINE quarantined == QuarantineAll(input.exhibits)
           gaps == Rederived(input)
           outcome == RunCustomsDefenseCase(input)
<1>1. outcome =
         IF ~Declared(input.cell) THEN OutcomeOf(RefusalPacket(input, {Outside}, {}))
         ELSE IF gaps # {} THEN OutcomeOf(RefusalPacket(input, gaps, quarantined))
         ELSE OutcomeOf(ProceedPacket(input, quarantined))
  BY DEF RunCustomsDefenseCase, Rederived
<1>2. /\ Cardinality(quarantined) = Cardinality(input.exhibits)
      /\ input.seed \in Int
  BY ExaminedAreCounted DEF Generated
<1>3. \A packet : /\ OutcomeOf(packet).disposition = packet.disposition
                  /\ OutcomeOf(packet).packet = packet
  BY DEF OutcomeOf
<1>4. \A g, q : /\ RefusalPacket(input, g, q).disposition = "REFUSE"
                /\ RefusalPacket(input, g, q).clocks = {}
                /\ RefusalPacket(input, g, q).citations = RefusalCitations(g)
                /\ RefusalPacket(input, g, q).cited =
                      InputFigures(input, Cardinality(q)) \cup PolicyCitationFigures(RefusalCitations(g))
  BY DEF RefusalPacket
<1> HIDE DEF quarantined, gaps, outcome
<1>5. CASE ~Declared(input.cell)
  <2> DEFINE p == RefusalPacket(input, {Outside}, {})
  <2>1. outcome = OutcomeOf(p) /\ outcome.packet = p /\ outcome.disposition = "REFUSE"
    BY <1>1, <1>3, <1>4, <1>5
  <2>2. PacketKnown(input, p)
    BY <1>2, RefusalKnown
  <2>3. RefusalCitations({Outside}) = {}
    BY DEF RefusalCitations, Outside, Ineligible
  <2>4. p.clocks = {} /\ p.citations = {} /\ p.cited = InputFigures(input, 0) \cup PolicyCitationFigures({})
    BY <1>4, <2>3, FS_EmptySet
  <2> HIDE DEF p
  <2>5. ExpectedCitations(input, outcome) = {} /\ ExpectedClocks(input, outcome) = {}
    BY <1>5, <2>1 DEF ExpectedCitations, ExpectedClocks
  <2>6. ExpectedFigures(input, outcome) = InputFigures(input, 0) \cup PolicyCitationFigures({})
    BY <1>5, <2>1, <2>5 DEF ExpectedFigures
  <2> QED
    BY <2>1, <2>2, <2>4, <2>5, <2>6 DEF outcome
<1>6. CASE Declared(input.cell) /\ gaps # {}
  <2> DEFINE p == RefusalPacket(input, gaps, quarantined)
  <2>1. outcome = OutcomeOf(p) /\ outcome.packet = p /\ outcome.disposition = "REFUSE"
    BY <1>1, <1>3, <1>4, <1>6
  <2>2. PacketKnown(input, p)
    BY <1>2, RefusalKnown
  <2>3. /\ p.clocks = {} /\ p.citations = RefusalCitations(gaps)
        /\ p.cited = InputFigures(input, Cardinality(quarantined))
                     \cup PolicyCitationFigures(RefusalCitations(gaps))
    BY <1>4
  <2> HIDE DEF p
  <2>4. ExpectedCitations(input, outcome) = RefusalCitations(gaps) /\ ExpectedClocks(input, outcome) = {}
    BY <1>6, <2>1 DEF ExpectedCitations, ExpectedClocks, gaps
  <2>5. ExpectedFigures(input, outcome) =
           InputFigures(input, Cardinality(input.exhibits)) \cup PolicyCitationFigures(RefusalCitations(gaps))
    BY <1>6, <2>1, <2>4 DEF ExpectedFigures
  <2> QED
    BY <1>2, <2>1, <2>2, <2>3, <2>4, <2>5 DEF outcome
<1>7. CASE Declared(input.cell) /\ gaps = {}
  <2> DEFINE p == ProceedPacket(input, quarantined)
             n == Cardinality(quarantined)
             scope == ScopeEntryPopulation(input.entries, Anywhere)
  <2>1. /\ p.clocks = Deadlines(input) /\ p.citations = ProceedCitations
        /\ p.cited = ProceedFigures(input, quarantined) \cup PolicyCitationFigures(ProceedCitations)
    BY ProceedIs
  <2>2. p.disposition = "PROCEED"
    BY DEF ProceedPacket
  <2>3. outcome = OutcomeOf(p) /\ outcome.packet = p /\ outcome.disposition = "PROCEED"
    BY <1>1, <1>3, <1>7, <2>2
  <2>4. PacketKnown(input, p)
    BY ProceedKnown
  <2> HIDE DEF p
  <2>5. ExpectedCitations(input, outcome) = ProceedCitations /\ ExpectedClocks(input, outcome) = Deadlines(input)
    BY <2>3 DEF ExpectedCitations, ExpectedClocks
  <2>6. ProceedFigures(input, quarantined) =
           InputFigures(input, n) \cup ScopeFigures(scope) \cup PenaltyFigures(scope)
           \cup ModelFigures \cup ClockFigures(Deadlines(input))
    BY DEF ProceedFigures
  <2>7. ExpectedFigures(input, outcome) =
           InputFigures(input, n) \cup PolicyCitationFigures(ProceedCitations)
           \cup (ScopeFigures(scope) \cup PenaltyFigures(scope) \cup ModelFigures
                 \cup ClockFigures(Deadlines(input)))
    BY <1>2, <1>7, <2>3, <2>5 DEF ExpectedFigures
  <2> HIDE DEF scope, n
  <2>8. p.cited = ExpectedFigures(input, outcome)
    BY <2>1, <2>6, <2>7
  <2> QED
    BY <2>1, <2>3, <2>4, <2>5, <2>8 DEF outcome
<1> QED
  BY <1>5, <1>6, <1>7

LEMMA KnownText ==
    ASSUME NEW input, NEW packet, PacketKnown(input, packet)
    PROVE  /\ CitationsCover(Render(packet).numerals, packet.cited)
           /\ ShownDays(packet) = FetchDates(packet) \cup DueDates(packet)
<1>1. PICK values : /\ packet.prose = Plain(values) \cup Dates(DueDates(packet))
                    /\ values \subseteq CitedValues(packet)
  BY DEF PacketKnown
<1> DEFINE stated == values \cup Stated(packet)
           dated == DueDates(packet) \cup Dated(packet)
           text == Render(packet).numerals
<1>2. text = Plain(stated) \cup Dates(dated)
  <2>1. PlainText(packet, values \cup Stated(packet), DueDates(packet) \cup Dated(packet))
    BY <1>1, TextIs
  <2> QED
    BY <2>1 DEF PlainText
<1> HIDE DEF text
<1>3. stated \subseteq CitedValues(packet)
  BY <1>1 DEF PacketKnown, Stated
<1>4. dated = FetchDates(packet) \cup DueDates(packet)
  BY DEF Dated
<1> HIDE DEF stated, dated
<1>5. /\ Unparseable(text) = {} /\ Figures(text) = stated
      /\ {t.value : t \in {t \in text : t.form = "DATE"}} = dated
  BY <1>2, ReadBack
<1>6. CitationsCover(text, packet.cited)
  <2>1. \A c \in packet.cited : c.ref # NoRef
    BY DEF PacketKnown
  <2>2. Figures(text) \subseteq {c.value : c \in packet.cited}
    BY <1>3, <1>5 DEF CitedValues
  <2> QED
    BY <1>5, <2>1, <2>2 DEF CitationsCover, Extract
<1> QED
  BY <1>4, <1>5, <1>6 DEF ShownDays, text

\* The Skeptic passes what the pipeline makes, and what it makes exists.
LEMMA RunIsAccepted ==
    ASSUME NEW input, Generated(input)
    PROVE  LET outcome == RunCustomsDefenseCase(input)
           IN  Produced(outcome.packet) /\ SkepticObjections(input, outcome) = {}
<1> PICK outcome : outcome = RunCustomsDefenseCase(input)
  OBVIOUS
<1> PICK packet : packet = outcome.packet
  OBVIOUS
<1>1. /\ outcome = OutcomeOf(packet) /\ PacketKnown(input, packet)
      /\ packet.cited = ExpectedFigures(input, outcome)
      /\ packet.citations = ExpectedCitations(input, outcome)
      /\ packet.clocks = ExpectedClocks(input, outcome)
  BY RunIsExpected
<1>2. /\ CitationsCover(Render(packet).numerals, packet.cited)
      /\ ShownDays(packet) = FetchDates(packet) \cup DueDates(packet)
  BY <1>1, KnownText
<1>3. outcome.text = Render(packet)
  BY <1>1 DEF OutcomeOf
<1>4. DispositionObjections(input, outcome) = {}
  BY RunDecides DEF DispositionObjections
<1>5. TextObjections(outcome) = {}
  BY <1>2, <1>3 DEF TextObjections
<1>6. FigureObjections(input, outcome) = {}
  BY <1>1 DEF FigureObjections
<1>7. DateObjections(input, outcome) = {}
  <2> PICK clocks, citations :
         clocks = ExpectedClocks(input, outcome) /\ citations = ExpectedCitations(input, outcome)
    OBVIOUS
  <2>1. packet.clocks = clocks /\ packet.citations = citations
    BY <1>1
  <2>2. FetchDates(packet) \subseteq AllowedDays(clocks, citations)
    BY <2>1 DEF FetchDates, AllowedDays
  <2>3. DueDates(packet) = DueDays(clocks)
    BY <2>1 DEF DueDates, DueDays
  <2>4. DueDates(packet) \subseteq AllowedDays(clocks, citations)
    BY <2>3 DEF AllowedDays
  <2>5. DateObjections(input, outcome) =
           (IF packet.clocks # clocks THEN {"clock"} ELSE {})
           \cup (IF ShownDays(packet) \subseteq AllowedDays(clocks, citations) THEN {} ELSE {"prose date"})
           \cup (IF DueDays(clocks) \subseteq ShownDays(packet) THEN {} ELSE {"no due date"})
    BY DEF DateObjections
  <2> QED
    BY <1>2, <2>1, <2>2, <2>3, <2>4, <2>5
<1>8. BodyObjections(input, outcome) = {}
  <2>1. packet.bodies = {} /\ Render(packet).bodies = packet.bodies
    BY <1>1 DEF PacketKnown, Render
  <2> QED
    BY <1>3, <2>1 DEF BodyObjections
<1>9. SkepticObjections(input, outcome) = {}
  BY <1>4, <1>5, <1>6, <1>7, <1>8 DEF SkepticObjections, NamedObjections
<1> QED
  BY <1>2, <1>9 DEF Produced

-----------------------------------------------------------------------------
(* Every edit is objected to.                                              *)

\* What is expected of an outcome depends on its case and on what it says of it.
LEMMA ExpectedIsKept ==
    ASSUME NEW input, NEW outcome, NEW edited, edited.disposition = outcome.disposition
    PROVE  /\ ExpectedFigures(input, edited) = ExpectedFigures(input, outcome)
           /\ ExpectedCitations(input, edited) = ExpectedCitations(input, outcome)
           /\ ExpectedClocks(input, edited) = ExpectedClocks(input, outcome)
<1>1. ExpectedCitations(input, edited) = ExpectedCitations(input, outcome)
  BY DEF ExpectedCitations
<1>2. ExpectedClocks(input, edited) = ExpectedClocks(input, outcome)
  BY DEF ExpectedClocks
<1> QED
  BY <1>1, <1>2 DEF ExpectedFigures

\* A figure of the packet that the case does not yield is named.
LEMMA FigureIsNamed ==
    ASSUME NEW input, NEW outcome, NEW c \in outcome.packet.cited,
           c \notin ExpectedFigures(input, outcome)
    PROVE  NamedObjections(input, outcome) # {}
<1> PICK expected : expected = ExpectedFigures(input, outcome)
  OBVIOUS
<1>1. "unknown ref" \in FigureObjections(input, outcome) \/ "figure" \in FigureObjections(input, outcome)
  <2>1. CASE c.ref \in {f.ref : f \in expected}
    <3>1. "figure" \in FigureObjections(input, outcome)
      BY <2>1 DEF FigureObjections
    <3> QED
      BY <3>1
  <2>2. CASE c.ref \notin {f.ref : f \in expected}
    <3>1. "unknown ref" \in FigureObjections(input, outcome)
      BY <2>2 DEF FigureObjections
    <3> QED
      BY <3>1
  <2> QED
    BY <2>1, <2>2
<1> QED
  BY <1>1 DEF NamedObjections

PacketFields == {"case", "disposition", "prose", "bodies", "cited", "gaps", "clocks",
                 "citations", "audit"}

\* What the edits of a packet change.
LEMMA EditsAre ==
    ASSUME NEW packet, DOMAIN packet = PacketFields, NEW x
    PROVE  /\ Reworked(packet, x).cited = x /\ Reworked(packet, x).prose = packet.prose
           /\ DOMAIN Reworked(packet, x) = PacketFields
           /\ Stating(packet, x).cited = packet.cited
           /\ Stating(packet, x).prose = packet.prose \cup x
           /\ Reclocked(packet, x).clocks = x
           /\ [packet EXCEPT !.bodies = x].bodies = x
BY DEF Reworked, Stating, Reclocked, PacketFields

LEMMA RenderedAre ==
    ASSUME NEW outcome, NEW packet
    PROVE  /\ Rerendered(outcome, packet).disposition = outcome.disposition
           /\ Rerendered(outcome, packet).packet = packet
           /\ Rerendered(outcome, packet).text = Render(packet)
BY DEF Rerendered

\* An outcome as the run of its case leaves it.
AsRun(input, outcome) ==
    /\ outcome = OutcomeOf(outcome.packet)
    /\ PacketKnown(input, outcome.packet)
    /\ outcome.packet.cited = ExpectedFigures(input, outcome)
    /\ outcome.packet.citations = ExpectedCitations(input, outcome)
    /\ outcome.packet.clocks = ExpectedClocks(input, outcome)

LEMMA UneditedIsItself ==
    ASSUME NEW input, NEW outcome, AsRun(input, outcome)
    PROVE  /\ Rerendered(outcome, outcome.packet) = outcome
           /\ DOMAIN outcome.packet = PacketFields
           /\ outcome.packet = [field \in PacketFields |-> outcome.packet[field]]
BY DEF AsRun, PacketKnown, Rerendered, OutcomeOf, PacketFields

LEMMA InflatedIsNamed ==
    ASSUME NEW input, NEW outcome, AsRun(input, outcome), NEW edited \in Inflated(outcome)
    PROVE  NamedObjections(input, edited) # {}
<1> DEFINE cited == outcome.packet.cited
           more(f) == Cite(f.value + 50, f.ref)
<1>1. PICK f \in cited :
         /\ more(f) \notin cited
         /\ edited = Rerendered(outcome, Stating(Reworked(outcome.packet, (cited \ {f}) \cup {more(f)}),
                                                 Plain({f.value + 50})))
  BY DEF Inflated
<1> PICK changed, c : changed = (cited \ {f}) \cup {more(f)} /\ c = more(f)
  OBVIOUS
<1>2. edited.disposition = outcome.disposition /\ c \in edited.packet.cited
  <2> DEFINE packet == Stating(Reworked(outcome.packet, changed), Plain({f.value + 50}))
  <2>1. edited = Rerendered(outcome, packet)
    BY <1>1
  <2>2. packet.cited = changed
    <3>1. DOMAIN outcome.packet = PacketFields
      BY UneditedIsItself
    <3>2. /\ DOMAIN Reworked(outcome.packet, changed) = PacketFields
          /\ Reworked(outcome.packet, changed).cited = changed
      BY <3>1, EditsAre
    <3> QED
      BY <3>2, EditsAre, ZenonT(60)
  <2> HIDE DEF packet
  <2> QED
    BY <2>1, <2>2, RenderedAre
<1>3. c \notin ExpectedFigures(input, edited)
  BY <1>1, <1>2, ExpectedIsKept DEF AsRun
<1> QED
  BY <1>2, <1>3, FigureIsNamed

LEMMA ShadowedIsNamed ==
    ASSUME NEW input, NEW outcome, AsRun(input, outcome), NEW edited \in Shadowed(outcome),
           edited # outcome
    PROVE  NamedObjections(input, edited) # {}
<1> PICK packet : packet = outcome.packet
  OBVIOUS
<1>1. PICK ref \in Stamps :
         edited = Rerendered(outcome, Stating(Reworked(packet, packet.cited \cup {Cite(77, ref)}),
                                              Plain({77})))
  BY DEF Shadowed, Stamps
<1> DEFINE c == Cite(77, ref)
           more == Reworked(packet, packet.cited \cup {c})
<1>2. /\ DOMAIN packet = PacketFields /\ packet = [field \in PacketFields |-> packet[field]]
      /\ Rerendered(outcome, packet) = outcome
  BY UneditedIsItself
<1>3. CASE c \in packet.cited
  <2>1. packet.cited \cup {c} = packet.cited
    BY <1>3
  <2>2. more = packet
    BY <1>2, <2>1 DEF Reworked, PacketFields
  <2>3. packet.prose \cup Plain({77}) = packet.prose
    <3>1. PICK values : /\ packet.prose = Plain(values) \cup Dates(DueDates(packet))
                        /\ \A f \in packet.cited : f.value = 77 /\ f.ref \in Stamps => 77 \in values
      BY DEF AsRun, PacketKnown
    <3>2. 77 \in values
      BY <1>3, <3>1, TokensSay
    <3> QED
      BY <3>1, <3>2 DEF Plain
  <2>4. Stating(packet, Plain({77})) = packet
    BY <1>2, <2>3 DEF Stating, PacketFields
  <2> QED
    BY <1>1, <1>2, <2>2, <2>4
<1>4. CASE c \notin packet.cited
  <2> DEFINE shadowed == Stating(more, Plain({77}))
  <2> HIDE DEF c
  <2>1. more.cited = packet.cited \cup {c} /\ DOMAIN more = PacketFields
    BY <1>2, EditsAre
  <2> HIDE DEF more
  <2>2. edited.disposition = outcome.disposition /\ c \in edited.packet.cited
    <3>1. edited = Rerendered(outcome, shadowed)
      BY <1>1 DEF more, c
    <3>2. c \in shadowed.cited
      BY <2>1, EditsAre
    <3> HIDE DEF shadowed
    <3> QED
      BY <3>1, <3>2, RenderedAre
  <2>3. c \notin ExpectedFigures(input, edited)
    BY <1>4, <2>2, ExpectedIsKept DEF AsRun
  <2> QED
    BY <2>2, <2>3, FigureIsNamed
<1> QED
  BY <1>3, <1>4

\* The only clock of a case is the notice's, due in thirty days.
LEMMA ClocksAre ==
    ASSUME NEW input, NEW outcome, NEW c \in ExpectedClocks(input, outcome)
    PROVE  c.mailed = 0 /\ c.due = 30
<1>1. c = Clock("CF28_RESPONSE", NoticeMailed)
  BY DEF ExpectedClocks, Deadlines
<1> QED
  BY <1>1 DEF Clock, NoticeMailed, WindowDays

LEMMA OtherDatesAreNamed ==
    ASSUME NEW input, NEW outcome, AsRun(input, outcome), NEW edited \in OtherDates(outcome),
           edited # outcome
    PROVE  NamedObjections(input, edited) # {}
<1> PICK packet : packet = outcome.packet
  OBVIOUS
<1> PICK clocks, citations :
       clocks = ExpectedClocks(input, outcome) /\ citations = ExpectedCitations(input, outcome)
  OBVIOUS
<1> PICK late : late = Late(clocks)
  OBVIOUS
<1>1. /\ DOMAIN packet = PacketFields /\ packet = [field \in PacketFields |-> packet[field]]
      /\ Rerendered(outcome, packet) = outcome /\ packet.clocks = clocks
  BY UneditedIsItself DEF AsRun
<1>2. \A c \in clocks : c.mailed = 0 /\ c.due = 30
  BY ClocksAre
<1>3. CASE edited = Rerendered(outcome, Stating(packet, Dates({999})))
  <2>1. /\ edited.disposition = outcome.disposition
        /\ Dates({999}) \subseteq edited.packet.prose
    BY <1>1, <1>3, EditsAre, RenderedAre
  <2>2. 999 \in ShownDays(edited.packet)
    <3>1. Token("DATE", 999) \in Render(edited.packet).numerals
      BY <2>1 DEF Dates, Render
    <3> QED
      BY <3>1, TokensSay DEF ShownDays
  <2>3. 999 \notin AllowedDays(clocks, citations)
    BY <1>2 DEF AllowedDays, DueDays, FetchedOn
  <2>4. "prose date" \in DateObjections(input, edited)
    BY <2>1, <2>2, <2>3, ExpectedIsKept DEF DateObjections
  <2> QED
    BY <2>4 DEF NamedObjections
<1>4. CASE edited = Rerendered(outcome, Reclocked(packet, late))
  <2>1. edited.disposition = outcome.disposition /\ edited.packet.clocks = late
    BY <1>1, <1>4, EditsAre, RenderedAre
  <2>2. late # clocks
    <3>1. CASE clocks = {}
      <4>1. late = clocks
        BY <3>1 DEF Late
      <4>2. Reclocked(packet, late) = packet
        BY <1>1, <4>1 DEF PacketFields, Reclocked
      <4> QED
        BY <1>1, <1>4, <4>2
    <3>2. CASE clocks # {}
      <4>1. \A c \in late : c.due = 999
        <5>1. \A c \in clocks : c = Clock("CF28_RESPONSE", NoticeMailed)
          BY DEF ExpectedClocks, Deadlines
        <5>2. ASSUME NEW d \in late PROVE d.due = 999
          <6>1. PICK c \in clocks : d = [c EXCEPT !.due = 999]
            BY ZenonT(60) DEF Late
          <6>2. "due" \in DOMAIN c
            BY <5>1 DEF Clock
          <6>3. [c EXCEPT !.due = 999].due = 999
            BY <6>2
          <6> QED
            BY <6>1, <6>3, ZenonT(60)
        <5> QED
          BY <5>2
      <4> QED
        BY <1>2, <3>2, <4>1
    <3> QED
      BY <3>1, <3>2
  <2>3. "clock" \in DateObjections(input, edited)
    BY <2>1, <2>2, ExpectedIsKept DEF DateObjections
  <2> QED
    BY <2>3 DEF NamedObjections
<1>5. \/ edited = Rerendered(outcome, Stating(packet, Dates({999})))
      \/ edited = Rerendered(outcome, Reclocked(packet, late))
  BY <1>1 DEF OtherDates
<1> QED
  BY <1>3, <1>4, <1>5

LEMMA LeakedIsNamed ==
    ASSUME NEW input, NEW outcome, AsRun(input, outcome), NEW edited \in Leaked(input, outcome)
    PROVE  NamedObjections(input, edited) # {}
<1>1. PICK x \in input.exhibits :
         edited = Rerendered(outcome, [outcome.packet EXCEPT !.bodies = {x.body}])
  BY DEF Leaked
<1>2. edited.packet.bodies = {x.body}
  <2> DEFINE packet == [outcome.packet EXCEPT !.bodies = {x.body}]
  <2>1. packet.bodies = {x.body}
    BY UneditedIsItself, EditsAre
  <2>2. edited = Rerendered(outcome, packet)
    BY <1>1
  <2> HIDE DEF packet
  <2> QED
    BY <2>1, <2>2, RenderedAre
<1>3. x.body \in Render(edited.packet).bodies
  BY <1>2 DEF Render
<1>4. "quarantine" \in BodyObjections(input, edited)
  BY <1>3 DEF BodyObjections
<1> QED
  BY <1>4 DEF NamedObjections

LEMMA FlippedIsNamed ==
    ASSUME NEW input, NEW outcome, outcome = RunCustomsDefenseCase(input),
           NEW edited \in Flipped(input, outcome), edited # outcome
    PROVE  NamedObjections(input, edited) # {}
<1>1. outcome = [disposition |-> outcome.disposition, gaps |-> outcome.gaps,
                 packet |-> outcome.packet, text |-> outcome.text]
      /\ outcome.text = Render(outcome.packet)
  <2>1. \E packet : outcome = OutcomeOf(packet)
    BY DEF RunCustomsDefenseCase
  <2> QED
    BY <2>1 DEF OutcomeOf
<1>2. /\ outcome.disposition =
            IF Declared(input.cell) /\ Rederived(input) = {} THEN "PROCEED" ELSE "REFUSE"
      /\ Declared(input.cell) => outcome.gaps = Rederived(input)
  BY RunDecides
<1>3. CASE edited = [outcome EXCEPT !.disposition = IF @ = "PROCEED" THEN "REFUSE" ELSE "PROCEED"]
  <2>1. edited.disposition = IF outcome.disposition = "PROCEED" THEN "REFUSE" ELSE "PROCEED"
    BY <1>1, <1>3
  <2>2. "coverage" \in DispositionObjections(input, edited)
           \/ "disposition" \in DispositionObjections(input, edited)
    BY <1>2, <2>1 DEF DispositionObjections
  <2> QED
    BY <2>2 DEF NamedObjections
<1>4. CASE Declared(input.cell) /\ edited \in GapDropped(outcome)
  <2>1. PICK gap \in outcome.gaps : edited = [outcome EXCEPT !.gaps = @ \ {gap}]
    BY <1>4 DEF GapDropped
  <2>2. gap \notin edited.gaps
    BY <1>1, <2>1
  <2>3. "gaps" \in DispositionObjections(input, edited)
    BY <1>2, <1>4, <2>2 DEF DispositionObjections
  <2> QED
    BY <2>3 DEF NamedObjections
<1>5. CASE edited = [outcome EXCEPT !.text = Restated(outcome.text, Plain({77}))]
  <2> DEFINE text == Restated(outcome.text, Plain({77}))
  <2>1. edited = [outcome EXCEPT !.text = text]
    BY <1>5
  <2> HIDE DEF text
  <2>2. edited.text = text /\ edited.packet = outcome.packet
    BY <1>1, <2>1
  <2>3. text # outcome.text
    <3> SUFFICES ASSUME text = outcome.text PROVE edited = outcome
      OBVIOUS
    <3> QED
      BY <1>1, <2>1
  <2>4. "stale text" \in TextObjections(edited)
    BY <1>1, <2>2, <2>3 DEF TextObjections
  <2> QED
    BY <2>4 DEF NamedObjections
<1> QED
  BY <1>3, <1>4, <1>5 DEF Flipped

\* A generated case: its outcome is accepted, and no edit of it is.
LEMMA ReviewIsExact ==
    ASSUME NEW input, Generated(input)
    PROVE  LET outcome == RunCustomsDefenseCase(input)
           IN  /\ Produced(outcome.packet) /\ SkepticObjections(input, outcome) = {}
               /\ \A edited \in Tampered(input, outcome) : NamedObjections(input, edited) # {}
               /\ \A edited \in Reworded(outcome) : SkepticObjections(input, edited) # {}
<1> PICK outcome : outcome = RunCustomsDefenseCase(input)
  OBVIOUS
<1>1. AsRun(input, outcome)
  BY RunIsExpected DEF AsRun
<1>2. ASSUME NEW edited \in Tampered(input, outcome)
      PROVE  NamedObjections(input, edited) # {}
  <2>1. edited # outcome
    BY DEF Tampered
  <2>2. \/ edited \in Inflated(outcome) \/ edited \in Shadowed(outcome)
        \/ edited \in OtherDates(outcome) \/ edited \in Leaked(input, outcome)
        \/ edited \in Flipped(input, outcome)
    BY DEF Tampered
  <2> QED
    BY <1>1, <2>1, <2>2, InflatedIsNamed, ShadowedIsNamed, OtherDatesAreNamed, LeakedIsNamed,
       FlippedIsNamed
<1>3. ASSUME NEW edited \in Reworded(outcome)
      PROVE  SkepticObjections(input, edited) # {}
  <2>1. edited # outcome
    BY DEF Reworded
  <2>2. "rerun" \in SkepticObjections(input, edited)
    BY <2>1 DEF SkepticObjections
  <2> QED
    BY <2>2
<1> QED
  BY <1>2, <1>3, RunIsAccepted

\* The Skeptic is neither blind nor quarrelsome, whatever the case: it passes every outcome
\* the pipeline makes, names every edit that its checks were written for, and its rerun
\* refuses the edits they leave (skeptic-check.ts).
THEOREM SkepticAlwaysExact == Spec => []SkepticIsExact
<1>1. ShownIsOnDocket => SkepticIsExact
  <2> SUFFICES ASSUME ShownIsOnDocket, JustOpened PROVE SkepticIsExact
    BY DEF SkepticIsExact
  <2>1. shown \in Docket
    BY DEF ShownIsOnDocket, JustOpened
  <2>2. Result[shown] = RunCustomsDefenseCase(File[shown])
    BY <2>1 DEF Result
  <2>3. Generated(File[shown])
    BY <2>1, DocketIsGenerated
  <2> QED
    BY <2>2, <2>3, ReviewIsExact DEF SkepticIsExact
<1> QED
  BY <1>1, ShownStays, PTL

-----------------------------------------------------------------------------
(* The records.  Where a layout puts each of its fields is a total of      *)
(* widths, the same at every place as the positions the readers cut at.    *)

\* Where the fields of a layout of n fields end.
EndsAre(ends, layout, n) ==
    /\ Len(layout) = n /\ DOMAIN layout = 1..n
    /\ ends[0] = 0 /\ \A i \in 0..n : ends[i] \in Nat
    /\ \A i \in 1..n : ends[i] = ends[i - 1] + layout[i].width

\* Then that is where the builders put its fields.
LEMMA SlicesAre ==
    ASSUME NEW layout, NEW n \in Nat, NEW ends, EndsAre(ends, layout, n)
    PROVE  Written(layout) = {<<layout[i].name, <<ends[i - 1], ends[i]>> >> : i \in 1..n}
<1> DEFINE w == [j \in DOMAIN layout |-> layout[j].width]
           T == {k \in Nat : k <= n => Sums(w)[k] = ends[k]}
<1> USE DEF EndsAre
<1>0. Len(w) = n
  BY LengthIs
<1>1. Sums(w)[0] = 0 /\ \A i \in 1..n : Sums(w)[i] = Sums(w)[i - 1] + layout[i].width
  <2>1. \A i \in 1..n : w[i] = layout[i].width
    OBVIOUS
  <2>2. Sums(w)[0] = 0 /\ \A i \in 1..n : Sums(w)[i] = Sums(w)[i - 1] + w[i]
    BY <1>0, SumsAre
  <2> QED
    BY <2>1, <2>2
<1> HIDE DEF w
<1>2. 0 \in T
  BY <1>1
<1>3. ASSUME NEW k \in T PROVE k + 1 \in T
  <2>0. k \in Nat
    OBVIOUS
  <2> SUFFICES ASSUME k + 1 <= n PROVE Sums(w)[k + 1] = ends[k + 1]
    BY <2>0
  <2>1. Sums(w)[k] = ends[k] /\ k + 1 \in 1..n /\ (k + 1) - 1 = k
    BY <2>0
  <2> QED
    BY <1>1, <2>1
<1> HIDE DEF T
<1>4. T = Nat
  BY <1>2, <1>3, Induct DEF T
<1>5. \A k \in 0..n : Sums(w)[k] = ends[k]
  BY <1>4, SMTT(30) DEF T
<1>6. \A i \in 1..n : Slice(layout, i) = <<ends[i - 1], ends[i]>>
  <2> SUFFICES ASSUME NEW i \in 1..n PROVE Slice(layout, i) = <<ends[i - 1], ends[i]>>
    OBVIOUS
  <2>1. WidthBefore(layout, i) = ends[i - 1]
    BY <1>5 DEF WidthBefore, w
  <2> QED
    BY <2>1 DEF Slice
<1> DEFINE There(i) == <<layout[i].name, Slice(layout, i)>>
           Here(i) == <<layout[i].name, <<ends[i - 1], ends[i]>> >>
<1>7. Written(layout) = {There(i) : i \in 1..n}
  BY DEF Written
<1>8. \A i \in 1..n : There(i) = Here(i)
  BY <1>6
<1> HIDE DEF There, Here
<1>9. {There(i) : i \in 1..n} = {Here(i) : i \in 1..n}
  BY <1>8
<1>10. Written(layout) = {Here(i) : i \in 1..n}
  BY <1>7, <1>9, Zenon
<1> QED
  BY <1>10 DEF Here

\* What a field of a layout says.
LEMMA FieldsSay ==
    \A name, width : Field(name, width).name = name /\ Field(name, width).width = width
BY DEF Field

\* The entry header, the importer, the line and its duty are read where they are written.
LEMMA EntryHeaderIsRead == Read10 \subseteq Written(Layout10) /\ ScoperReads10 \subseteq Written(Layout10)
<1> DEFINE ends == [i \in 0..11 |->
                      << 0, 2, 3, 6, 8, 16, 17, 21, 30, 33, 35, 37 >>[i + 1]]
<1>1. Len(Layout10) = 11 /\ DOMAIN Layout10 = 1..11
  BY DEF Layout10
<1>2. /\ ends[0] = 0 /\ ends[1] = 2 /\ ends[2] = 3 /\ ends[3] = 6 /\ ends[4] = 8
      /\ ends[5] = 16 /\ ends[6] = 17 /\ ends[7] = 21 /\ ends[8] = 30 /\ ends[9] = 33
      /\ ends[10] = 35 /\ ends[11] = 37
  OBVIOUS
<1>3. /\ Layout10[1] = Field("control", 2) /\ Layout10[2] = Field("actionCode", 1)
      /\ Layout10[3] = Field("filerCode", 3) /\ Layout10[4] = Filler(2)
      /\ Layout10[5] = Field("entryNumber", 8) /\ Layout10[6] = Filler(1)
      /\ Layout10[7] = Field("portOfEntry", 4) /\ Layout10[8] = Field("brokerReference", 9)
      /\ Layout10[9] = Filler(3) /\ Layout10[10] = Field("entryTypeCode", 2)
      /\ Layout10[11] = Field("modeOfTransport", 2)
  BY DEF Layout10
<1>4. /\ Layout10[1].width = 2 /\ Layout10[2].width = 1 /\ Layout10[3].width = 3
      /\ Layout10[4].width = 2 /\ Layout10[5].width = 8 /\ Layout10[6].width = 1
      /\ Layout10[7].width = 4 /\ Layout10[8].width = 9 /\ Layout10[9].width = 3
      /\ Layout10[10].width = 2 /\ Layout10[11].width = 2
  BY <1>3, FieldsSay DEF Filler
<1> HIDE DEF ends
<1>5. Written(Layout10) = {<<Layout10[i].name, <<ends[i - 1], ends[i]>> >> : i \in 1..11}
  <2>1. \A i \in 0..11 : ends[i] \in Nat
    BY <1>2
  <2>2. \A i \in 1..11 : ends[i] = ends[i - 1] + Layout10[i].width
    BY <1>2, <1>4
  <2>3. EndsAre(ends, Layout10, 11)
    BY <1>1, <1>2, <2>1, <2>2 DEF EndsAre
  <2> QED
    BY <2>3, SlicesAre
<1>6. \A i \in 1..11 : <<Layout10[i].name, <<ends[i - 1], ends[i]>> >> \in Written(Layout10)
  BY <1>5
<1>7. /\ <<"control", <<0, 2>> >> \in Written(Layout10)
      /\ <<"actionCode", <<2, 3>> >> \in Written(Layout10)
      /\ <<"filerCode", <<3, 6>> >> \in Written(Layout10)
  BY <1>2, <1>3, <1>6, FieldsSay DEF Filler
<1>8. /\ <<"filler", <<6, 8>> >> \in Written(Layout10)
      /\ <<"entryNumber", <<8, 16>> >> \in Written(Layout10)
      /\ <<"portOfEntry", <<17, 21>> >> \in Written(Layout10)
  BY <1>2, <1>3, <1>6, FieldsSay DEF Filler
<1>9. /\ <<"entryTypeCode", <<33, 35>> >> \in Written(Layout10)
  BY <1>2, <1>3, <1>6, FieldsSay DEF Filler
<1> QED
  BY <1>7, <1>8, <1>9 DEF Read10, ScoperReads10

LEMMA ImporterIsRead == Read11 \subseteq Written(Layout11)
<1> DEFINE ends == [i \in 0..2 |->
                      << 0, 2, 14 >>[i + 1]]
<1>1. Len(Layout11) = 2 /\ DOMAIN Layout11 = 1..2
  BY DEF Layout11
<1>2. /\ ends[0] = 0 /\ ends[1] = 2 /\ ends[2] = 14
  OBVIOUS
<1>3. /\ Layout11[1] = Field("control", 2) /\ Layout11[2] = Field("importerOfRecord", 12)
  BY DEF Layout11
<1>4. /\ Layout11[1].width = 2 /\ Layout11[2].width = 12
  BY <1>3, FieldsSay DEF Filler
<1> HIDE DEF ends
<1>5. Written(Layout11) = {<<Layout11[i].name, <<ends[i - 1], ends[i]>> >> : i \in 1..2}
  <2>1. \A i \in 0..2 : ends[i] \in Nat
    BY <1>2
  <2>2. \A i \in 1..2 : ends[i] = ends[i - 1] + Layout11[i].width
    BY <1>2, <1>4
  <2>3. EndsAre(ends, Layout11, 2)
    BY <1>1, <1>2, <2>1, <2>2 DEF EndsAre
  <2> QED
    BY <2>3, SlicesAre
<1>6. \A i \in 1..2 : <<Layout11[i].name, <<ends[i - 1], ends[i]>> >> \in Written(Layout11)
  BY <1>5
<1>7. /\ <<"control", <<0, 2>> >> \in Written(Layout11)
      /\ <<"importerOfRecord", <<2, 14>> >> \in Written(Layout11)
  BY <1>2, <1>3, <1>6, FieldsSay DEF Filler
<1> QED
  BY <1>7 DEF Read11

LEMMA LineIsRead == Read40 \subseteq Written(Layout40) /\ ScoperReads40 \subseteq Written(Layout40)
<1> DEFINE ends == [i \in 0..12 |->
                      << 0, 2, 4, 7, 8, 10, 12, 18, 24, 26, 36, 41, 51 >>[i + 1]]
<1>1. Len(Layout40) = 12 /\ DOMAIN Layout40 = 1..12
  BY DEF Layout40
<1>2. /\ ends[0] = 0 /\ ends[1] = 2 /\ ends[2] = 4 /\ ends[3] = 7 /\ ends[4] = 8
      /\ ends[5] = 10 /\ ends[6] = 12 /\ ends[7] = 18 /\ ends[8] = 24 /\ ends[9] = 26
      /\ ends[10] = 36 /\ ends[11] = 41 /\ ends[12] = 51
  OBVIOUS
<1>3. /\ Layout40[1] = Field("control", 2) /\ Layout40[2] = Filler(2)
      /\ Layout40[3] = Field("lineItemIdentifier", 3) /\ Layout40[4] = Filler(1)
      /\ Layout40[5] = Field("countryOfOrigin", 2)
      /\ Layout40[6] = Field("countryOfExport", 2)
      /\ Layout40[7] = Field("dateOfExportation", 6) /\ Layout40[8] = Filler(6)
      /\ Layout40[9] = Field("spiClaimCode", 2) /\ Layout40[10] = Field("chargesAmount", 10)
      /\ Layout40[11] = Field("foreignPortOfLading", 5)
      /\ Layout40[12] = Field("grossShippingWeightKg", 10)
  BY DEF Layout40
<1>4. /\ Layout40[1].width = 2 /\ Layout40[2].width = 2 /\ Layout40[3].width = 3
      /\ Layout40[4].width = 1 /\ Layout40[5].width = 2 /\ Layout40[6].width = 2
      /\ Layout40[7].width = 6 /\ Layout40[8].width = 6 /\ Layout40[9].width = 2
      /\ Layout40[10].width = 10 /\ Layout40[11].width = 5 /\ Layout40[12].width = 10
  BY <1>3, FieldsSay DEF Filler
<1> HIDE DEF ends
<1>5. Written(Layout40) = {<<Layout40[i].name, <<ends[i - 1], ends[i]>> >> : i \in 1..12}
  <2>1. \A i \in 0..12 : ends[i] \in Nat
    BY <1>2
  <2>2. \A i \in 1..12 : ends[i] = ends[i - 1] + Layout40[i].width
    BY <1>2, <1>4
  <2>3. EndsAre(ends, Layout40, 12)
    BY <1>1, <1>2, <2>1, <2>2 DEF EndsAre
  <2> QED
    BY <2>3, SlicesAre
<1>6. \A i \in 1..12 : <<Layout40[i].name, <<ends[i - 1], ends[i]>> >> \in Written(Layout40)
  BY <1>5
<1>7. /\ <<"control", <<0, 2>> >> \in Written(Layout40)
      /\ <<"lineItemIdentifier", <<4, 7>> >> \in Written(Layout40)
      /\ <<"countryOfOrigin", <<8, 10>> >> \in Written(Layout40)
  BY <1>2, <1>3, <1>6, FieldsSay DEF Filler
<1>8. /\ <<"countryOfExport", <<10, 12>> >> \in Written(Layout40)
      /\ <<"dateOfExportation", <<12, 18>> >> \in Written(Layout40)
      /\ <<"chargesAmount", <<26, 36>> >> \in Written(Layout40)
  BY <1>2, <1>3, <1>6, FieldsSay DEF Filler
<1>9. /\ <<"grossShippingWeightKg", <<41, 51>> >> \in Written(Layout40)
  BY <1>2, <1>3, <1>6, FieldsSay DEF Filler
<1> QED
  BY <1>7, <1>8, <1>9 DEF Read40, ScoperReads40

LEMMA DutyIsRead == Read50 \subseteq Written(Layout50) /\ ScoperReads50 \subseteq Written(Layout50)
<1> DEFINE ends == [i \in 0..9 |->
                      << 0, 2, 12, 13, 23, 24, 34, 35, 47, 50 >>[i + 1]]
<1>1. Len(Layout50) = 9 /\ DOMAIN Layout50 = 1..9
  BY DEF Layout50
<1>2. /\ ends[0] = 0 /\ ends[1] = 2 /\ ends[2] = 12 /\ ends[3] = 13 /\ ends[4] = 23
      /\ ends[5] = 24 /\ ends[6] = 34 /\ ends[7] = 35 /\ ends[8] = 47 /\ ends[9] = 50
  OBVIOUS
<1>3. /\ Layout50[1] = Field("control", 2) /\ Layout50[2] = Field("htsNumber", 10)
      /\ Layout50[3] = Filler(1) /\ Layout50[4] = Field("dutyAmountCents", 10)
      /\ Layout50[5] = Filler(1) /\ Layout50[6] = Field("valueOfGoodsUsd", 10)
      /\ Layout50[7] = Filler(1) /\ Layout50[8] = Field("quantity1", 12)
      /\ Layout50[9] = Field("unitOfMeasure1", 3)
  BY DEF Layout50
<1>4. /\ Layout50[1].width = 2 /\ Layout50[2].width = 10 /\ Layout50[3].width = 1
      /\ Layout50[4].width = 10 /\ Layout50[5].width = 1 /\ Layout50[6].width = 10
      /\ Layout50[7].width = 1 /\ Layout50[8].width = 12 /\ Layout50[9].width = 3
  BY <1>3, FieldsSay DEF Filler
<1> HIDE DEF ends
<1>5. Written(Layout50) = {<<Layout50[i].name, <<ends[i - 1], ends[i]>> >> : i \in 1..9}
  <2>1. \A i \in 0..9 : ends[i] \in Nat
    BY <1>2
  <2>2. \A i \in 1..9 : ends[i] = ends[i - 1] + Layout50[i].width
    BY <1>2, <1>4
  <2>3. EndsAre(ends, Layout50, 9)
    BY <1>1, <1>2, <2>1, <2>2 DEF EndsAre
  <2> QED
    BY <2>3, SlicesAre
<1>6. \A i \in 1..9 : <<Layout50[i].name, <<ends[i - 1], ends[i]>> >> \in Written(Layout50)
  BY <1>5
<1>7. /\ <<"control", <<0, 2>> >> \in Written(Layout50)
      /\ <<"htsNumber", <<2, 12>> >> \in Written(Layout50)
      /\ <<"dutyAmountCents", <<13, 23>> >> \in Written(Layout50)
  BY <1>2, <1>3, <1>6, FieldsSay DEF Filler
<1>8. /\ <<"valueOfGoodsUsd", <<24, 34>> >> \in Written(Layout50)
      /\ <<"quantity1", <<35, 47>> >> \in Written(Layout50)
      /\ <<"unitOfMeasure1", <<47, 50>> >> \in Written(Layout50)
  BY <1>2, <1>3, <1>6, FieldsSay DEF Filler
<1> QED
  BY <1>7, <1>8 DEF Read50, ScoperReads50


-----------------------------------------------------------------------------
(* The check digit.  What a slip does to the total is what it does to the  *)
(* share of the place it is at.                                            *)

\* A doubled digit is a digit.  Doubling parts any two digits, and gains what parts
\* any two but 0 and 9.
LEMMA DoubledParts ==
    \A a, b \in 0..9 :
        /\ Doubled(a) \in 0..9
        /\ Doubled(a) = Doubled(b) => a = b
        /\ (Doubled(a) - a) % 10 = (Doubled(b) - b) % 10 => a = b \/ {a, b} = {0, 9}
<1>1. /\ Doubled(0) = 0 /\ Doubled(1) = 2 /\ Doubled(2) = 4 /\ Doubled(3) = 6 /\ Doubled(4) = 8
      /\ Doubled(5) = 1 /\ Doubled(6) = 3 /\ Doubled(7) = 5 /\ Doubled(8) = 7 /\ Doubled(9) = 9
  BY DEF Doubled
<1>2. \A a \in 0..9 : a = 0 \/ a = 1 \/ a = 2 \/ a = 3 \/ a = 4 \/ a = 5 \/ a = 6 \/ a = 7
                         \/ a = 8 \/ a = 9
  OBVIOUS
<1>3. \A a \in 0..9 : /\ Doubled(a) \in 0..9
                      /\ a <= 4 => Doubled(a) = 2 * a
                      /\ a > 4 => Doubled(a) = 2 * a - 9
  BY <1>1, <1>2
<1>4. \A a, b \in 0..9 : Doubled(a) = Doubled(b) => a = b
  BY <1>3
<1>5. ASSUME NEW a \in 0..9, NEW b \in 0..9, (Doubled(a) - a) % 10 = (Doubled(b) - b) % 10
      PROVE  a = b \/ {a, b} = {0, 9}
  <2>1. \A c \in 0..9 : (Doubled(c) - c) % 10 = IF c <= 4 THEN c ELSE (IF c = 9 THEN 0 ELSE c + 1)
    <3> SUFFICES ASSUME NEW c \in 0..9
                 PROVE  (Doubled(c) - c) % 10 = IF c <= 4 THEN c ELSE (IF c = 9 THEN 0 ELSE c + 1)
      OBVIOUS
    <3>1. CASE c <= 4
      <4>1. Doubled(c) - c = c
        BY <1>3, <3>1
      <4>2. c % 10 = c
        BY <3>1
      <4> QED
        BY <3>1, <4>1, <4>2
    <3>2. CASE c > 4
      <4>1. Doubled(c) - c = c - 9
        BY <1>3, <3>2
      <4>2. (c - 9) % 10 = IF c = 9 THEN 0 ELSE c + 1
        BY <3>2
      <4> QED
        BY <3>2, <4>1, <4>2
    <3> QED
      BY <3>1, <3>2
  <2>2. \/ a = b \/ (a = 0 /\ b = 9) \/ (a = 9 /\ b = 0)
    BY <1>5, <2>1
  <2> QED
    BY <2>2
<1> QED
  BY <1>3, <1>4, <1>5

\* What a number adds to the total at each place, and what it comes to after the filer code.
Share(i, digit) == IF i % 2 = 1 THEN Doubled(digit) ELSE digit
Weight(m) ==
    20 + Doubled(m[1]) + m[2] + Doubled(m[3]) + m[4] + Doubled(m[5]) + m[6] + Doubled(m[7])

\* The broker's code as its numbers.
LEMMA FilerIs == /\ FilerCode = <<9, 2, 7>>
                 /\ Len(FilerCode) = 3 /\ FilerCode[1] = 9 /\ FilerCode[2] = 2 /\ FilerCode[3] = 7
<1>1. LetterValue(18) = 9 /\ LetterValue(19) = 2 /\ LetterValue(24) = 7
  BY DEF LetterValue
<1> QED
  BY <1>1 DEF FilerCode

\* Seven digits are a row of seven.
LEMMA DigitsAreRow ==
    ASSUME NEW m \in [1..7 -> 0..9]
    PROVE  m \in Seq(0..9) /\ Len(m) = 7
<1>1. Len(m) = 7
  BY LengthIs
<1>2. m = [i \in 1..7 |-> m[i]] /\ \A i \in 1..7 : m[i] \in 0..9
  OBVIOUS
<1>3. [i \in 1..7 |-> m[i]] \in Seq(0..9)
  BY <1>2
<1> QED
  BY <1>1, <1>2, <1>3

\* The check digit of a number is what its weight lacks to a ten.
LEMMA CheckIs ==
    ASSUME NEW m \in [1..7 -> 0..9]
    PROVE  Weight(m) \in Nat /\ CheckDigit(FilerCode \o m) = (10 - (Weight(m) % 10)) % 10
<1> DEFINE base == FilerCode \o m
           weighed == [i \in 1..Len(base) |-> IF i % 2 = 0 THEN Doubled(base[i]) ELSE base[i]]
<1>1. m \in Seq(0..9) /\ Len(m) = 7
  BY DigitsAreRow
<1>2. FilerCode \in Seq(0..9)
  BY FilerIs
<1>3. Len(base) = 10 /\ \A i \in 1..10 : base[i] = IF i <= 3 THEN FilerCode[i] ELSE m[i - 3]
  <2>1. /\ Len(FilerCode \o m) = Len(FilerCode) + Len(m)
        /\ \A i \in 1 .. Len(FilerCode) + Len(m) : (FilerCode \o m)[i] =
              IF i <= Len(FilerCode) THEN FilerCode[i] ELSE m[i - Len(FilerCode)]
    BY <1>1, <1>2, ConcatProperties, Zenon
  <2> QED
    BY <1>1, <2>1, FilerIs
<1> HIDE DEF base
<1>4. base[1] = 9 /\ base[2] = 2 /\ base[3] = 7
  BY <1>3, FilerIs
<1>5. /\ base[4] = m[1] /\ base[5] = m[2] /\ base[6] = m[3] /\ base[7] = m[4]
      /\ base[8] = m[5] /\ base[9] = m[6] /\ base[10] = m[7]
  BY <1>3
<1>6. DOMAIN weighed = 1..10
  BY <1>3
<1>7. /\ weighed[1] = 9 /\ weighed[2] = Doubled(2) /\ weighed[3] = 7
      /\ weighed[4] = Doubled(m[1]) /\ weighed[5] = m[2] /\ weighed[6] = Doubled(m[3])
      /\ weighed[7] = m[4] /\ weighed[8] = Doubled(m[5]) /\ weighed[9] = m[6]
      /\ weighed[10] = Doubled(m[7])
  BY <1>3, <1>4, <1>5
<1>8. CheckDigit(FilerCode \o m) = (10 - (Total(weighed) % 10)) % 10
  BY DEF CheckDigit, base
<1> HIDE DEF weighed
<1>9. Len(weighed) = 10
  BY <1>6, LengthIs
<1>10. Doubled(2) = 4
  BY DEF Doubled
<1>11. \A i \in 1..7 : m[i] \in 0..9 /\ Doubled(m[i]) \in 0..9
  BY DoubledParts
<1> PICK s : s = Sums(weighed)
  OBVIOUS
<1>12. s[0] = 0 /\ Total(weighed) = s[10] /\ \A i \in 1..10 : s[i] = s[i - 1] + weighed[i]
  <2>1. 10 \in Nat
    OBVIOUS
  <2> QED
    BY <1>9, <2>1, SumsAre
<1>13. s[1] = 9 /\ s[2] = 13 /\ s[3] = 20
  BY <1>7, <1>10, <1>12
<1>14. /\ s[4] = s[3] + Doubled(m[1]) /\ s[5] = s[4] + m[2] /\ s[6] = s[5] + Doubled(m[3])
       /\ s[7] = s[6] + m[4] /\ s[8] = s[7] + Doubled(m[5]) /\ s[9] = s[8] + m[6]
       /\ s[10] = s[9] + Doubled(m[7])
  BY <1>7, <1>12
<1>15. s[10] = Weight(m)
  BY <1>13, <1>14 DEF Weight
<1>16. Weight(m) \in Nat
  BY <1>11 DEF Weight
<1> QED
  BY <1>8, <1>12, <1>15, <1>16

\* What a slip of one place does to the weight.
LEMMA WeightMoves ==
    ASSUME NEW m \in [1..7 -> 0..9], NEW i \in 1..7, NEW d \in 0..9
    PROVE  Weight([m EXCEPT ![i] = d]) = Weight(m) - Share(i, m[i]) + Share(i, d)
<1> DEFINE t == [m EXCEPT ![i] = d]
<1>0. \A j \in 1..7 : m[j] \in Int /\ Doubled(m[j]) \in Int
  BY DoubledParts
<1>1. d \in Int /\ Doubled(d) \in Int
  BY DoubledParts
<1>2. \A j \in 1..7 : t[j] = IF j = i THEN d ELSE m[j]
  OBVIOUS
<1> HIDE DEF t
<1>3. i = 1 \/ i = 2 \/ i = 3 \/ i = 4 \/ i = 5 \/ i = 6 \/ i = 7
  OBVIOUS
<1> QED
  BY <1>0, <1>1, <1>2, <1>3 DEF Weight, Share, t


\* Two weights have one check digit only where they differ by tens.
LEMMA CheckParts ==
    \A w, v \in Nat : (10 - (w % 10)) % 10 = (10 - (v % 10)) % 10 => (v - w) % 10 = 0
<1>1. ASSUME NEW w \in Nat, NEW v \in Nat, (10 - (w % 10)) % 10 = (10 - (v % 10)) % 10
      PROVE  (v - w) % 10 = 0
  <2>1. \A x \in 0..9 : (10 - x) % 10 = IF x = 0 THEN 0 ELSE 10 - x
    OBVIOUS
  <2>2. w % 10 \in 0..9 /\ v % 10 \in 0..9
    OBVIOUS
  <2>3. w % 10 = v % 10
    BY <1>1, <2>1, <2>2
  <2> QED
    BY <2>3
<1> QED
  BY <1>1

\* Digits a multiple of ten apart are one, and numbers have one last digit.
LEMMA TensApart ==
    /\ \A x, y \in 0..9 : (x - y) % 10 = 0 => x = y
    /\ \A x, y \in Int : (x - y) % 10 = 0 => x % 10 = y % 10
<1>1. \A x, y \in 0..9 : (x - y) % 10 = 0 => x = y
  OBVIOUS
<1>2. \A x, y \in Int : (x - y) % 10 = 0 => x % 10 = y % 10
  OBVIOUS
<1> QED
  BY <1>1, <1>2

\* A digit is added behind the last.
LEMMA Appended ==
    \A s \in Seq(0..9) : \A n \in Nat : \A c \in 0..9 : Len(s) = n =>
        /\ Len(Append(s, c)) = n + 1 /\ Append(s, c)[n + 1] = c
        /\ \A i \in 1..n : Append(s, c)[i] = s[i]
OBVIOUS

\* What an entry number is made of.
LEMMA NumberIs ==
    ASSUME NEW m \in [1..7 -> 0..9], NEW number, number = EntryNumber(FilerCode, m)
    PROVE  /\ number \in Seq(0..9) /\ Len(number) = 8 /\ number[8] = CheckDigit(FilerCode \o m)
           /\ \A i \in 1..7 : number[i] = m[i]
<1> PICK c : c = CheckDigit(FilerCode \o m)
  OBVIOUS
<1>1. c \in 0..9
  <2>1. Weight(m) \in Nat /\ c = (10 - (Weight(m) % 10)) % 10
    BY CheckIs
  <2> QED
    BY <2>1
<1>2. m \in Seq(0..9) /\ Len(m) = 7
  BY DigitsAreRow
<1>3. number = Append(m, c)
  BY DEF EntryNumber
<1>4. Append(m, c) \in Seq(0..9)
  BY <1>1, <1>2
<1> PICK k \in Nat : k = 7
  OBVIOUS
<1>5. /\ Len(Append(m, c)) = k + 1 /\ Append(m, c)[k + 1] = c
      /\ \A i \in 1..k : Append(m, c)[i] = m[i]
  <2>1. Len(m) = k
    BY <1>2
  <2> QED
    BY <1>1, <1>2, <2>1, Appended, Zenon
<1>6. k + 1 = 8
  OBVIOUS
<1> QED
  BY <1>3, <1>4, <1>5, <1>6

\* A number is valid by its first seven digits and its eighth.
LEMMA ValidIs ==
    ASSUME NEW number, Len(number) = 8, NEW m \in [1..7 -> 0..9],
           \A i \in 1..7 : number[i] = m[i]
    PROVE  EntryNumberValid(FilerCode, number) <=> number[8] = CheckDigit(FilerCode \o m)
<1>1. /\ SubSeq(number, 1, 7) \in Seq(0..9) /\ Len(SubSeq(number, 1, 7)) = 7
      /\ \A i \in 1..7 : SubSeq(number, 1, 7)[i] = number[i]
  <2>1. 1 \in Int /\ 7 \in Int /\ \A i \in 1..7 : number[i] \in 0..9
    OBVIOUS
  <2>2. /\ SubSeq(number, 1, 7) \in Seq(0..9)
        /\ Len(SubSeq(number, 1, 7)) = IF 1 <= 7 THEN 7 - 1 + 1 ELSE 0
        /\ \A i \in 1..(7 - 1 + 1) : SubSeq(number, 1, 7)[i] = number[1 + i - 1]
    BY <2>1, SubSeqProperties
  <2> QED
    BY <2>2
<1>2. m \in Seq(0..9) /\ Len(m) = 7
  BY DigitsAreRow
<1>3. SubSeq(number, 1, 7) = m
  <2>1. \A i \in 1..7 : SubSeq(number, 1, 7)[i] = m[i]
    BY <1>1
  <2> QED
    BY <1>1, <1>2, <2>1, SeqEqual
<1> QED
  BY <1>3 DEF EntryNumberValid

\* One digit of a number taken for another.
LEMMA SlipIsCaught ==
    ASSUME NEW m \in [1..7 -> 0..9], NEW number, number = EntryNumber(FilerCode, m),
           NEW i \in 1..7, NEW d \in 0..9, d # number[i]
    PROVE  ~EntryNumberValid(FilerCode, [number EXCEPT ![i] = d])
<1> DEFINE slip == [number EXCEPT ![i] = d]
           t == [m EXCEPT ![i] = d]
<1>1. /\ number \in Seq(0..9) /\ Len(number) = 8 /\ number[8] = CheckDigit(FilerCode \o m)
      /\ \A j \in 1..7 : number[j] = m[j]
  BY NumberIs
<1>2. Len(slip) = 8 /\ \A j \in 1..8 : slip[j] = IF j = i THEN d ELSE number[j]
  BY <1>1
<1>3. t \in [1..7 -> 0..9] /\ \A j \in 1..7 : t[j] = IF j = i THEN d ELSE m[j]
  OBVIOUS
<1>4. Weight(t) = Weight(m) - Share(i, m[i]) + Share(i, d)
  BY WeightMoves
<1> HIDE DEF slip, t
<1>5. slip[8] = CheckDigit(FilerCode \o m) /\ \A j \in 1..7 : slip[j] = t[j]
  BY <1>1, <1>2, <1>3
<1>v. EntryNumberValid(FilerCode, slip) <=> slip[8] = CheckDigit(FilerCode \o t)
  BY <1>2, <1>3, <1>5, ValidIs
<1> SUFFICES ASSUME CheckDigit(FilerCode \o m) = CheckDigit(FilerCode \o t) PROVE FALSE
  BY <1>5, <1>v, Zenon DEF slip
<1>6. /\ Weight(m) \in Nat /\ CheckDigit(FilerCode \o m) = (10 - (Weight(m) % 10)) % 10
      /\ Weight(t) \in Nat /\ CheckDigit(FilerCode \o t) = (10 - (Weight(t) % 10)) % 10
  BY <1>3, CheckIs
<1>7. (Weight(t) - Weight(m)) % 10 = 0
  BY <1>6, CheckParts
<1>8. Share(i, m[i]) \in 0..9 /\ Share(i, d) \in 0..9
  BY DoubledParts DEF Share
<1>9. (Share(i, d) - Share(i, m[i])) % 10 = 0
  BY <1>4, <1>6, <1>7, <1>8
<1>10. Share(i, d) = Share(i, m[i])
  BY <1>8, <1>9, TensApart
<1>11. d = m[i]
  BY <1>10, DoubledParts DEF Share
<1> QED
  BY <1>1, <1>11

\* Two neighbours exchanged.
LEMMA SwapIsCaught ==
    ASSUME NEW m \in [1..7 -> 0..9], NEW number, number = EntryNumber(FilerCode, m),
           NEW i \in 1..6, number[i] # number[i + 1], {number[i], number[i + 1]} # {0, 9}
    PROVE  ~EntryNumberValid(FilerCode, [number EXCEPT ![i] = number[i + 1], ![i + 1] = number[i]])
<1> PICK a \in 0..9, b \in 0..9 : a = m[i] /\ b = m[i + 1]
  OBVIOUS
<1> DEFINE slip == [number EXCEPT ![i] = number[i + 1], ![i + 1] = number[i]]
           one == [m EXCEPT ![i] = b]
           both == [one EXCEPT ![i + 1] = a]
<1>1. /\ number \in Seq(0..9) /\ Len(number) = 8 /\ number[8] = CheckDigit(FilerCode \o m)
      /\ \A j \in 1..7 : number[j] = m[j]
  BY NumberIs
<1>2. number[i] = a /\ number[i + 1] = b
  BY <1>1
<1>3. /\ Len(slip) = 8
      /\ \A j \in 1..8 : slip[j] = IF j = i THEN b ELSE IF j = i + 1 THEN a ELSE number[j]
  BY <1>1, <1>2
<1>4. one \in [1..7 -> 0..9] /\ one[i + 1] = b /\ \A j \in 1..7 : one[j] = IF j = i THEN b ELSE m[j]
  OBVIOUS
<1>5. Weight(one) = Weight(m) - Share(i, a) + Share(i, b)
  <2>1. i \in 1..7
    OBVIOUS
  <2> QED
    BY <2>1, WeightMoves
<1> HIDE DEF slip, one
<1>6. /\ both \in [1..7 -> 0..9]
      /\ \A j \in 1..7 : both[j] = IF j = i + 1 THEN a ELSE one[j]
  BY <1>4
<1>7. Weight(both) = Weight(one) - Share(i + 1, b) + Share(i + 1, a)
  <2>1. i + 1 \in 1..7
    OBVIOUS
  <2> QED
    BY <1>4, <2>1, WeightMoves
<1> HIDE DEF both
<1>8. slip[8] = CheckDigit(FilerCode \o m) /\ \A j \in 1..7 : slip[j] = both[j]
  BY <1>1, <1>3, <1>4, <1>6
<1>v. EntryNumberValid(FilerCode, slip) <=> slip[8] = CheckDigit(FilerCode \o both)
  BY <1>3, <1>6, <1>8, ValidIs
<1> SUFFICES ASSUME CheckDigit(FilerCode \o m) = CheckDigit(FilerCode \o both) PROVE FALSE
  BY <1>8, <1>v, Zenon DEF slip
<1>9. /\ Weight(m) \in Nat /\ CheckDigit(FilerCode \o m) = (10 - (Weight(m) % 10)) % 10
      /\ Weight(both) \in Nat /\ CheckDigit(FilerCode \o both) = (10 - (Weight(both) % 10)) % 10
      /\ Weight(one) \in Nat
  BY <1>4, <1>6, CheckIs
<1>10. (Weight(both) - Weight(m)) % 10 = 0
  BY <1>9, CheckParts
<1>11. Doubled(a) \in 0..9 /\ Doubled(b) \in 0..9
  BY DoubledParts
\* Whichever of the two is doubled, the weights differ by what its doubling gains.
<1>12. \/ Weight(both) - Weight(m) = (Doubled(b) - b) - (Doubled(a) - a)
       \/ Weight(both) - Weight(m) = (Doubled(a) - a) - (Doubled(b) - b)
  <2>1. CASE i % 2 = 1
    <3>1. (i + 1) % 2 # 1
      BY <2>1
    <3>2. /\ Share(i, a) = Doubled(a) /\ Share(i, b) = Doubled(b)
          /\ Share(i + 1, a) = a /\ Share(i + 1, b) = b
      BY <2>1, <3>1 DEF Share
    <3> QED
      BY <1>5, <1>7, <1>9, <1>11, <3>2
  <2>2. CASE i % 2 # 1
    <3>1. (i + 1) % 2 = 1
      BY <2>2
    <3>2. /\ Share(i, a) = a /\ Share(i, b) = b
          /\ Share(i + 1, a) = Doubled(a) /\ Share(i + 1, b) = Doubled(b)
      BY <2>2, <3>1 DEF Share
    <3> QED
      BY <1>5, <1>7, <1>9, <1>11, <3>2
  <2> QED
    BY <2>1, <2>2
<1>13. (Doubled(a) - a) % 10 = (Doubled(b) - b) % 10
  <2>1. Doubled(a) - a \in Int /\ Doubled(b) - b \in Int
    BY <1>11
  <2> QED
    BY <1>10, <1>12, <2>1, TensApart
<1>14. a = b \/ {a, b} = {0, 9}
  BY <1>13, DoubledParts
<1> QED
  BY <1>2, <1>14

LEMMA SwapOfEquals ==
    ASSUME NEW f, NEW D, f = [k \in D |-> f[k]], NEW i \in D, NEW j \in D, f[i] = f[j]
    PROVE  [f EXCEPT ![i] = f[j], ![j] = f[i]] = f
OBVIOUS

\* An entry the generator made is valid, and no slip of its number is.
LEMMA NumberIsGuarded ==
    ASSUME NEW entry, Made(entry)
    PROVE  /\ EntryValid(entry)
           /\ \A slip \in Slips(entry.number) \ {entry.number} :
                 ~EntryNumberValid(FilerCode, slip)
<1> PICK number : number = entry.number
  OBVIOUS
<1> DEFINE m == [i \in 1..7 |-> number[i]]
<1>1. /\ entry.filer = FilerCode /\ m \in [1..7 -> 0..9] /\ number = EntryNumber(FilerCode, m)
      /\ Len(entry.lines) \in Nat \ {0}
  BY DEF Made
<1> HIDE DEF m
<1>2. /\ number \in Seq(0..9) /\ Len(number) = 8 /\ number[8] = CheckDigit(FilerCode \o m)
      /\ \A i \in 1..7 : number[i] = m[i]
  BY <1>1, NumberIs
<1>3. EntryNumberValid(FilerCode, number)
  BY <1>1, <1>2, ValidIs
<1>4. entry.lines # << >>
  BY <1>1
<1>5. ASSUME NEW slip \in Slips(number), slip # number
      PROVE  ~EntryNumberValid(FilerCode, slip)
  <2>1. CASE \E i \in 1..7, d \in 0..9 : slip = [number EXCEPT ![i] = d]
    <3> PICK i \in 1..7, d \in 0..9 : slip = [number EXCEPT ![i] = d]
      BY <2>1
    <3>1. d # number[i]
      BY <1>2, <1>5
    <3> QED
      BY <1>1, <3>1, SlipIsCaught
  <2>2. CASE \E i \in {i \in 1..6 : {number[i], number[i + 1]} # {0, 9}} :
                slip = [number EXCEPT ![i] = number[i + 1], ![i + 1] = number[i]]
    <3> PICK i \in {i \in 1..6 : {number[i], number[i + 1]} # {0, 9}} :
                slip = [number EXCEPT ![i] = number[i + 1], ![i + 1] = number[i]]
      BY <2>2
    <3>0. i \in 1..6 /\ {number[i], number[i + 1]} # {0, 9}
      OBVIOUS
    <3>1. number[i] # number[i + 1]
      <4> SUFFICES ASSUME number[i] = number[i + 1] PROVE FALSE
        OBVIOUS
      <4>2. /\ number = [k \in 1..8 |-> number[k]]
            /\ i \in 1..8 /\ i + 1 \in 1..8
        <5>1. DOMAIN number = 1..8 /\ number = [k \in DOMAIN number |-> number[k]]
          BY <1>2, SMTT(30)
        <5> QED
          BY <3>0, <5>1
      <4>1. slip = number
        BY <4>2, SwapOfEquals, Zenon
      <4> QED
        BY <1>5, <4>1
    <3> QED
      BY <1>1, <3>0, <3>1, SwapIsCaught
  <2>3. \/ \E i \in 1..7, d \in 0..9 : slip = [number EXCEPT ![i] = d]
        \/ \E i \in {i \in 1..6 : {number[i], number[i + 1]} # {0, 9}} :
              slip = [number EXCEPT ![i] = number[i + 1], ![i + 1] = number[i]]
    <3> DEFINE Slip(i, d) == [number EXCEPT ![i] = d]
               Swap(i) == [number EXCEPT ![i] = number[i + 1], ![i + 1] = number[i]]
               Apart == {i \in 1..6 : {number[i], number[i + 1]} # {0, 9}}
    <3>1. Slips(number) = {Slip(i, d) : i \in 1..7, d \in 0..9} \cup {Swap(i) : i \in Apart}
      BY DEF Slips
    <3> HIDE DEF Slip, Swap, Apart
    <3>2. \/ \E i \in 1..7, d \in 0..9 : slip = Slip(i, d)
          \/ \E i \in Apart : slip = Swap(i)
      BY <1>5, <3>1
    <3> QED
      BY <3>2 DEF Slip, Swap, Apart
  <2> QED
    BY <2>1, <2>2, <2>3, ZenonT(60)
<1> QED
  BY <1>1, <1>3, <1>4, <1>5 DEF EntryValid

\* Whatever the case, the readers cut its records where the builders put their fields, and
\* no slip of a digit or swap of two neighbours but 0 and 9 leaves any of its entry numbers
\* valid, whatever its digits (catair.ts, entry-scoper.ts).
THEOREM RecordsAlwaysRead == Spec => []RecordsAreRead
<1>1. ShownIsOnDocket => RecordsAreRead
  <2> SUFFICES ASSUME ShownIsOnDocket, JustOpened PROVE RecordsAreRead
    BY DEF RecordsAreRead
  <2>1. shown \in Docket
    BY DEF ShownIsOnDocket, JustOpened
  <2> PICK entries : entries = File[shown].entries
    OBVIOUS
  <2>2. \A e \in 1..Len(entries) : Made(entries[e])
    BY <2>1, DocketAssumption
  <2>3. \A e \in 1..Len(entries) :
           /\ EntryValid(entries[e])
           /\ \A slip \in Slips(entries[e].number) \ {entries[e].number} :
                 ~EntryNumberValid(FilerCode, slip)
    BY <2>2, NumberIsGuarded
  <2> QED
    BY <2>3, EntryHeaderIsRead, ImporterIsRead, LineIsRead, DutyIsRead DEF RecordsAreRead
<1> QED
  BY <1>1, ShownStays, PTL
=============================================================================
