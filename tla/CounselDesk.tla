------------------------------ MODULE CounselDesk ------------------------------
(***************************************************************************)
(* The customs desk's page and its counsel gate: app/customs/page.tsx runs *)
(* the selected case on the server and mounts the gate only where there is *)
(* a packet to approve; the gate is a client island that holds its own     *)
(* ReviewablePacket, so that it outlives the packet it was mounted with    *)
(* when the browser goes from one case to another                          *)
(* (components/customs/counsel-gate.tsx, customsdesk/counsel-gate.ts).     *)
(***************************************************************************)
EXTENDS CustomsSkeptic

CONSTANTS
    Docket,          \* the cases a link can select
    File,            \* [Docket -> case]: each as the generator makes it
    Names,           \* reviewer names: [text, numerals]: the tokens a name holds
    Blank,           \* the empty field
    None,
    Reviewed,        \* bound: the cases of Docket that reviewers act on
    MaxSigned,       \* bound on the distinct approvals of a session
    MaxExports       \* bound on the artifacts of a session

\* An entry as the generator makes it: a number of seven digits with the digit that checks
\* them, and lines, each with the duty of its value.
Made(entry) ==
    LET number == [i \in 1..7 |-> entry.number[i]]
    IN  /\ entry.filer = FilerCode
        /\ number \in [1..7 -> 0..9] /\ entry.number = EntryNumber(FilerCode, number)
        /\ Len(entry.lines) \in Nat \ {0} /\ DOMAIN entry.lines = 1..Len(entry.lines)
        /\ \A i \in DOMAIN entry.lines :
              LET line == entry.lines[i]
              IN  line.value \in Nat /\ line = EntryLine(line.value, line.country)

ASSUME DocketAssumption ==
    /\ None \notin Docket /\ Reviewed \subseteq Docket
    /\ \A d \in Docket :
          LET cell == File[d].cell
              entries == File[d].entries
          IN  /\ cell \in MatrixCells \cup {Undeclared}
              /\ \E missing \in MissingSets(cell) :
                    File[d].exhibits = {Exhibit(cell, kind) : kind \in ExhibitKinds \ missing}
              /\ File[d].commenced = (cell.deadline = "LAPSED")
              /\ File[d].seed \in Int
              /\ Len(entries) \in Nat /\ DOMAIN entries = 1..Len(entries)
              /\ \A e \in DOMAIN entries : Made(entries[e])

VARIABLES
    shown,           \* the case on the page, or None on the landing
    gate,            \* the mounted gate's ReviewablePacket, or None
    reviewer,        \* the reviewer field
    note,            \* the note field is filled
    copying,         \* artifacts handed to the clipboard and not yet settled
    signed,          \* history: (name, case) whose text an Approve click bound
    exported         \* history: artifacts that left the gate

vars == <<shown, gate, reviewer, note, copying, signed, exported>>
fields == <<reviewer, note>>

\* A packet is known by the case it was made for: the engine is deterministic.
Result == [case \in Docket |-> RunCustomsDefenseCase(File[case])]
Text == [case \in Docket |-> Render(Result[case].packet)]
Cited(case) == Result[case].packet.cited

Pending == [state |-> "PENDING_COUNSEL_REVIEW", by |-> Blank, digest |-> None]
IntoReview(case) == [packet |-> case, approval |-> Pending]
Decided(state, digest) == [state |-> state, by |-> reviewer, digest |-> digest]

Artifact(reviewable) == [packet |-> reviewable.packet, by |-> reviewable.approval.by]

\* exportPacket throws unless the approval names its reviewer, is for this text,
\* and the artifact with the reviewer's line is still covered by its citations.
DoorOpens(reviewable) ==
    /\ reviewable.approval.state = "APPROVED_FOR_EXPORT"
    /\ reviewable.approval.by # Blank
    /\ Text[reviewable.approval.digest] = Text[reviewable.packet]
    /\ CitationsCover(Text[reviewable.packet].numerals \cup reviewable.approval.by.numerals,
                      Cited(reviewable.packet))

Unmounted == gate' = None /\ reviewer' = Blank /\ note' = FALSE

Init ==
    /\ shown = None /\ gate = None
    /\ reviewer = Blank /\ note = FALSE
    /\ copying = {} /\ signed = {} /\ exported = << >>

\* (mutant) the gate is mounted for whatever packet there is
MountAny(case) ==
    IF gate # None THEN UNCHANGED <<gate, fields>>
    ELSE gate' = IntoReview(case) /\ reviewer' = Blank /\ note' = FALSE

\* The gate belongs to a packet that exists and may proceed.  A gate that is
\* already there keeps its state: useState reads the packet once, and the gate has
\* no key.
Mount(case) ==
    IF ~Produced(Result[case].packet) \/ Result[case].disposition # "PROCEED" THEN Unmounted
    ELSE IF gate # None THEN UNCHANGED <<gate, fields>>
    ELSE gate' = IntoReview(case) /\ reviewer' = Blank /\ note' = FALSE

\* A bound: the cases outside Reviewed are opened from the landing, and before the
\* first decision.
Openable == IF shown = None /\ signed = {} THEN Docket ELSE Reviewed

\* CustomsDeskPage and CaseView, for a link or for the browser's history.
Open(case) ==
    /\ shown # case
    /\ shown' = case
    /\ Mount(case)
    /\ UNCHANGED <<copying, signed, exported>>

\* Without a case, or with one that is not on the docket, there is no gate.
Leave ==
    /\ shown # None
    /\ shown' = None
    /\ Unmounted
    /\ UNCHANGED <<copying, signed, exported>>

IsPending == gate # None /\ gate.approval.state = "PENDING_COUNSEL_REVIEW"

\* The field can be emptied again, as by spaces alone.
TypeName(name) ==
    /\ IsPending /\ reviewer # name /\ shown \in Reviewed
    /\ reviewer' = name
    /\ UNCHANGED <<shown, gate, note, copying, signed, exported>>

TypeNote ==
    /\ IsPending /\ shown \in Reviewed
    /\ note' = ~note
    /\ UNCHANGED <<shown, gate, reviewer, copying, signed, exported>>

\* (mutant) the click signs for the packet on the page
ApproveShown ==
    /\ IsPending /\ reviewer # Blank /\ Cardinality(signed) < MaxSigned
    /\ gate' = [gate EXCEPT !.approval = Decided("APPROVED_FOR_EXPORT", gate.packet)]
    /\ signed' = signed \cup {[packet |-> shown, by |-> reviewer]}
    /\ UNCHANGED <<shown, fields, copying, exported>>

Approve ==
    /\ IsPending /\ reviewer # Blank /\ Cardinality(signed) < MaxSigned
    /\ gate' = [gate EXCEPT !.approval = Decided("APPROVED_FOR_EXPORT", gate.packet)]
    /\ signed' = signed \cup {[packet |-> gate.packet, by |-> reviewer]}
    /\ UNCHANGED <<shown, fields, copying, exported>>

Reject ==
    /\ IsPending /\ reviewer # Blank /\ note
    /\ gate' = [gate EXCEPT !.approval = Decided("REJECTED", None)]
    /\ UNCHANGED <<shown, fields, copying, signed, exported>>

\* Start over: with the packet that is on the page now.
Reset ==
    /\ gate # None /\ ~IsPending
    /\ gate' = IntoReview(shown)
    /\ reviewer' = Blank /\ note' = FALSE
    /\ UNCHANGED <<shown, copying, signed, exported>>

\* The buttons exist only where the door answers with an artifact.
Download ==
    /\ gate # None /\ DoorOpens(gate)
    /\ Len(exported) < MaxExports
    /\ exported' = Append(exported, Artifact(gate))
    /\ UNCHANGED <<shown, gate, fields, copying, signed>>

Copy ==
    /\ gate # None /\ DoorOpens(gate)
    /\ copying = {} /\ Len(exported) < MaxExports
    /\ copying' = {Artifact(gate)}
    /\ UNCHANGED <<shown, gate, fields, signed, exported>>

\* The clipboard's promise settles later, whatever the page shows by then.
ClipboardWrites ==
    /\ copying # {}
    /\ \E artifact \in copying : exported' = Append(exported, artifact)
    /\ copying' = {}
    /\ UNCHANGED <<shown, gate, fields, signed>>

ClipboardBlocked ==
    /\ copying # {}
    /\ copying' = {}
    /\ UNCHANGED <<shown, gate, fields, signed, exported>>

Next ==
    \/ \E case \in Openable : Open(case)
    \/ \E name \in Names \cup {Blank} : TypeName(name)
    \/ Leave \/ TypeNote \/ Approve \/ Reject \/ Reset
    \/ Download \/ Copy \/ ClipboardWrites \/ ClipboardBlocked

Spec == Init /\ [][Next]_vars

-----------------------------------------------------------------------------
(* Properties.                                                             *)

\* The properties of a case alone are looked at when its page has just opened.
JustOpened ==
    /\ shown # None /\ signed = {} /\ copying = {} /\ exported = << >>
    /\ reviewer = Blank /\ ~note

\* The code decides every case as the matrix declares it: refusal for each
\* structure that demands it, and an injected exhibit changes nothing -- only an
\* investigation that has commenced refuses its case
\* (edge-case-matrix.ts, exhibit-quarantine.ts, evidence-sufficiency.ts).
DispositionFollowsMatrix ==
    JustOpened =>
        LET cell == File[shown].cell
            proceeds == Result[shown].disposition = "PROCEED"
        IN  /\ proceeds => Declared(cell)
            /\ cell.class = "REFUSE_EXPECTED" => ~proceeds
            /\ Declared(cell) /\ cell.class = "PROCEED_CANDIDATE" => proceeds
            /\ cell.class = "QUARANTINE_TEST" => (proceeds <=> cell.deadline # "LAPSED")
            /\ ~proceeds <=> Result[shown].gaps # {}

\* The citation guard stops no case of the docket, since every numeral that is
\* rendered is bound to a source (pipeline.ts:195, :248, packet-graders.ts); the
\* Skeptic accepts every outcome the pipeline produces, objects by name to
\* every edit its checks were written for, and refuses the rest by its rerun
\* (skeptic-check.ts).
SkepticIsExact ==
    JustOpened =>
        /\ Produced(Result[shown].packet)
        /\ SkepticObjections(File[shown], Result[shown]) = {}
        /\ \A edited \in Tampered(File[shown], Result[shown]) :
              NamedObjections(File[shown], edited) # {}
        /\ \A edited \in Reworded(Result[shown]) :
              SkepticObjections(File[shown], edited) # {}

\* The penalty case of a scope whose loss of duty is realized in part.
LossCase(scope, culpability, loss, realized, domestic, disclosed, interest) ==
    [culpability |-> culpability, loss |-> loss, actual |-> realized,
     potential |-> scope.duty - realized, dutiable |-> scope.entered, domestic |-> domestic,
     disclosed |-> disclosed, interest |-> interest, factors |-> {}]

\* What is caught is refused for no reason and lies between nothing and the domestic
\* value; a disclosure that owes no interest is free.
LossBounded(scope, culpability, loss, realized, domestic) ==
    LET case == LossCase(scope, culpability, loss, realized, domestic, FALSE, DemoInterest)
        told == LossCase(scope, culpability, loss, realized, domestic, TRUE, DemoInterest)
        bare == LossCase(scope, culpability, loss, realized, domestic, TRUE, NoInterest)
    IN  /\ ~Refused(case) /\ ~Refused(told)
        /\ Refused(bare) <=> OwesInterest(told)
        /\ 0 <= Exposure(case).min /\ Exposure(case).min <= Exposure(case).max
        /\ Exposure(case).max <= domestic
        /\ culpability # "FRAUD" /\ realized = 0 => Exposure(told).max = 0
        /\ \A s \in Scenarios : \A floor \in ScenarioMin(case, s, 30) :
              Exposure(case).min <= floor /\ floor <= Exposure(case).max

PenaltyBounded(scope) ==
    /\ Exposure(PenaltyCase(scope, TRUE)).max <= Exposure(PenaltyCase(scope, FALSE)).min
    /\ \A c \in Culpability, l \in LossType, realized \in {0, scope.duty},
          domestic \in {scope.duty, scope.entered} :
              LossBounded(scope, c, l, realized, domestic)

\* A packet that discloses never costs more than being caught, and what is caught
\* lies between nothing and the domestic value, whatever the culpability, the loss
\* and the split of it (penalty-exposure.ts).
PenaltyIsBounded ==
    JustOpened => PenaltyBounded(ScopeEntryPopulation(File[shown].entries, Anywhere))

\* The records the generator builds are the records the validators and the scoper
\* read: every slice is the field it is meant to be, every line's duty is read back,
\* and no slip of one digit, or swap of two neighbours other than 0 and 9, leaves
\* an entry number valid (catair.ts, entry-scoper.ts).
Slips(number) ==
    {[number EXCEPT ![i] = d] : i \in 1..7, d \in 0..9}
    \cup {[number EXCEPT ![i] = number[i + 1], ![i + 1] = number[i]] :
            i \in {i \in 1..6 : {number[i], number[i + 1]} # {0, 9}}}
RecordsAreRead ==
    JustOpened =>
        /\ Read10 \subseteq Written(Layout10) /\ Read11 \subseteq Written(Layout11)
        /\ Read40 \subseteq Written(Layout40) /\ Read50 \subseteq Written(Layout50)
        /\ ScoperReads10 \subseteq Written(Layout10)
        /\ ScoperReads40 \subseteq Written(Layout40)
        /\ ScoperReads50 \subseteq Written(Layout50)
        /\ \A e \in 1..Len(File[shown].entries) :
              /\ EntryValid(File[shown].entries[e])
              /\ \A slip \in Slips(File[shown].entries[e].number) \ {File[shown].entries[e].number} :
                    ~EntryNumberValid(FilerCode, slip)

\* Whatever leaves the desk is a packet that may proceed, whose text a named
\* reviewer's click approved and whose every numeral, the reviewer's line
\* included, can be read and is cited -- across a change of case, a restart of the review and a
\* clipboard that settles late (counsel-gate.ts, counsel-gate.tsx).
ExportsWereSigned ==
    \A i \in 1..Len(exported) :
        LET artifact == exported[i]
        IN  /\ Result[artifact.packet].disposition = "PROCEED"
            /\ artifact.by # Blank /\ artifact \in signed
            /\ Unparseable(artifact.by.numerals) = {}
            /\ Figures(artifact.by.numerals) \subseteq {f.value : f \in Cited(artifact.packet)}
=============================================================================
