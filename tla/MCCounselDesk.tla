----------------------------- MODULE MCCounselDesk -----------------------------
(***************************************************************************)
(* An instance of CounselDesk for TLC: every declared cell of the matrix   *)
(* and one it does not declare, each with one line and with three lines of *)
(* two entries; a reviewer without numerals in the name, one with a        *)
(* numeral nothing cites and one with a numeral that cannot be read.       *)
(***************************************************************************)
EXTENDS CounselDesk

TwoValues == {1, 37}
TwoNumbers == {<<1, 0, 5, 9, 4, 4, 7>>, <<9, 9, 0, 3, 8, 6, 2>>}

Okafor == [text |-> "Okafor", numerals |-> {}]
Counsel999 == [text |-> "Counsel 999", numerals |-> Plain({99900})]
FiveHundred == [text |-> "Counsel five hundred dollars",
                numerals |-> {Token("SPELLED_QUANTITY", 50000)}]
ThreeNames == {Okafor, Counsel999, FiveHundred}

LinesOf == {<<<<v>>>> : v \in TwoValues} \cup {<<<<1, 37>>, <<37>>>>}

\* A case is known by what the generator draws it from.
Draw(cell, lines, number, missing) ==
    [cell |-> cell, lines |-> lines, number |-> number, missing |-> missing]
AllCases ==
    UNION {{Draw(cell, lines, number, missing) :
              lines \in LinesOf, number \in TwoNumbers, missing \in MissingSets(cell)} :
        cell \in MatrixCells \cup {Undeclared}}
EveryFile == [d \in AllCases |-> GenerateCase(d.cell, 7, d.lines, d.number, d.missing)]

\* Two packets to approve, one with a running clock, and a refusal.
ReviewedCases ==
    {Draw(cell, <<<<37>>>>, <<1, 0, 5, 9, 4, 4, 7>>, {}) :
        cell \in {Cell("PRIOR_DISCLOSURE", "COMPLETE", "SINGLE_COUNTRY", "AMPLE"),
                  Cell("PRIOR_DISCLOSURE", "ADVERSARIAL_INJECTED", "MULTI_TIER_BOM", "IMMINENT"),
                  Cell("PRIOR_DISCLOSURE", "COMPLETE", "SINGLE_COUNTRY", "LAPSED")}}
=============================================================================
