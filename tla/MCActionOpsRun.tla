---------------------------- MODULE MCActionOpsRun ----------------------------
(***************************************************************************)
(* Instances of ActionOpsRun for TLC: two labelled outlets of two          *)
(* countries and a signal without a label; confidences on both sides of    *)
(* the floor; a cap that one to six calls reach.                           *)
(***************************************************************************)
EXTENDS ActionOpsRun

CONSTANTS gdelt, reuters, unlabelled, us, jp

ThreeSignals == {gdelt, reuters, unlabelled}
OutletOf == [s \in ThreeSignals |-> IF s = unlabelled THEN Blank ELSE s]
OriginOf == [s \in ThreeSignals |-> CASE s = gdelt -> us [] s = reuters -> jp
                                      [] OTHER -> NoCountry]

Flagship == [match |-> "REAL", evidence |-> {gdelt, reuters}, confidence |-> 60,
             country |-> NoCountry, chokepoint |-> TRUE, inScope |-> TRUE]
Misclassified == [Flagship EXCEPT !.inScope = FALSE]
ThinEvidence == [match |-> "REAL", evidence |-> {gdelt}, confidence |-> 30,
                 country |-> us, chokepoint |-> FALSE, inScope |-> TRUE]
OffTaxonomy == [ThinEvidence EXCEPT !.match = "UNMAPPED"]
ZeroExposure == [ThinEvidence EXCEPT !.match = "NONE"]

AllScenarios == {Flagship, Misclassified, ThinEvidence, OffTaxonomy, ZeroExposure}
OneScenario == {Flagship}
AllFetches == SUBSET ThreeSignals
OneFetch == {{gdelt, reuters}}

BothRoutes == {"LOOP", "WATERFALL"}
LoopOnly == {"LOOP"}
BothSides == {30, 60}
High == {60}
SomeCountry == {us, NoCountry}
NoCountries == {NoCountry}

Small == {1}
Varied == {1, 2}
Free == {0}
Thrown == {0, 2}
FlatSteps == {2}
GrowingSteps == {2, 3}
=============================================================================
