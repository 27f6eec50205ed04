-------------------------------- MODULE Catair --------------------------------
(***************************************************************************)
(* The fixed-width entry-summary records of lib/agents/customsdesk/        *)
(* catair.ts: what the builders lay out, the slices the validators and the *)
(* entry scoper read, and the check digit of an entry number.  A record is *)
(* the sequence of its fields; a slice is a pair of character positions.   *)
(***************************************************************************)
EXTENDS Integers, Sequences, FiniteSets

\* What a row of numbers comes to, up to each of its places.
Sums(w) ==
    LET upTo[i \in 0..Len(w)] == IF i = 0 THEN 0 ELSE upTo[i - 1] + w[i]
    IN  upTo
Total(w) == Sums(w)[Len(w)]

Field(name, width) == [name |-> name, width |-> width]
Filler(width) == Field("filler", width)

\* build10Record, build11Record, build40Record, build50Record.
Layout10 == << Field("control", 2), Field("actionCode", 1), Field("filerCode", 3),
               Filler(2), Field("entryNumber", 8), Filler(1), Field("portOfEntry", 4),
               Field("brokerReference", 9), Filler(3), Field("entryTypeCode", 2),
               Field("modeOfTransport", 2) >>
Layout11 == << Field("control", 2), Field("importerOfRecord", 12) >>
Layout40 == << Field("control", 2), Filler(2), Field("lineItemIdentifier", 3), Filler(1),
               Field("countryOfOrigin", 2), Field("countryOfExport", 2),
               Field("dateOfExportation", 6), Filler(6), Field("spiClaimCode", 2),
               Field("chargesAmount", 10), Field("foreignPortOfLading", 5),
               Field("grossShippingWeightKg", 10) >>
Layout50 == << Field("control", 2), Field("htsNumber", 10), Filler(1),
               Field("dutyAmountCents", 10), Filler(1), Field("valueOfGoodsUsd", 10),
               Filler(1), Field("quantity1", 12), Field("unitOfMeasure1", 3) >>

\* Where a builder puts a field: [start, end), as String.slice counts.
WidthBefore(layout, i) == Sums([j \in DOMAIN layout |-> layout[j].width])[i - 1]
Slice(layout, i) == << WidthBefore(layout, i), WidthBefore(layout, i) + layout[i].width >>
Written(layout) == {<<layout[i].name, Slice(layout, i)>> : i \in 1..Len(layout)}

\* What the validators and the scoper cut out, by their literal positions.
Read10 == {<<"control", <<0, 2>>>>, <<"actionCode", <<2, 3>>>>, <<"filerCode", <<3, 6>>>>,
           <<"filler", <<6, 8>>>>, <<"entryNumber", <<8, 16>>>>, <<"portOfEntry", <<17, 21>>>>,
           <<"entryTypeCode", <<33, 35>>>>}
Read11 == {<<"control", <<0, 2>>>>, <<"importerOfRecord", <<2, 14>>>>}
Read40 == {<<"control", <<0, 2>>>>, <<"lineItemIdentifier", <<4, 7>>>>,
           <<"countryOfOrigin", <<8, 10>>>>, <<"countryOfExport", <<10, 12>>>>,
           <<"dateOfExportation", <<12, 18>>>>, <<"chargesAmount", <<26, 36>>>>,
           <<"grossShippingWeightKg", <<41, 51>>>>}
Read50 == {<<"control", <<0, 2>>>>, <<"htsNumber", <<2, 12>>>>,
           <<"dutyAmountCents", <<13, 23>>>>, <<"valueOfGoodsUsd", <<24, 34>>>>,
           <<"quantity1", <<35, 47>>>>, <<"unitOfMeasure1", <<47, 50>>>>}
ScoperReads10 == {<<"portOfEntry", <<17, 21>>>>, <<"entryNumber", <<8, 16>>>>}
ScoperReads40 == {<<"countryOfOrigin", <<8, 10>>>>}
ScoperReads50 == {<<"htsNumber", <<2, 12>>>>, <<"dutyAmountCents", <<13, 23>>>>,
                  <<"valueOfGoodsUsd", <<24, 34>>>>}

-----------------------------------------------------------------------------
(* AE Table 1: the check digit over the filer code and the sequence.       *)

\* A-I and J-R count from 1, S-Z from 2: the code's letters as their numbers.
LetterValue(letter) == IF letter <= 18 THEN ((letter - 1) % 9) + 1 ELSE letter - 17

\* (mutant) the adjustment is forgotten: 0 and 5 double to the same digit
DoubledPlain(digit) == (2 * digit) % 10

Doubled(digit) == (IF 2 * digit > 9 THEN 2 * digit + 1 ELSE 2 * digit) % 10

CheckDigit(base) ==
    LET weighed == [i \in 1..Len(base) |-> IF i % 2 = 0 THEN Doubled(base[i]) ELSE base[i]]
    IN  (10 - (Total(weighed) % 10)) % 10

EntryNumber(filer, number) == Append(number, CheckDigit(filer \o number))

\* validate10Record: the digit on the record is the digit computed.
EntryNumberValid(filer, entryNumber) ==
    /\ Len(entryNumber) = 8
    /\ entryNumber[8] = CheckDigit(filer \o SubSeq(entryNumber, 1, 7))

\* validateEntrySummary also wants a line: the grouping is mandatory.
EntryValid(entry) ==
    /\ EntryNumberValid(entry.filer, entry.number)
    /\ entry.lines # << >>
=============================================================================
