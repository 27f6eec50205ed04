---------------------------- MODULE MCSupplierStore ----------------------------
(***************************************************************************)
(* An instance of SupplierStore for TLC: files that write the same         *)
(* suppliers in opposite orders, one with duplicates, rejected rows and    *)
(* more rows than the cap, one that can be a seed, one whose parse throws, *)
(* and a body longer than it declares.                                     *)
(***************************************************************************)
EXTENDS SupplierStore

CONSTANTS u1, u2, u3, w1

ThreeUploads == {u1, u2, u3}
OneReset == {w1}

Texts == {"acme", "ACME ", "borealis", "cobalt"}
KeyOf == [t \in Texts |-> IF t = "ACME " THEN "acme" ELSE t]
CodeOf == [t \in {"US", "united states", "DE", "Atlantis", "constructor"} |->
              CASE t = "DE" -> "DE" [] t = "Atlantis" -> None [] t = "constructor" -> Inherited
                [] OTHER -> "US"]
DaysOf == [t \in {"14", "30", "soon"} |->
              CASE t = "14" -> 14 [] t = "30" -> 30 [] OTHER -> None]
\* Nothing relates the order of the digests to the names.
Rank ==
    LET keys == << "cobalt", "borealis", "acme" >>
        place(identity) == CHOOSE i \in DOMAIN keys : keys[i] = Last(identity)
        ids == ({<<key>> : key \in ToSet(keys)} \cup {<<"quoted", key>> : key \in ToSet(keys)}) \X {"US", "DE"}
    IN  [id \in ids |-> 4 * place(id[1]) + 2 * Len(id[1]) + (IF id[2] = "US" THEN 1 ELSE 0)]

T(text) == [text |-> text, formula |-> FALSE, size |-> "ok"]
Header == <<T("supplier_name"), T("country"), T("region"), T("tier"), T("lead_time"), T("sector")>>
Row(name, country, tier, lead) == <<T(name), T(country), T("west"), T(tier), T(lead), T("ENERGY")>>

Acme == Row("acme", "US", "LOW", "14")
Borealis == Row("borealis", "DE", "LOW", "30")
Cobalt == Row("cobalt", "US", "MEDIUM", "14")
Forward == <<Header, Borealis, Acme, Cobalt>>
Backward == <<Header, Row("ACME ", "united states", "LOW", "30"), Row("borealis", "DE", "LOW", "14")>>
Mixed ==
    <<Append(Header, T("lane")),
      <<T(Blank)>>,
      Acme,
      [Acme EXCEPT ![5] = [T("14") EXCEPT !.formula = TRUE]],
      [Cobalt EXCEPT ![1] = [text |-> "cobalt", formula |-> TRUE, size |-> "full"]],
      [Cobalt EXCEPT ![2] = T("Atlantis")],
      [Cobalt EXCEPT ![1] = [T("cobalt") EXCEPT !.formula = TRUE]],
      Row("ACME ", "US", "LOW", "30"),
      Cobalt>>
\* The first of these is rejected for its lead time before its country is used.
Inheriting == <<Header, Row("acme", "constructor", "LOW", "soon"), Acme, Row("borealis", "constructor", "LOW", "14")>>

Ask(file) == [authorized |-> TRUE, limited |-> FALSE, declared |-> "none", sent |-> "within", file |-> file]
Bodies ==
    [forward |-> Ask(Forward), backward |-> Ask(Backward), mixed |-> Ask(Mixed), inheriting |-> Ask(Inheriting),
     lying |-> [Ask(Forward) EXCEPT !.declared = "within", !.sent = "over"]]
SomeRequests == DOMAIN Bodies
NoSole == {}
=============================================================================
