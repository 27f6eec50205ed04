------------------------------- MODULE Numerals -------------------------------
(***************************************************************************)
(* What lib/evals/numerals.ts reads out of a text, and the citation bar    *)
(* built on it.  A text is the set of the numeral tokens it holds, each a  *)
(* written form with the number it stands for; words are left out.         *)
(***************************************************************************)
EXTENDS Integers, FiniteSets

\* Addressing, not quantities: masked before the figures are read.
Labels == {"DATE", "RATIO", "ID"}

\* Forms a figure cannot be read from unambiguously.
Unreadable == {"SCIENTIFIC", "OTHER_DIGITS", "SPELLED_QUANTITY",
               "SPELLED_MAGNITUDE", "MINUS", "PAREN_NEGATIVE"}

Forms == Labels \cup Unreadable \cup {"FIGURE"}
Token(form, value) == [form |-> form, value |-> value]
Plain(values) == {Token("FIGURE", v) : v \in values}
Dates(values) == {Token("DATE", v) : v \in values}

Figures(text) == {t.value : t \in {t \in text : t.form = "FIGURE"}}
Unparseable(text) == {t \in text : t.form \in Unreadable}

\* A list or a bare count that is spelled out without a unit is prose: the
\* extractor returns it in neither list, so it has no form here.
Extract(text) == [figures |-> Figures(text), unparseable |-> Unparseable(text)]

\* A cited figure: the value and what it was taken from.
Cite(value, ref) == [value |-> value, ref |-> ref]
NoRef == "no ref"

\* Every figure of the text is cited, and what cannot be read is refused.
CitationsCover(text, cited) ==
    LET seen == Extract(text)
    IN  /\ seen.unparseable = {}
        /\ seen.figures \subseteq {c.value : c \in cited}
        /\ \A c \in cited : c.ref # NoRef
=============================================================================
