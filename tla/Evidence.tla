---- MODULE Evidence ----
(***************************************************************************)
(* What counts as evidence. A document is a set of clauses; a citation is  *)
(* a clause and the way it was written down. Four places decide whether a  *)
(* citation is in the document (evidencecheck/normalize.py, the gates that *)
(* share it, verify/verifier.py, collateral/constraints.py), each in its   *)
(* own way. check_field (evidencecheck/checks.py) then asks whether the    *)
(* clause states another value than the one extracted.                     *)
(*                                                                         *)
(* What a clause states is a set of tokens [type, id, written]: an amount, *)
(* a date (`id` is the set of days it can be read as), a name (one word),  *)
(* or the number of another clause; what is extracted is a token as well.  *)
(* An amount is its `written`: the number its digits spell, the lengths of *)
(* the groups they come in and what separates these, how many of them are  *)
(* meant as decimals, and the unit and the words beside it. Of a date, it  *)
(* is the numbers it shows, the first one and the words (the month).       *)
(***************************************************************************)
EXTENDS Integers, Sequences, FiniteSets, FiniteSetsExt, SequencesExt

CONSTANTS
    Clauses,   \* what can be cited, in the document or not
    States,    \* clause -> set of tokens
    Spells,    \* clause -> the values whose characters occur in it, inside a longer
               \* figure or word too (500 in "USD 500,000")
    Alike,     \* pairs of different names that near_miss takes for a misspelling
    Unparsed,  \* the units parse_number does not take off a number ("US$", "SEK")
    NoWords    \* nothing that qualifies an amount

Absent  == [type |-> "empty", id |-> {}, written |-> <<>>]
Filler  == [type |-> "placeholder", id |-> {}, written |-> <<>>]
NoQuote == [clause |-> "none", dressing |-> "none"]

\* exact; wrapped or cased otherwise; without the document's invisible characters;
\* cut off with an ellipsis, after 20 characters or before; reworded; nothing but
\* characters without extent.
Dressings == {"exact", "rewrapped", "as seen", "ellipsis", "stub", "reworded", "unseen"}

----------------------------------------------------------------------------
(* Whether a quote is in the text, a set of clauses.                        *)

In(quote, text, dressings) == quote.clause \in text /\ quote.dressing \in dressings

\* normalize.contains: squash removes what has no extent, casefold the case. What
\* is nothing after squash is in every text.
contains(text, quote) ==
    In(quote, text, {"exact", "rewrapped", "as seen"}) \/ quote.dressing = "unseen"

\* check_field: contains, once trimmed_quote has dropped an ellipsis.
cited(text, quote) == contains(text, quote) \/ In(quote, text, {"ellipsis"})

\* verifier.quote_is_in: whitespace and case only.
quote_is_in(text, quote) == In(quote, text, {"exact", "rewrapped"})

----------------------------------------------------------------------------
(* parse_number: which separator, if any, is the decimal one. The result is *)
(* the number of decimals read, NotANumber if float() refuses.              *)

NotANumber == -1

Digits(w, after) == FoldSet(LAMBDA i, n : w.lens[i] + n, 0, {i \in DOMAIN w.lens : i > after})
At(w, mark) == {i \in DOMAIN w.seps : w.seps[i] = mark}

\* Apostrophes and spaces are dropped. Of two kinds of mark the later is decimal;
\* a comma alone is decimal before two last digits; a dot alone always is.
decimals_read(w) ==
    LET commas == At(w, ",")
        dots == At(w, ".")
    IN  IF commas # {} /\ dots # {}
        THEN LET last == IF Max(commas) > Max(dots) THEN commas ELSE dots
             IN  IF Cardinality(last) > 1 THEN NotANumber ELSE Digits(w, Max(last))
        ELSE IF commas # {}
        THEN IF Cardinality(commas) = 1 /\ Digits(w, Max(commas)) = 2 THEN 2 ELSE 0
        ELSE IF Cardinality(dots) = 1 THEN Digits(w, Max(dots)) ELSE 0

\* What is left to the one who writes: the decimals an amount may be meant to have.
\* One mark sets off groups of three digits, another the decimals; a comma sets off
\* two of them, unless dots set off the groups. (normalize.py: "Two trailing digits is
\* the only reading under which a comma is a decimal mark".)
Grouped(w, k) == \A i \in 1..k : w.seps[i] = w.seps[1] /\ w.lens[i+1] = 3
Means(w, d) ==
    LET k == Len(w.seps)
    IN  \/ d = 0 /\ Grouped(w, k)
        \/ /\ k > 0 /\ d = w.lens[k+1] /\ Grouped(w, k-1)
           /\ w.seps[k] \in {",", "."} /\ \A i \in 1..k-1 : w.seps[i] # w.seps[k]
           /\ w.seps[k] = "," => d = 2 \/ w.seps[1] = "."

\* An amount that may be thousands or decimals ("5.000").
Doubtful(t) == t.type = "amount" /\ t.written.seps = <<".">> /\ Last(t.written.lens) = 3

\* Amounts are written in one of these ways.
Amounts_of(tokens) == {t \in tokens : t.type = "amount"}
Legible(tokens) ==
    \A t \in Amounts_of(tokens) :
        /\ t.written.lens \in Seq(Nat) /\ t.written.seps \in Seq(Range(t.written.seps))
        /\ Len(t.written.lens) = Len(t.written.seps) + 1
        /\ Means(t.written, t.written.meant)

\* <<n, d>> is n with d decimals: an amount, as its digits are read and as it is meant.
\* Two of them are the same number if one is the other with zeros after it.
Padded(x, y) == x[2] < y[2] /\ y[1] = x[1] * 10^(y[2] - x[2])
Equal(x, y) == x = y \/ Padded(x, y) \/ Padded(y, x)
AsRead(w)  == <<w.digits, decimals_read(w)>>
AsMeant(w) == <<w.digits, w.meant>>

\* parse_number takes an amount whole: words and units it does not know are refused.
AllNumeral(w) == w.words = NoWords /\ w.unit \notin Unparsed
parses(w) == AllNumeral(w) /\ decimals_read(w) # NotANumber

\* numbers_in: the numbers of a text, those of its dates among them.
numbers_in(tokens) ==
    {AsRead(t.written) : t \in {u \in Amounts_of(tokens) : decimals_read(u.written) # NotANumber}}
    \cup UNION {{<<n, 0>> : n \in t.written.shows} : t \in {u \in tokens : u.type = "date"}}

----------------------------------------------------------------------------
(* check_field.                                                             *)

OfType(clause, types) == {t \in States[clause] : t.type \in types}

\* _competing_numbers: pointers are passed over, the digits of a date are not.
competing_numbers(value, clause) ==
    IF parses(value.written) /\ \A n \in numbers_in(States[clause]) : ~Equal(n, AsRead(value.written))
    THEN numbers_in(States[clause]) ELSE {}

\* _competing_dates: one reading in common is agreement.
competing_dates(value, clause) ==
    LET stated == OfType(clause, {"date"})
    IN  IF \E t \in stated : t.id \cap value.id # {} THEN {} ELSE stated

\* _competing_names: only what looks like a misspelling competes.
competing_names(value, clause) ==
    LET stated == OfType(clause, {"name"})
    IN  IF \E t \in stated : t.id = value.id THEN {}
        ELSE {t \in stated : <<t.id, value.id>> \in Alike}

competing(value, clause) ==
    IF value.type = "amount" THEN competing_numbers(value, clause)
    ELSE IF value.type = "date" THEN competing_dates(value, clause)
    ELSE IF value.type = "name" THEN competing_names(value, clause)
    ELSE {}

\* The first that applies. (What the quote contains as it is printed, be it within a
\* longer figure, competes with nothing.)
check_field(value, quote, text) ==
    IF value = Absent THEN "EMPTY_VALUE"
    ELSE IF value = Filler THEN "PLACEHOLDER_VALUE"
    ELSE IF quote = NoQuote \/ quote.dressing = "unseen" THEN "MISSING_EVIDENCE"
    ELSE IF ~cited(text, quote) THEN "FABRICATED_EVIDENCE"
    ELSE IF value \in Spells[quote.clause] \/ competing(value, quote.clause) = {} THEN "none"
    ELSE "SILENT_REPAIR"

Quoted(fields) == {f \in DOMAIN fields : fields[f].quote.dressing \notin {"none", "unseen"}}

\* check_extraction is `check`: when no field is quoted at all, that is said once, not
\* once per field.
check_extraction(fields, text) ==
    [f \in DOMAIN fields |->
        LET found == check_field(fields[f].value, fields[f].quote, text)
        IN  IF Quoted(fields) = {} /\ found = "MISSING_EVIDENCE" THEN "none" ELSE found]

----------------------------------------------------------------------------
(* What a clause says of a value, to one who understands both.              *)

\* It states the amount, in whatever currency and however it is written; a day the date
\* can be read as; the name.
SameAmount(t, u) == Equal(AsMeant(t.written), AsMeant(u.written))
Stated(value, clause) ==
    \E t \in OfType(clause, {value.type}) :
        IF value.type = "amount" THEN SameAmount(t, value)
        ELSE IF value.type = "date" THEN t.id \cap value.id # {}
        ELSE t.id = value.id

\* It states nothing of the kind, nor for an amount a date.
Silent(value, clause) ==
    OfType(clause, {value.type} \cup (IF value.type = "amount" THEN {"date"} ELSE {})) = {}

\* It or the value may be thousands or decimals.
InDoubt(value, clause) ==
    value.type = "amount" /\ \E t \in {value} \cup OfType(clause, {"amount"}) : Doubtful(t)

\* It states another amount, another day, or what looks like a misspelling of the name.
\* Left out are an amount with words or a unit that parse_number does not know, what
\* may be thousands or decimals, what its characters contain by chance (500 in
\* "500,000"), and an amount equal to one of the numbers of a date.
Contradicts(clause, value) ==
    /\ ~Stated(value, clause) /\ value \notin Spells[clause]
    /\ \/ /\ value.type = "amount" /\ OfType(clause, {"amount"}) # {}
          /\ AllNumeral(value.written) /\ ~InDoubt(value, clause)
          /\ \A t \in OfType(clause, {"date"}) : \A n \in t.written.shows :
               ~Equal(<<n, 0>>, AsMeant(value.written))
       \/ value.type = "date" /\ OfType(clause, {"date"}) # {}
       \/ value.type = "name" /\ \E t \in OfType(clause, {"name"}) : <<t.id, value.id>> \in Alike
====
