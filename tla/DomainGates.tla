---- MODULE DomainGates ----
(***************************************************************************)
(* The checks that decide whether an extraction is loaded: the gates every *)
(* document shares (verify/gates.py), those of a Credit Support Annex, an  *)
(* invoice and a KYC pack (document_intake/documents.py), and the mapping  *)
(* of an annex into CDM (document_intake/cdm.py).                          *)
(*                                                                         *)
(* An artifact has `fields`, a partial function from names to values, a    *)
(* quote per field, the rows of its schedule, and what assemble and verify *)
(* add. A value is [is, n]: a number, the same as a string, a clause       *)
(* pointer, a direction or a placeholder; or [is, of]: currency codes, or  *)
(* a currency in words. A gate set is a function from the names of the     *)
(* gates to whether they pass; a check that raises has failed (Gate.run).  *)
(* Fields that are neither required nor looked at by a gate are left out.  *)
(***************************************************************************)
EXTENDS Evidence

Number(n)    == [is |-> "number", n |-> n]
Formatted(n) == [is |-> "formatted", n |-> n]
Reference    == [is |-> "reference", n |-> 13]
Codes(cs)    == [is |-> "codes", of |-> cs]
Spelled      == [is |-> "words", of |-> {"US_Dollars"}]
Direction(d) == [is |-> "direction", n |-> d]
Placeholder  == [is |-> "placeholder", n |-> 0]
Nothing      == [is |-> "nothing", n |-> 0]
UP == 1
DOWN == 0

Field(a, name) == IF name \in DOMAIN a.fields THEN a.fields[name] ELSE Nothing
Given(a, names) == names \cap DOMAIN a.fields

\* _num reads a formatted string as well as a number.
Parses(v) == v.is \in {"number", "formatted"}

----------------------------------------------------------------------------
(* verify/gates.py                                                          *)

values_are_numeric(a, names) == \A n \in Given(a, names) : a.fields[n].is = "number"
no_cross_reference_values(a, names) == \A n \in Given(a, names) : a.fields[n].is # "reference"

\* One code: a list of them, or a string with commas, is no ISO 4217 code.
Single(S) == \E x \in S : S = {x}
IsCode(v) == v.is = "codes" /\ Single(v.of)
iso_currency(a, names) == \A n \in Given(a, names) : IsCode(a.fields[n])

evidence_gated_extraction(a, required) ==
    [required_fields |-> required \subseteq DOMAIN a.fields,
     no_placeholders |-> \A n \in DOMAIN a.fields : a.fields[n] # Placeholder,
     evidence_present |-> \A n \in DOMAIN a.fields : a.quotes[n] # NoQuote,
     evidence_verbatim |-> \A n \in DOMAIN a.fields : contains(a.source, a.quotes[n]),
     independently_verified |-> a.verdict.approved]

----------------------------------------------------------------------------
(* cdm.py                                                                   *)

CdmError == [error |-> TRUE]
Amounts == {"threshold", "mta", "rounding_delivery_amount", "rounding_return_amount"}
Parties == {"party_a", "party_b"}
PartyField == [threshold |-> [party_a |-> "threshold_party_a", party_b |-> "threshold_party_b"],
               mta |-> [party_a |-> "mta_party_a", party_b |-> "mta_party_b"]]

\* An amount of the party, or the shared one when neither party has its own.
Own(a, base) == {p \in Parties : PartyField[base][p] \in DOMAIN a.fields}
per_party(a, base) ==
    LET own == Own(a, base)
    IN  IF own # {} THEN [p \in own |-> a.fields[PartyField[base][p]].n]
        ELSE IF base \in DOMAIN a.fields THEN [p \in Parties |-> a.fields[base].n]
        ELSE <<>>

\* Variant 1: up and down by the same amount, without conditions.
standard_rounding(a) ==
    /\ Field(a, "rounding_delivery_direction") = Direction(UP)
    /\ Field(a, "rounding_return_direction") = Direction(DOWN)
    /\ Field(a, "rounding_delivery_amount") # Nothing
    /\ Field(a, "rounding_delivery_amount") = Field(a, "rounding_return_amount")
    /\ Field(a, "rounding_conditions") = Nothing

RoundingFields == {"rounding_delivery_amount", "rounding_return_amount",
                   "rounding_delivery_direction", "rounding_return_direction"}

rounding(a) ==
    LET given == Given(a, RoundingFields)
        own == Field(a, "rounding_currency")
    IN  IF given = {} THEN Nothing
        ELSE IF \/ given # RoundingFields
                \/ \E n \in {"rounding_delivery_direction", "rounding_return_direction"} :
                     a.fields[n] \notin {Direction(UP), Direction(DOWN)}
                \/ ~standard_rounding(a) /\ Field(a, "rounding_full_text") = Nothing
        THEN CdmError
        ELSE [terms |-> [n \in RoundingFields |-> a.fields[n].n],
              currency |-> IF own = Nothing THEN Field(a, "base_currency") ELSE own,
              other |-> ~standard_rounding(a)]

to_cdm(a) ==
    LET base == Field(a, "base_currency")
        eligible == IF Field(a, "eligible_currency") = Nothing THEN base
                    ELSE Field(a, "eligible_currency")
        Read(b) == IF Own(a, b) = {} THEN {b} ELSE {PartyField[b][p] : p \in Own(a, b)}
        amounts == Given(a, Read("threshold") \cup Read("mta")
                            \cup {"rounding_delivery_amount", "rounding_return_amount"})
    IN  IF \/ base = Nothing
           \/ \E n \in amounts : a.fields[n].is # "number"
           \/ rounding(a) = CdmError
        THEN CdmError
        ELSE [base |-> base, eligible |-> eligible, includes |-> base.of \subseteq eligible.of,
              threshold |-> per_party(a, "threshold"), mta |-> per_party(a, "mta"),
              rounding |-> rounding(a)]

----------------------------------------------------------------------------
(* documents.py: the Credit Support Annex.                                  *)

CsaRequired == {"base_currency", "eligible_currency", "threshold", "mta", "governing_law"}
               \cup RoundingFields
Currencies == {"base_currency", "eligible_currency", "rounding_currency"}

\* _csa_amount: the larger of the shared figure and the parties'.
csa_values(a, base) == Given(a, {base} \cup {PartyField[base][p] : p \in Parties})
csa_amount(a, base) == Max({a.fields[n].n : n \in csa_values(a, base)})
csa_readable(a, base) == /\ csa_values(a, base) # {}
                         /\ \A n \in csa_values(a, base) : Parses(a.fields[n])

\* Mutant: the naive order, whatever the threshold.
mta_within_threshold(a) ==
    /\ csa_readable(a, "threshold") /\ csa_readable(a, "mta")
    /\ csa_amount(a, "mta") <= csa_amount(a, "threshold")

mta_not_transposed_with_threshold(a) ==
    /\ csa_readable(a, "threshold") /\ csa_readable(a, "mta")
    /\ csa_amount(a, "threshold") = 0 \/ csa_amount(a, "mta") <= csa_amount(a, "threshold")

csa_gates(a) ==
    [currencies_are_iso_codes |-> iso_currency(a, Currencies),
     amounts_are_numeric |-> values_are_numeric(a, Amounts),
     no_clause_references_in_amounts |-> no_cross_reference_values(a, Amounts),
     rounding_directions_valid |->
        \A n \in Given(a, {"rounding_delivery_direction", "rounding_return_direction"}) :
            a.fields[n] \in {Direction(UP), Direction(DOWN)},
     mta_not_transposed_with_threshold |-> mta_not_transposed_with_threshold(a),
     rounding_no_coarser_than_mta |->
        /\ csa_readable(a, "mta") /\ Parses(Field(a, "rounding_delivery_amount"))
        /\ Field(a, "rounding_delivery_amount").n <= csa_amount(a, "mta"),
     rounding_standard_or_documented |->
        /\ \A n \in Given(a, {"rounding_delivery_amount", "rounding_return_amount"}) :
             a.fields[n].is = "number"
        /\ standard_rounding(a) \/ Field(a, "rounding_full_text") # Nothing,
     valuation_percentages_sane |-> /\ a.rows # {} /\ a.rows \subseteq 50..100
                                    /\ Max(a.rows) >= 95,
     representable_in_cdm |-> to_cdm(a) # CdmError]

----------------------------------------------------------------------------
(* documents.py: the supplier invoice. Money is counted in cents and stated *)
(* to the cent, quantities are whole, the tax rate is in hundredths of a    *)
(* percent; the rows are [quantity, unit_price]. The code computes with     *)
(* floats: their sums and products, rounded to the cent, are the exact ones *)
(* but where the exact one ends in half a cent; and 0.01 is no float, so    *)
(* that amounts one cent apart are within it or not, as their digits go     *)
(* (52.40 and 52.41 are, 1.00 and 1.01 are not).                            *)

CONSTANTS
    CloseFloats,      \* sets of two amounts one cent apart: abs(x - y) <= 0.01
    RoundedUp         \* pairs of a net and a rate whose gross ends in half a cent: rounds up

InvoiceRequired == {"invoice_number", "invoice_date", "due_date", "net_total", "tax_rate_pct",
                    "gross_total", "currency"}

WithinACent(m, n) == m = n \/ (m - n \in {-1, 1} /\ {m, n} \in CloseFloats)
net_of(rows) == FoldSeq(LAMBDA row, sum : row.quantity * row.unit_price + sum, 0, rows)

\* Rounded to the nearest cent from ten-thousandths of one, in which tax is exact; which
\* of two it is that are equally near is the float's affair.
Cent == 10000
Half == 5000
gross_of(net, rate) ==
    (net * (Cent + rate) + (IF <<net, rate>> \in RoundedUp THEN Half ELSE Half - 1)) \div Cent

\* _date reads what is a date.
Dated(a, names) == \A n \in names : Field(a, n).is = "number"

invoice_gates(a) ==
    [lines_sum_to_total |->
        /\ a.rows # <<>>
        /\ \A n \in {"tax_rate_pct", "net_total", "gross_total"} : Parses(Field(a, n))
        /\ WithinACent(net_of(a.rows), Field(a, "net_total").n)
        /\ WithinACent(gross_of(net_of(a.rows), Field(a, "tax_rate_pct").n),
                       Field(a, "gross_total").n),
     due_after_invoice_date |->
        /\ Dated(a, {"due_date", "invoice_date"})
        /\ a.fields["due_date"].n > a.fields["invoice_date"].n]

----------------------------------------------------------------------------
(* documents.py: the KYC pack. Dates are counted in days. Texts are         *)
(* numbered: a name by what _normalise_name leaves of it (its letters a to  *)
(* z), a type of identity document by 1 if it contains an accepted one, a   *)
(* type of proof of address by 0 if it contains none, the way the proof was *)
(* submitted by 0 if that says screenshot.                                  *)

CONSTANTS
    ComesOfAge,       \* day of birth -> the day on which MINIMUM_AGE years are complete
    MaxProofAge,
    NonBankMarked     \* <<type, provider>> (0: none stated) of proofs of address whose text
                      \* shows a marker of a non-bank, as part of a word or across both too:
                      \* "emi" is in "Premier"

KycRequired == {"application_reference", "application_date", "applicant_name", "date_of_birth",
                "place_of_birth", "country_of_citizenship", "document_type", "name_on_document",
                "document_expiry", "address_proof_type", "address_proof_addressed_to",
                "address_proof_date", "address_proof_format", "pep_status"}

kyc_gates(a) ==
    LET on(name) == Field(a, name).n
    IN  [applicant_is_of_age |->
            /\ Dated(a, {"date_of_birth", "application_date"})
            /\ ComesOfAge[on("date_of_birth")] <= on("application_date"),
         identity_document_valid |->
            /\ Dated(a, {"document_expiry", "application_date"})
            /\ on("document_expiry") > on("application_date"),
         identity_document_type_accepted |-> Field(a, "document_type") = Number(1),
         identity_data_points_present |->
            {"applicant_name", "date_of_birth", "place_of_birth", "country_of_citizenship"}
                \subseteq DOMAIN a.fields,
         name_matches_document |-> Field(a, "applicant_name") = Field(a, "name_on_document"),
         address_proof_type_accepted |->
            /\ on("address_proof_type") # 0
            /\ <<on("address_proof_type"), on("address_proof_provider")>> \notin NonBankMarked,
         address_proof_names_applicant |->
            /\ "address_proof_addressed_to" \in DOMAIN a.fields
            /\ Field(a, "address_proof_addressed_to") = Field(a, "applicant_name"),
         address_proof_not_a_screenshot |-> Field(a, "address_proof_format") # Number(0),
         address_proof_recent |->
            /\ Dated(a, {"application_date", "address_proof_date"})
            /\ on("application_date") - on("address_proof_date") \in 0..MaxProofAge]
====
