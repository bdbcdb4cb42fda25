---- MODULE Intake ----
(***************************************************************************)
(* Taking a document in (document_intake/app.py): load, extract, assemble, *)
(* verify, gates, then accept or refer. The extractor and the verifier are *)
(* models: the one may misread the document, cite badly, or answer with    *)
(* keys that are not its own, the other may approve of anything and cite   *)
(* what is not there. The document's text is the one clause "page";        *)
(* "elsewhere" is a clause of a text the extractor made up.                *)
(***************************************************************************)
EXTENDS DomainGates

CONSTANTS
    Documents,        \* [kind, terms]: an annex's elections, or the fields a document
                      \* states; and its rows
    CitedField,       \* kind -> the field whose citation may be bad
    Extractors,       \* [reading, quote, forged]: how the document is read, CitedField
                      \* quoted, and which keys the answer has that are not its own
    Reviewers         \* [json, approves, citations]

VARIABLES
    document,         \* what was loaded
    extracted,        \* the extractor's answer: [reading, fields, rows, quotes, forged]
    artifact,
    gate_report,      \* the names of the gates that failed
    landed            \* [status, id, cdm]

intakeVars == <<document, extracted, artifact, gate_report, landed>>

NotYet == [none |-> TRUE]

IntakeInit ==
    /\ document = NotYet /\ extracted = NotYet /\ artifact = NotYet
    /\ gate_report = NotYet /\ landed = NotYet

load_document(d) ==
    /\ document = NotYet /\ document' = d
    /\ UNCHANGED <<extracted, artifact, gate_report, landed>>

----------------------------------------------------------------------------
(* The extractor. What the prompt asks it to write down, field by field.    *)

Amount_fields(base, terms) ==
    IF terms.party_a = terms.party_b THEN {base} ELSE {PartyField[base][p] : p \in Parties}

Standard(r) == r.up_then_down /\ r.delivery = r.return
transcribed_csa(t) ==
    LET r == t.rounding
        names == {"base_currency", "governing_law"}
                 \cup (IF t.eligible = {} THEN {} ELSE {"eligible_currency"})
                 \cup Amount_fields("threshold", t.threshold) \cup Amount_fields("mta", t.mta)
                 \cup (IF r = Nothing THEN {} ELSE RoundingFields)
                 \cup (IF r = Nothing \/ (Standard(r) /\ ~r.conditional) THEN {}
                       ELSE {"rounding_full_text"})
        elected == [base_currency |-> Codes({t.base}), eligible_currency |-> Codes(t.eligible),
                    governing_law |-> Number(0),
                    threshold |-> Number(t.threshold.party_a), mta |-> Number(t.mta.party_a),
                    threshold_party_a |-> Number(t.threshold.party_a),
                    threshold_party_b |-> Number(t.threshold.party_b),
                    mta_party_a |-> Number(t.mta.party_a), mta_party_b |-> Number(t.mta.party_b),
                    rounding_full_text |-> Number(0)]
        rounded == [rounding_delivery_amount |-> Number(r.delivery),
                    rounding_return_amount |-> Number(r.return),
                    rounding_delivery_direction |-> Direction(UP),
                    rounding_return_direction |-> Direction(IF r.up_then_down THEN DOWN ELSE UP)]
    IN  [n \in names |-> IF n \in RoundingFields THEN rounded[n] ELSE elected[n]]

transcribed(d) == IF d.kind = "csa" THEN transcribed_csa(d.terms) ELSE d.terms.fields

Misreadings ==
    [csa |-> {"swapped", "formatted", "pointer", "spelled_out", "one_direction", "abridged",
              "haircuts", "placeholder"},
     invoice |-> {"digit", "line_missed", "dates_swapped"},
     kyc |-> {"reconciled"}]

\* What a misreading makes of the fields and of the rows.
misread(reading, fields, rows) ==
    LET set(name, v) == [n \in DOMAIN fields |-> IF n = name THEN v ELSE fields[n]]
        swap(f, g) == [n \in DOMAIN fields |-> IF n = f THEN fields[g]
                                               ELSE IF n = g THEN fields[f] ELSE fields[n]]
        Is(name) == reading = name
    IN  [fields |->
            IF Is("swapped") /\ {"threshold", "mta"} \subseteq DOMAIN fields
            THEN swap("threshold", "mta")
            ELSE IF Is("formatted") THEN set("mta", Formatted(1))
            ELSE IF Is("pointer") THEN set("threshold", Reference)
            ELSE IF Is("spelled_out") THEN set("base_currency", Spelled)
            ELSE IF Is("one_direction") THEN set("rounding_return_direction", Direction(2))
            ELSE IF Is("abridged") THEN Restrict(fields, DOMAIN fields \ {"rounding_full_text"})
            ELSE IF Is("reconciled") /\ "applicant_name" \in DOMAIN fields
            THEN set("name_on_document", fields["applicant_name"])
            ELSE IF Is("placeholder") THEN set("governing_law", Placeholder)
            ELSE IF Is("dates_swapped") /\ {"invoice_date", "due_date"} \subseteq DOMAIN fields
            THEN swap("invoice_date", "due_date")
            ELSE fields,
         rows |->
            IF Is("haircuts") THEN {100 - pct : pct \in rows}
            ELSE IF Is("digit") THEN [rows EXCEPT ![1].unit_price = @ + 10]
            ELSE IF Is("line_missed") THEN Tail(rows)
            ELSE rows]

extract(x) ==
    /\ document # NotYet /\ extracted = NotYet
    /\ x.reading \in Misreadings[document.kind] \cup {"faithful"}
    /\ LET seen == misread(x.reading, transcribed(document), document.terms.rows)
       IN  extracted' = [reading |-> x.reading, fields |-> seen.fields, rows |-> seen.rows,
                         quotes |-> [n \in DOMAIN seen.fields |->
                            IF n = CitedField[document.kind] THEN x.quote
                            ELSE [clause |-> "page", dressing |-> "exact"]],
                         forged |-> x.forged]
    /\ UNCHANGED <<document, artifact, gate_report, landed>>

----------------------------------------------------------------------------
(* The nodes that follow.                                                   *)

NoVerdict == [approved |-> FALSE, found |-> {}]
Claimed == [approved |-> TRUE, found |-> {}]

\* Mutant: the extraction is laid over what is ours.
assemble_the_other_way ==
    /\ extracted # NotYet /\ artifact = NotYet
    /\ artifact' = [fields |-> extracted.fields, rows |-> extracted.rows,
                    quotes |-> extracted.quotes,
                    kind |-> IF "kind" \in extracted.forged THEN "other" ELSE document.kind,
                    id |-> IF "document_id" \in extracted.forged THEN "other" ELSE "its own",
                    source |-> IF "_source_text" \in extracted.forged
                               THEN {"page", "elsewhere"} ELSE {"page"},
                    verdict |-> IF "_verification" \in extracted.forged THEN Claimed ELSE NoVerdict]
    /\ UNCHANGED <<document, extracted, gate_report, landed>>

\* `{**doc, **extracted, "_source_text": ...}`: the extractor's `kind` and `document_id`
\* win over the document's, its source text does not. (A forged kind is any but "csa":
\* of another document that one does not land, for to_cdm misses the base currency.)
assemble ==
    /\ extracted # NotYet /\ artifact = NotYet
    /\ artifact' = [fields |-> extracted.fields, rows |-> extracted.rows,
                    quotes |-> extracted.quotes,
                    kind |-> IF "kind" \in extracted.forged THEN "other" ELSE document.kind,
                    id |-> IF "document_id" \in extracted.forged THEN "other" ELSE "its own",
                    source |-> {"page"},
                    verdict |-> IF "_verification" \in extracted.forged THEN Claimed ELSE NoVerdict]
    /\ UNCHANGED <<document, extracted, gate_report, landed>>

\* DocumentVerifier: an answer that is no JSON, one invented citation, or an approval
\* without a citation is a rejection. Its verdict replaces any other.
verify(r) ==
    /\ artifact # NotYet /\ gate_report = NotYet
    /\ LET found == {q \in r.citations : quote_is_in(artifact.source, q)}
           verdict == IF ~r.json THEN NoVerdict
                      ELSE [approved |-> r.approves /\ found # {} /\ found = r.citations,
                            found |-> found]
       IN  artifact' = [artifact EXCEPT !.verdict = verdict]
    /\ gate_report' = [verified |-> TRUE]
    /\ UNCHANGED <<document, extracted, landed>>

Required == [csa |-> CsaRequired, invoice |-> InvoiceRequired, kyc |-> KycRequired]

\* The gate set is the document's, chosen when the graph was built.
domain_gates(kind, a) ==
    IF kind = "csa" THEN csa_gates(a) ELSE IF kind = "invoice" THEN invoice_gates(a)
    ELSE kyc_gates(a)

gates ==
    /\ gate_report = [verified |-> TRUE]
    /\ LET Failed(results) == {g \in DOMAIN results : ~results[g]}
       IN  gate_report' = [failed |->
              Failed(evidence_gated_extraction(artifact, Required[document.kind]))
              \cup Failed(domain_gates(document.kind, artifact))]
    /\ UNCHANGED <<document, extracted, artifact, landed>>

Judged == "failed" \in DOMAIN gate_report /\ landed = NotYet

\* A CSA lands as CDM, by the kind the artifact gives, and under the id it gives.
accept ==
    /\ Judged /\ gate_report.failed = {}
    /\ landed' = [status |-> "accepted", id |-> artifact.id,
                   cdm |-> IF artifact.kind = "csa" THEN to_cdm(artifact) ELSE Nothing]
    /\ UNCHANGED <<document, extracted, artifact, gate_report>>

refer ==
    /\ Judged /\ gate_report.failed # {}
    /\ landed' = [status |-> "referred", id |-> artifact.id, cdm |-> Nothing]
    /\ UNCHANGED <<document, extracted, artifact, gate_report>>

IntakeNext ==
    \/ \E d \in Documents : load_document(d)
    \/ \E x \in Extractors : extract(x)
    \/ assemble
    \/ \E r \in Reviewers : verify(r)
    \/ gates \/ accept \/ refer

----------------------------------------------------------------------------
Accepted == landed # NotYet /\ landed.status = "accepted"

\* What is loaded rests on the document that was loaded, whatever the models say:
\* every required field is there, each is quoted from that document in its words
\* (or quotes nothing but characters without extent, which the gates let pass),
\* and a verifier approved it whose citations, one at least, are all in it.
\* (app.py: "Prefixed keys are ours"; verifier.py: "one fabricated quote rejects
\* the artifact regardless of the verdict"; gates.py: "A model must never get to
\* unilaterally declare a task done".)
AcceptedOnEvidence ==
    Accepted =>
        /\ Required[document.kind] \subseteq DOMAIN artifact.fields
        /\ \A n \in DOMAIN artifact.fields :
             /\ artifact.fields[n] # Placeholder
             /\ artifact.quotes[n].dressing = "unseen"
                \/ In(artifact.quotes[n], {"page"}, {"exact", "rewrapped", "as seen"})
        /\ artifact.verdict.approved /\ artifact.verdict.found # {}
        /\ \A q \in artifact.verdict.found : q.clause = "page"

\* An annex that should be loaded: its amounts are the same for both parties and do
\* not contradict each other, one currency is eligible, it says how to round, and its
\* percentages are no haircuts.
Lower(m, t) == t = 0 \/ m <= t
Consistent(t) ==
    /\ t.threshold.party_a = t.threshold.party_b /\ t.mta.party_a = t.mta.party_b
    /\ Lower(t.mta.party_a, t.threshold.party_a)
    /\ Single(t.eligible)
    /\ t.rounding # Nothing /\ t.rounding.delivery <= t.mta.party_a
    /\ t.rows # {} /\ Min(t.rows) >= 50 /\ Max(t.rows) \in 95..100

\* By how many cents the net total of an invoice is off what its lines come to, and by
\* how many ten-thousandths of a cent the gross total is off these with the tax.
NetOff(t) == net_of(t.rows) - t.fields["net_total"].n
GrossOff(t) == net_of(t.rows) * (Cent + t.fields["tax_rate_pct"].n)
               - Cent * t.fields["gross_total"].n
OffBy(z, n) == -n <= z /\ z <= n

\* An invoice may be paid if no total is off by more than a cent, the half cent of a
\* rounding apart, and the payment is due after the day of the invoice.
Payable(t) ==
    /\ t.rows # <<>> /\ NetOff(t) \in -1..1 /\ OffBy(GrossOff(t), Cent + Half)
    /\ t.fields["invoice_date"].n < t.fields["due_date"].n

\* A pack in order: the applicant is of age, the identity document in force, both
\* documents of a kind that is accepted and in the applicant's name, and the proof of
\* address recent, no screenshot and without the marker of a non-bank.
PackInOrder(t) ==
    LET on(name) == t.fields[name].n
        today == on("application_date")
        provider == IF "address_proof_provider" \in DOMAIN t.fields
                    THEN on("address_proof_provider") ELSE 0
    IN  /\ ComesOfAge[on("date_of_birth")] <= today /\ today < on("document_expiry")
        /\ on("address_proof_date") \in today - MaxProofAge..today
        /\ on("document_type") = 1 /\ on("address_proof_format") # 0
        /\ on("address_proof_type") # 0 /\ <<on("address_proof_type"), provider>> \notin NonBankMarked
        /\ {on("name_on_document"), on("address_proof_addressed_to")} = {on("applicant_name")}

\* The documents that may be loaded, and those that must be: of invoices, the ones
\* whose totals are right to the cent.
StatesAll(d) == Required[d.kind] \subseteq DOMAIN d.terms.fields
Coherent(d) ==
    \/ d.kind = "csa" /\ Consistent(d.terms)
    \/ d.kind = "invoice" /\ StatesAll(d) /\ Payable(d.terms)
    \/ d.kind = "kyc" /\ StatesAll(d) /\ PackInOrder(d.terms)
Beyond_doubt(d) ==
    Coherent(d) /\ (d.kind = "invoice" => NetOff(d.terms) = 0 /\ OffBy(GrossOff(d.terms), Half - 1))

\* An annex elects amounts, per party or the same for both, and percentages; what
\* invoices and packs state is legible as what it is, and no line of an invoice is of
\* nothing.
ASSUME IntakeAssumption ==
    /\ MaxProofAge \in Nat
    /\ \A d \in Documents :
         \/ /\ d.kind = "csa"
            /\ {d.terms.threshold, d.terms.mta} \subseteq [Parties -> Nat]
            /\ d.terms.rounding \in {Nothing} \cup [delivery : Nat, return : Nat,
                                                   up_then_down : BOOLEAN, conditional : BOOLEAN]
            /\ d.terms.rows \subseteq 0..100
         \/ /\ d.kind \in {"invoice", "kyc"}
            /\ d.terms.fields \in [DOMAIN d.terms.fields -> [is : {"number"}, n : Nat]]
            /\ d.kind = "invoice" =>
                 d.terms.rows \in Seq([quantity : Nat \ {0}, unit_price : Nat])

\* The misreadings that the gates cannot see: a name put right, a line missed that is
\* within the tolerance, Threshold and MTA swapped where one of the two is zero or
\* both are equal, and the full text of a rounding left out that is not standard only
\* in being conditional.
Unseen(d, reading) ==
    \/ reading \in {"faithful", "reconciled"}
    \/ reading = "swapped" /\ (0 \in {d.terms.threshold.party_a, d.terms.mta.party_a}
                               \/ d.terms.threshold = d.terms.mta)
    \/ reading = "abridged" /\ Standard(d.terms.rounding)
    \/ reading = "line_missed" /\ d.terms.rows[1].quantity * d.terms.rows[1].unit_price <= 2

\* The domain gates tell right from wrong. Of a faithful extraction, well cited and
\* confirmed, what is loaded coheres, and what coheres beyond doubt is loaded: an annex
\* or a pack exactly if it coheres (an annex that elects per party, knows several
\* eligible currencies or is silent on rounding never does), an invoice if its totals
\* are right to the cent and not if they are off by more; whether it is at a cent, or
\* at the half cent of a rounding, is left to the floats. What was misread of a document
\* that coheres is not loaded, apart from what no gate here can see; and an annex is
\* loaded as CDM that says of its currencies, of each party and of rounding what the
\* annex says. (Of a rounding that is otherwise standard the condition is lost: the
\* prompt names no field for it, so that the annex counts as Variant 1 and its full
\* text is not passed on; nor for its currency, which lands as the base currency. And
\* whether a proof of address is that of a non-bank is what its text shows: a provider
\* called Premier is refused, and a non-bank without a marker in its name is not.)
\* (documents.py, of the naive gate: it "refers it to a human every single time";
\* cdm.py: "an invented contractual term ... is invisible downstream".)
LoadedIfRight ==
    landed # NotYet =>
        LET well == /\ \A n \in DOMAIN artifact.fields : contains({"page"}, artifact.quotes[n])
                    /\ artifact.verdict.approved
            t == document.terms
            cdm == landed.cdm
        IN  /\ extracted.reading = "faithful" /\ well =>
                 /\ Accepted => Coherent(document)
                 /\ Beyond_doubt(document) => Accepted
            /\ Accepted /\ Coherent(document) =>
                 \/ Unseen(document, extracted.reading)
                 \/ extracted.fields = transcribed(document) /\ extracted.rows = t.rows
            /\ Accepted /\ artifact.kind = "csa" =>
                 /\ cdm # CdmError
                 /\ extracted.reading = "faithful" =>
                      /\ cdm.base = Codes({t.base}) /\ cdm.eligible = Codes(t.eligible)
                      /\ cdm.includes <=> t.base \in t.eligible
                      /\ cdm.threshold = t.threshold /\ cdm.mta = t.mta
                      /\ cdm.rounding.terms["rounding_delivery_amount"] = t.rounding.delivery
                      /\ cdm.rounding.terms["rounding_return_amount"] = t.rounding.return
                      /\ cdm.rounding.other = ~Standard(t.rounding)
====
