---- MODULE Constraints ----
(***************************************************************************)
(* From a CSA extraction to constraints an optimiser may use               *)
(* (examples/collateral): build_pack makes a constraint of every term and  *)
(* schedule row and gives it the clause it rests on, certify says whether  *)
(* the pack may be used, shadow.reconcile lists where the margin system    *)
(* holds other terms. The shadow run does all three with whatever intake   *)
(* has extracted, accepted or referred.                                    *)
(*                                                                         *)
(* A clause of the agreement mentions assets and shows the digits of       *)
(* percentages; a quote is in the agreement only if it is written exactly  *)
(* as it stands there.                                                     *)
(***************************************************************************)
EXTENDS Evidence

CONSTANTS
    Mentions,     \* clause -> the assets it names
    Shows,        \* clause -> the percentages whose digits occur in it
    Markers,      \* the clauses with a term no constraint can express
    Agreements,   \* [fields, rows, source]: fields name -> [value, quote], rows a
                  \* sequence of [about, pct, quote], source a set of clauses
    MarginSystems,\* name -> value, as the margin system holds it
    Null          \* the value of what was not extracted

\* No agreement is the mark of there being none, and no field is called as what stands
\* for a row (extraction.py's names are the terms of the agreement); NoQuote is no clause.
ASSUME ConstraintAssumption ==
    \A a \in Agreements :
        /\ a # [none |-> TRUE] /\ a.rows \in Seq(Range(a.rows))
        /\ "row" \notin DOMAIN a.fields /\ "none" \notin a.source

VARIABLES
    agreement,    \* the artifact of the intake run
    pack,         \* [constraints, omitted, unsupported]
    certificate,  \* [certified, reasons]
    shadow        \* the discrepancies: name -> [ours, theirs, clause]

constraintVars == <<agreement, pack, certificate, shadow>>

None == [none |-> TRUE]

ConstraintInit ==
    /\ agreement = None /\ pack = None /\ certificate = None /\ shadow = None

----------------------------------------------------------------------------
(* The clause behind a constraint: [of, quote, verified].                   *)

value(name) ==
    IF name \in DOMAIN agreement.fields THEN agreement.fields[name].value ELSE Null

verbatim(quote) == In(quote, agreement.source, {"exact"})

\* _prov: the entries there are of these fields, each with its own quote.
prov(names) ==
    {[of |-> n, quote |-> agreement.fields[n].quote,
      verified |-> verbatim(agreement.fields[n].quote)] : n \in names \cap DOMAIN agreement.fields}

Of(quote, verified) == {[of |-> "row", quote |-> quote, verified |-> verified]}

\* Mutant: a row without a quote rests on the base currency's clause.
row_provenance_by_fallback(i) ==
    LET row == agreement.rows[i]
    IN  IF row.quote = NoQuote THEN prov({"base_currency"})
        ELSE IF ~verbatim(row.quote) THEN Of(row.quote, FALSE)
        ELSE Of(row.quote, TRUE)

\* _row_provenance: no quote, or a quote that shares no word with the row, and the row
\* is omitted; a quote that is not in the agreement is marked as not verified.
row_provenance(i) ==
    LET row == agreement.rows[i]
    IN  IF row.quote = NoQuote THEN {}
        ELSE IF ~verbatim(row.quote) THEN Of(row.quote, FALSE)
        ELSE IF row.about # {} /\ row.about \cap Mentions[row.quote.clause] = {} THEN {}
        ELSE Of(row.quote, TRUE)

\* _valuation_reason. (The digits may be part of another number.)
valuation_carried(i) ==
    /\ agreement.rows[i].pct \in 1..100
    /\ \A p \in row_provenance(i) : agreement.rows[i].pct \in Shows[p.quote.clause]

----------------------------------------------------------------------------
Constraint(kind, party, content, provenance) ==
    [kind |-> kind, party |-> party, content |-> content, provenance |-> provenance]

\* _per_party: a shared amount counts for both unless a party has its own.
per_party_constraints(base, kind) ==
    LET own == [PARTY_1 |-> base \o "_party_a", PARTY_2 |-> base \o "_party_b"]
        given == {p \in DOMAIN own : value(own[p]) # Null}
        Amount(p, n) == Constraint(kind, p, [term |-> base, amount |-> value(n)], prov({n}))
    IN  IF given # {} THEN {Amount(p, own[p]) : p \in given}
        ELSE IF value(base) # Null THEN {Amount(p, base) : p \in DOMAIN own}
        ELSE {}

RoundingTerms == {"rounding_delivery_amount", "rounding_delivery_direction",
                  "rounding_return_amount", "rounding_return_direction"}

rounding_constraints ==
    IF \E n \in {"rounding_delivery_amount", "rounding_return_amount"} : value(n) # Null
    THEN {Constraint("rounding", "BOTH", [n \in RoundingTerms |-> value(n)], prov(RoundingTerms))}
    ELSE {}

\* A row that is not established gives no constraint at all, one whose percentage is
\* not carried gives its eligibility only; either way it is in `omitted`.
Established == {i \in DOMAIN agreement.rows : row_provenance(i) # {}}
Valued == {i \in Established : agreement.rows[i].pct # Null}
Carried == {i \in Valued : valuation_carried(i)}

row_constraints ==
    {Constraint("eligibility", "BOTH", [row |-> i], row_provenance(i)) : i \in Established}
    \cup {Constraint("valuation", "BOTH", [row |-> i, pct |-> agreement.rows[i].pct],
                     row_provenance(i)) : i \in Carried}

currency_constraints ==
    {Constraint("currency", "BOTH",
                [currency |-> IF value("eligible_currency") # Null THEN value("eligible_currency")
                              ELSE value("base_currency")],
                prov({"eligible_currency", "base_currency"}))}

\* find_unsupported reads the agreement, not the extraction.
find_unsupported == agreement.source \cap Markers

extracted_agreement(a) ==
    /\ agreement = None /\ agreement' = a
    /\ UNCHANGED <<pack, certificate, shadow>>

\* Without a base currency it raises, and the shadow run ends there.
build_pack ==
    /\ agreement # None /\ pack = None
    /\ value("base_currency") # Null
    /\ pack' = [constraints |-> currency_constraints \cup row_constraints \cup rounding_constraints
                    \cup per_party_constraints("threshold", "threshold")
                    \cup per_party_constraints("mta", "transfer")
                    \cup per_party_constraints("independent_amount", "threshold"),
                omitted |-> (DOMAIN agreement.rows \ Established) \cup (Valued \ Carried),
                unsupported |-> find_unsupported]
    /\ UNCHANGED <<agreement, certificate, shadow>>

----------------------------------------------------------------------------
RequiredKinds == {"currency", "eligibility", "threshold", "transfer"}

Behind(c) == c.provenance

certify(allow_unsupported) ==
    /\ pack # None /\ certificate = None
    /\ LET reasons ==
             {r \in {"missing", "unverified", "bare", "omitted", "unsupported"} :
                \/ r = "missing" /\ ~(RequiredKinds \subseteq {c.kind : c \in pack.constraints})
                \/ r = "unverified" /\ \E c \in pack.constraints : \E p \in Behind(c) : ~p.verified
                \/ r = "bare" /\ \E c \in pack.constraints : Behind(c) = {}
                \/ r = "omitted" /\ pack.omitted # {}
                \/ r = "unsupported" /\ pack.unsupported # {} /\ ~allow_unsupported}
       IN  certificate' = [certified |-> reasons = {}, reasons |-> reasons,
                           allowed |-> allow_unsupported]
    /\ UNCHANGED <<agreement, pack, shadow>>

\* shadow.reconcile: what the system holds and the extraction has. The clause is the
\* extraction's, checked or not.
reconcile_shadow(system) ==
    /\ certificate # None /\ shadow = None
    /\ LET compared == DOMAIN system \cap DOMAIN agreement.fields
           differ == {n \in compared : value(n) # system[n]}
       IN  shadow' = [n \in differ |-> [ours |-> value(n), theirs |-> system[n],
                                       clause |-> agreement.fields[n].quote]]
    /\ UNCHANGED <<agreement, pack, certificate>>

ConstraintNext ==
    \/ \E a \in Agreements : extracted_agreement(a)
    \/ build_pack
    \/ \E allow \in BOOLEAN : certify(allow)
    \/ \E s \in MarginSystems : reconcile_shadow(s)

----------------------------------------------------------------------------
\* The terms a certified pack must account for.
Elections == {"threshold", "mta", "independent_amount"}
Own_or_base(base) == {base, base \o "_party_a", base \o "_party_b"}
PackFields == {"base_currency", "eligible_currency"} \cup RoundingTerms
              \cup UNION {Own_or_base(b) : b \in Elections}
RestsOn(n) == \E c \in pack.constraints : \E p \in Behind(c) : p.of = n
Elected(b) == {n \in Own_or_base(b) : value(n) # Null}

\* The row's clause is in the agreement, about the row, and shows its percentage.
StandsOnItsOwn(i) ==
    LET row == agreement.rows[i]
    IN  /\ verbatim(row.quote)
        /\ row.about = {} \/ row.about \cap Mentions[row.quote.clause] # {}
        /\ row.pct # Null => row.pct \in 1..100 \cap Shows[row.quote.clause]

InPack(i) ==
    /\ \E c \in pack.constraints : c.kind = "eligibility" /\ c.content.row = i
    /\ agreement.rows[i].pct # Null =>
         \E c \in pack.constraints :
            c.kind = "valuation" /\ c.content = [row |-> i, pct |-> agreement.rows[i].pct]

\* What certify asks of an agreement, whose independent amount passes for a threshold.
Answered ==
    /\ agreement.rows # <<>> /\ \A i \in DOMAIN agreement.rows : StandsOnItsOwn(i)
    /\ agreement.source \cap Markers = {} \/ certificate.allowed
    /\ Elected("mta") # {} /\ Elected("threshold") \cup Elected("independent_amount") # {}

\* A certified pack is the agreement's schedule and elections, each resting on its own
\* words: every row is there, with its percentage, under a clause of the agreement
\* that names an asset of the row and shows that percentage; an amount elected for a
\* party is there for that party with the amount's own clause, zero included; and no
\* clause nobody modelled is left unless the caller allowed it. Where the margin system
\* then disagrees on one of these, the shadow report quotes the agreement. Conversely
\* a complete extraction that quotes every term from its own clause is certified.
\* (constraints.py: "A row that arrives without its own quote is not emitted";
\* certify: "every constraint in it quotes a clause that appears in the source".)
CertifiedIsTraced ==
    certificate # None =>
        /\ certificate.certified =>
             /\ Answered
             /\ \A i \in DOMAIN agreement.rows : InPack(i)
             /\ \A b \in Elections : \A n \in Elected(b) \ {b} : RestsOn(n)
             /\ \A c \in pack.constraints : \A p \in Behind(c) : verbatim(p.quote)
             /\ shadow # None =>
                  \A n \in DOMAIN shadow : RestsOn(n) => verbatim(shadow[n].clause)
        /\ /\ Answered
           /\ \A n \in DOMAIN agreement.fields \cap PackFields : verbatim(agreement.fields[n].quote)
           => certificate.certified
====
