---- MODULE MCApplication ----
(***************************************************************************)
(* A small instance of Application for TLC.                                *)
(***************************************************************************)
EXTENDS Application

CONSTANTS secret, instruction, redacted, more, anyTool, noPage, noExtraction, null,
          noUnit, noWords, bare, noText, noGates

----------------------------------------------------------------------------
(* Configuration, graphs, tools, notes                                      *)

MCConfigFiles ==
    LET Line == [indent : 0..2, key : {"a", "api_key_env"}, value : {"", "- x", "NAME"}]
    IN  [1..3 -> Line]
          \cup {<<[indent |-> 0, key |-> k, value |-> v]>> : k \in {"a", "api_key_env"},
                                                            v \in {"sk-live", "hunter2"}}
          \cup {<<[indent |-> 0, key |-> "a", value |-> ""], [indent |-> 1, key |-> k, value |-> v]>> :
                    k \in {"a", "b"}, v \in {"word", "yes"}}
MCscalar(text) == IF text = "yes" THEN "True" ELSE text

\* Dependencies may be unknown (a node itself included), or written twice. What has two
\* dependencies may require, what has fewer may provide.
MCNodeShapes ==
    LET Deps == {d \in UNION {[1..k -> 1..3] : k \in 0..2} : Len(d) = 2 => d[1] <= d[2]}
        Shape(d, req, gives, idem, comp) == [deps |-> d, requires |-> req, provides |-> gives,
                                            idempotency |-> idem, compensate |-> comp]
    IN  {Shape(d, {}, {}, FALSE, FALSE) : d \in Deps}
        \cup {Shape(d, {"x"}, {}, FALSE, FALSE) : d \in {e \in Deps : IsInjective(e)}}
        \cup {Shape(d, {}, {"x"}, FALSE, FALSE) : d \in {e \in Deps : Len(e) < 2}}
        \cup {Shape(<<>>, {"s"}, {}, idem, TRUE) : idem \in BOOLEAN}

MCTier == [fetch |-> "read_only", order |-> "reversible", pay |-> "restricted",
           read_artifact |-> "read_only", search_tools |-> "read_only"]

\* A long result is longer than two pages; an error may quote what it was given.
MCReturns ==
    [fetch |-> {[text |-> <<1, instruction, secret, 4, 5, 6>>, error |-> FALSE],
                [text |-> <<instruction, secret>>, error |-> TRUE]},
     order |-> {[text |-> <<1, secret, 3, 4, 5, 6, 7, 8>>, error |-> FALSE]},
     pay |-> {[text |-> <<1>>, error |-> FALSE]}]

MCHookBuses == {<<"phase_guard", "deny_restricted_without_approval">>,
                <<"deny_restricted_without_approval", "phase_guard">>,
                <<"ask_before_writing", "shadow">>,
                <<"shadow", "ask_before_writing">>}

MCToolLists == {anyTool, {"order", "pay"}, {"fetch", "read_artifact", "pay"}}

MCSlug == [plan |-> "note", Plan |-> "note", fees |-> "fees"]

----------------------------------------------------------------------------
(* Evidence                                                                 *)

Open(t)  == [is |-> "open", name |-> t]
Close(t) == [is |-> "close", name |-> t]
Run(c)   == [is |-> "data", name |-> c]
Within(t, s) == <<Open(t)>> \o s \o <<Close(t)>>

\* A paragraph, a hidden run, a table with a row of one or two cells, loose markup.
MCPages ==
    LET Cell(c) == Within("td", <<Run(c)>>)
        Tables == {Within("table", Within("tr", Cell("amount") \o x) \o Within("tr", Cell("date"))) :
                     x \in {<<Run("blank")>>, Cell("terse")}}
        Blocks == Tables
            \cup {Within("p", <<Run(c)>>) : c \in {"amount", "names"}}
            \cup {Within("noscript", <<Run("amount"), Run("blank")>>), <<Open("meta")>>,
                  Within("noscript", Within("script", <<Run("date")>>)),
                  <<Open("noscript"), Run("amount"), Open("body")>>}
    IN  {x \o y : x, y \in Blocks}

Written(digits, lens, seps, meant) ==
    [digits |-> digits, lens |-> lens, seps |-> seps, meant |-> meant,
     unit |-> noUnit, words |-> noWords]
In_words(w, unit, words) == [w EXCEPT !.unit = unit, !.words = words]
Amount(w) == [type |-> "amount", id |-> {}, written |-> w]
Date(days, shows) == [type |-> "date", id |-> days,
                      written |-> [first |-> shows[1], shows |-> Range(shows), words |-> noWords]]
Name(n) == [type |-> "name", id |-> {n}, written |-> <<>>]

Five == Written(5000, <<1, 3>>, <<",">>, 0)              \* 5,000
Terse == Written(123450, <<1, 3, 2>>, <<".", ",">>, 2)   \* 1.234,50
Decimal == Written(150, <<1, 2>>, <<",">>, 2)            \* 1,50
OneFive == Written(15, <<1, 1>>, <<".">>, 1)             \* 1.5
Thousands == Written(5000, <<1, 3>>, <<".">>, 0)         \* 5.000, or 5 thousand
Plain(n, k) == Written(n, <<k>>, <<>>, 0)
March == Date({1, 2}, <<3, 4, 2026>>)                    \* 03/04/2026
ThirdOfApril == Date({1}, <<2026, 4, 3>>)

\* 5,000 with a pointer beside it; 03/04/2026; "Jonathon Whitfield"; 1.234,50; 1,50
\* and 5.000.
MCStates ==
    [amount |-> {Amount(Five), [type |-> "pointer", id |-> {13}, written |-> <<>>]},
     date |-> {March},
     names |-> {Name(1), Name(3)},
     terse |-> {Amount(Terse)},
     decimal |-> {Amount(Decimal), Amount(Thousands)}]

\* The digits of an amount, or of a date, taken for themselves.
MCSpells == [c \in Clauses |-> MCStates[c]
                \cup IF c = "amount" THEN {Amount(Plain(5, 1))}
                     ELSE IF c = "date" THEN {Amount(Plain(2026, 4))} ELSE {}]

MCUnparsed == {"US$", "EUR_flush"}

MCAlike == {<<{1}, {2}>>, <<{2}, {1}>>}

MCExtractions ==
    LET Values == {Absent, Filler, Amount(Plain(5000, 4)), Amount(Plain(5, 1)),
                   Amount(Written(123450, <<4, 2>>, <<".">>, 2)), Amount(OneFive),
                   Amount(Thousands), Amount(Plain(6, 1)), Amount(Plain(2026, 4)),
                   Amount(Written(30, <<1, 1>>, <<".">>, 1)),
                   Amount(In_words(Plain(6, 1), "USD", "per Transaction")),
                   Amount(In_words(Plain(6, 1), "US$", noWords)),
                   ThirdOfApril, Date({3}, <<2027, 3, 3>>), Name(1), Name(2)}
        Quotes == {NoQuote} \cup [clause : Clauses, dressing : {"exact"}]
                  \cup [clause : {"amount"}, dressing : Dressings]
    IN  {[f \in {"a"} |-> [value |-> v, quote |-> q]] : v \in Values, q \in Quotes}
        \cup {[f \in {"a", "b"} |-> IF f = "a" THEN [value |-> v, quote |-> NoQuote]
                                   ELSE [value |-> Name(1), quote |-> q]] :
                 v \in {Absent, Name(1)},
                 q \in {NoQuote, [clause |-> "names", dressing |-> "exact"]}}

----------------------------------------------------------------------------
(* Intake                                                                   *)

Each(a, b) == [party_a |-> a, party_b |-> b]
Round(d, r, ud, c) == [delivery |-> d, return |-> r, up_then_down |-> ud, conditional |-> c]
Annex(eligible, t, m, r, rows) ==
    [kind |-> "csa", terms |-> [base |-> "USD", eligible |-> eligible, threshold |-> t, mta |-> m,
                                rounding |-> r, rows |-> rows]]
Usual(t, m, r, rows) == Annex({"USD"}, t, m, r, rows)
MCAnnexes ==
    {Usual(t, m, Round(1, 1, TRUE, FALSE), {98, 100}) :
        t \in {Each(0, 0), Each(1, 1), Each(3, 3), Each(1, 3)}, m \in {Each(1, 1), Each(2, 2), Each(1, 2)}}
    \cup {Usual(Each(3, 3), Each(2, 2), r, {96, 100}) :
             r \in {Nothing, Round(3, 3, TRUE, FALSE), Round(1, 2, TRUE, FALSE),
                    Round(1, 1, FALSE, FALSE), Round(1, 1, TRUE, TRUE)}}
    \cup {Usual(Each(3, 3), Each(2, 2), Round(1, 1, TRUE, FALSE), rows) : rows \in {{}, {40, 100}}}
    \cup {Annex(es, Each(3, 3), Each(2, 2), Round(1, 1, TRUE, FALSE), {96, 100}) :
             es \in {{}, {"EUR"}, {"USD", "EUR"}}}

Line(quantity, price) == [quantity |-> quantity, unit_price |-> price]
Lines == <<Line(6, 825), Line(2, 145)>>
SmallLines == <<Line(1, 2), Line(1, 5239)>>
Invoice(lines, net, rate, gross, due) ==
    [kind |-> "invoice",
     terms |-> [fields |-> ("invoice_number" :> Number(1)) @@ ("currency" :> Number(1))
                   @@ ("invoice_date" :> Number(10)) @@ ("due_date" :> Number(due))
                   @@ ("net_total" :> Number(net)) @@ ("tax_rate_pct" :> Number(rate))
                   @@ ("gross_total" :> Number(gross)),
                rows |-> lines]]
Undated(d) == [d EXCEPT !.terms.fields = Restrict(@, DOMAIN @ \ {"invoice_date"})]

\* Right, off by a cent that floats allow or do not, by more, due too early, a line of
\* two cents, a gross total at half a cent (Python rounds 0.105 up and 3.045 down).
MCInvoices ==
    {Invoice(Lines, 5240, 2000, gross, 40) : gross \in {6287, 6288, 6289, 6290}}
    \cup {Invoice(Lines, 5241, 2000, 6288, 40), Invoice(Lines, 5420, 2000, 6504, 40),
          Invoice(Lines, 5240, 2000, 6288, 10), Invoice(SmallLines, 5240, 0, 5240, 40),
          Invoice(<<Line(1, 99)>>, 99, 2000, 119, 40),
          Undated(Invoice(Lines, 5240, 2000, 6288, 40))}
    \cup {Invoice(<<Line(1, 10)>>, 10, 500, gross, 40) : gross \in {10, 11}}
    \cup {Invoice(<<Line(2, 145)>>, 290, 500, gross, 40) : gross \in {304, 305}}

\* What Python's floats make of these: abs(62.87 - 62.88) <= 0.01 is false.
MCCloseFloats == {{5239, 5240}, {5240, 5241}, {6288, 6289}, {10, 11}, {304, 305}}
MCRoundedUp == {<<10, 500>>}

\* A pack in order, and the same with one thing wrong, or one not stated.
GoodPack == [application_reference |-> 1, application_date |-> 1000, applicant_name |-> 1,
             date_of_birth |-> 900, place_of_birth |-> 1, country_of_citizenship |-> 1,
             document_type |-> 1, name_on_document |-> 1, document_expiry |-> 1001,
             address_proof_type |-> 1, address_proof_provider |-> 1,
             address_proof_addressed_to |-> 1, address_proof_date |-> 1000 - MaxProofAge,
             address_proof_format |-> 1, pep_status |-> 0]
Pack(change, missing) ==
    [kind |-> "kyc",
     terms |-> [fields |-> [n \in DOMAIN GoodPack \ missing |-> Number((change @@ GoodPack)[n])],
                rows |-> {}]]
MCPacks ==
    {Pack(c, {}) : c \in
        {<<>>, "address_proof_date" :> 1000, "date_of_birth" :> 901, "document_expiry" :> 1000,
         "document_type" :> 0, "name_on_document" :> 2, "address_proof_type" :> 0,
         "address_proof_type" :> 2, "address_proof_provider" :> 2,
         "address_proof_addressed_to" :> 2, "address_proof_date" :> 999 - MaxProofAge,
         "address_proof_date" :> 1001, "address_proof_format" :> 0}}
    \cup {Pack(<<>>, {name}) : name \in {"country_of_citizenship", "applicant_name",
                                        "address_proof_provider", "pep_status"}}
MCComesOfAge == [n \in Nat |-> n + 100]

\* A provider called Premier Energy, and an online-only bank.
MCNonBankMarked == {<<1, 2>>} \cup ({2} \X (0..2))

MCDocuments == MCAnnexes \cup MCInvoices \cup MCPacks
MCCitedField == [csa |-> "mta", invoice |-> "net_total", kyc |-> "name_on_document"]

OnPage == [clause |-> "page", dressing |-> "exact"]
Elsewhere == [clause |-> "elsewhere", dressing |-> "exact"]
Keys == {"kind", "document_id", "_source_text", "_verification"}

MCExtractors ==
    [reading : {"faithful", "swapped", "formatted", "pointer", "spelled_out", "one_direction",
                "abridged", "placeholder", "haircuts", "digit", "line_missed", "dates_swapped",
                "reconciled"},
     quote : {OnPage}, forged : {{}}]
    \cup [reading : {"faithful"}, quote : {NoQuote} \cup [clause : {"page"}, dressing : Dressings],
          forged : {{}}]
    \cup [reading : {"faithful"}, quote : {OnPage, Elsewhere}, forged : {{}, Keys} \cup {{k} : k \in Keys}]

Review(json, approves, citations) == [json |-> json, approves |-> approves, citations |-> citations]
MCReviewers ==
    {Review(TRUE, TRUE, {OnPage}), Review(TRUE, TRUE, {}), Review(TRUE, TRUE, {OnPage, Elsewhere}),
     Review(TRUE, FALSE, {OnPage}), Review(FALSE, TRUE, {OnPage}),
     Review(TRUE, TRUE, {[OnPage EXCEPT !.dressing = "as seen"]})}

----------------------------------------------------------------------------
(* Constraints                                                              *)

MCMentions == [currency |-> {"cash"}, threshold |-> {}, mta |-> {}, cash |-> {"cash"},
               bond |-> {"bond"}, agent |-> {}]
MCShows == [currency |-> {}, threshold |-> {5}, mta |-> {5}, cash |-> {100, 10},
            bond |-> {98, 9, 5}, agent |-> {}]
MCMarkers == {"agent"}

Verbatim(c) == [clause |-> c, dressing |-> "exact"]
Rewrapped(c) == [clause |-> c, dressing |-> "rewrapped"]
Term(v, c) == [value |-> v, quote |-> Verbatim(c)]
Row(about, pct, quote) == [about |-> about, pct |-> pct, quote |-> quote]

Body == {"currency", "threshold", "mta", "cash", "bond"}
MCAgreements ==
    LET Base == "base_currency" :> Term("USD", "currency")
        Floor == "mta" :> Term(5, "mta")
        Band == "threshold" :> Term(0, "threshold")
        Cash == Row({"cash"}, 100, Verbatim("cash"))
        Fields == {Base @@ Floor @@ Band, Floor @@ Band, Base @@ Floor, Base @@ Band,
                   Base @@ Floor @@ ("threshold_party_a" :> Term(0, "threshold"))
                                 @@ ("threshold_party_b" :> Term(5, "threshold")),
                   Base @@ Band @@ ("mta_party_b" :> Term(5, "mta")),
                   Base @@ Floor @@ Band @@ ("independent_amount" :> Term(5, "agent")),
                   Base @@ Floor @@ ("independent_amount" :> Term(5, "threshold")),
                   Base @@ Floor @@ Band @@ ("governing_law" :> [value |-> "English",
                                                                  quote |-> NoQuote]),
                   Base @@ Floor @@ ("threshold" :> [value |-> 0, quote |-> Rewrapped("threshold")]),
                   Base @@ Floor @@ ("threshold" :> [value |-> 0, quote |-> NoQuote]),
                   Base @@ Floor @@ Band @@ ("eligible_currency" :> Term("EUR", "currency"))
                       @@ ("rounding_delivery_amount" :> Term(5, "mta")),
                   Base @@ Floor @@ Band @@ ("rounding_return_direction" :> Term("DOWN", "mta"))}
        Rows == {<<>>, <<Cash>>}
                \cup {<<Cash, Row(a, p, q)>> : a \in {{}, {"bond"}}, p \in {Null, 98, 100, 9, 102, 0},
                        q \in {NoQuote, Verbatim("bond"), Verbatim("cash"), Verbatim("currency"),
                               Rewrapped("bond")}}
    IN  [fields : Fields, rows : {<<>>, <<Cash>>}, source : {Body, Body \cup {"agent"}}]
        \cup [fields : {Base @@ Floor @@ Band}, rows : Rows, source : {Body, Body \ {"bond"}}]

MCMarginSystems == {[base_currency |-> "USD", threshold |-> 5, mta |-> 5, governing_law |-> "NY"],
                    [threshold |-> 0]}

----------------------------------------------------------------------------
(* Reconciliation                                                           *)

MCCurrency == [u \in {noUnit, "USD", "EUR", "US$", "EUR_flush"} |->
                  IF u = "US$" THEN "USD" ELSE IF u = "EUR_flush" THEN "EUR" ELSE u]

ByWord(w) == In_words(w, noUnit, "per Transaction")
Stored == {Amount(In_words(Five, u, w)) : u \in {noUnit, "USD", "EUR"},
                                          w \in {noWords, "per Transaction"}}
          \cup {Amount(w) : w \in {Plain(6, 1), Plain(2026, 4), Thousands, ByWord(Terse),
                                    In_words(Five, "US$", noWords), In_words(Five, "EUR_flush", noWords),
                                    Written(5000, <<1, 3>>, <<"'">>, 0)}}
          \cup {ThirdOfApril, Date({3}, <<2026, 4, 5>>), Date({4}, <<2027, 1, 1>>), Name(1)}
StoredKey(d, is) == [document |-> d, is |-> is]
StoredRow(d, is, terms) == [key |-> StoredKey(d, is), terms |-> terms]
MCExports ==
    LET One(v) == StoredRow(1, "stem", [mta |-> v, book |-> v])
        v == Amount(In_words(Plain(5000, 4), "USD", noWords))
        w == Amount(Plain(6, 1))
        Empty == StoredRow(1, "stem", <<>>)
    IN  {<<One(x)>> : x \in Stored}
        \cup {<<One(v), One(w)>>, <<One(v), One(w), StoredRow(1, "name", [law |-> v])>>,
              <<Empty>>, <<Empty, StoredRow(1, "name", [mta |-> w])>>,
              <<One(w), StoredRow(2, "stem", [law |-> Name(3)])>>}

NoFile == [extraction |-> "none", text |-> {}, fields |-> <<>>]
File(text, fields) == [extraction |-> "fields", text |-> text, fields |-> fields]
Entry(v, q, under) == [value |-> v, quote |-> q, under |-> under]
MCPortfolios ==
    LET Ours == {Amount(In_words(Plain(5000, 4), u, noWords)) : u \in {noUnit, "USD", "US$"}}
                \cup {Amount(w) : w \in {ByWord(Plain(5000, 4)), Plain(6, 1), Plain(5, 1),
                                          ByWord(Written(123450, <<1, 3, 2>>, <<",", ".">>, 2))}}
                \cup {ThirdOfApril, [Date({1}, <<3, 2026>>) EXCEPT !.written.words = "APRIL"], Name(1), Absent}
        Quotes == {NoQuote} \cup {Verbatim(c) : c \in {"amount", "date", "terse"}}
        Body_text == {"amount", "date", "names"}
    IN  {1 :> File(Body_text, [mta |-> Entry(v, q, u)]) :
            v \in Ours, q \in Quotes, u \in {"quote", "evidence_quote"}}
        \cup {1 :> File(Body_text, [mta |-> Entry(v, q, "evidence_quote"),
                               law |-> Entry(Name(1), Verbatim("names"), "quote")]) :
                 v \in Ours, q \in Quotes}
        \cup {(1 :> [NoFile EXCEPT !.extraction = x]) @@ (2 :> y) :
                 x \in {"none", "unreadable"},
                 y \in {NoFile, File(Body_text, [law |-> Entry(Name(1), Verbatim("names"), "quote")])}}
        \cup {<<>>}

----------------------------------------------------------------------------
(* Evaluation                                                               *)

MCCases == <<[decision |-> "accept", gates |-> {}], [decision |-> "refer", gates |-> {"g"}],
             [decision |-> "refer", gates |-> {"g"}]>>
Outcome(decision, failed, correct, valid_quotes) ==
    [raises |-> FALSE, decision |-> decision, gates |-> failed,
     fields |-> [correct |-> correct, wrong |-> 2 - correct, missing |-> 0],
     evidence |-> [valid |-> valid_quotes, total |-> 2]]
MCCaseOutcomes == {Outcome("accept", {}, 2, 2), Outcome("accept", {}, 1, 2), Outcome("refer", {"g"}, 2, 2),
               Outcome("refer", {"h"}, 2, 1), errored_outcome}

----------------------------------------------------------------------------
(* Records                                                                  *)

MCArtifacts ==
    [fields : {[f \in {"a", "b"} |-> IF f = "a" THEN [value |-> 1, quote |-> "page"]
                                    ELSE [value |-> 2, quote |-> q]] : q \in {bare, noText, "page"}},
     text : {noText, "page"}, extras : {{}, {"eligible_collateral"}}]
====
