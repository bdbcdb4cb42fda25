---- MODULE Reconciliation ----
(***************************************************************************)
(* `pyligent-agents reconcile` (cli.py, reconcile.py): the terms keyed     *)
(* into a collateral system, an export of rows, are compared with what was *)
(* extracted from the agreements, document by document. A field the system *)
(* holds and the extraction has is AGREES, DISCREPANCY or, when its        *)
(* citation fails the evidence check, UNVERIFIED.                          *)
(*                                                                         *)
(* A stated value is a token: text or a number, no truth value; the amount *)
(* is the first number in it, and it is not negative.                      *)
(***************************************************************************)
EXTENDS Evidence

CONSTANTS
    Exports,      \* sequences of rows [key, terms]; a key is [document, is], where
                  \* `is` says if it is the document's stem or its file name
    Portfolios,   \* document -> [extraction, text, fields]: "none", "unreadable" or
                  \* "fields"; fields: name -> [value, quote, under]
    Material,     \* the fields whose mismatch changes a margin call
    Metadata,     \* columns that identify a row
    Currency,     \* a unit as it is written -> the currency it names
    Glued,        \* the units written flush with their amount ("EUR250000")
    NoUnit

\* What is compared: the rows of an export are a sequence, amounts are legible, and what
\* is no number is one text that says one thing, unless it is empty.
Read_values == UNION {UNION {{p[d].fields[f].value : f \in DOMAIN p[d].fields} : d \in DOMAIN p} :
                         p \in Portfolios}
Held_values == UNION {UNION {Range(e[i].terms) : i \in DOMAIN e} : e \in Exports}
Wordy(v) == v.type \notin {"amount", "date"}
ASSUME ReconcileAssumption ==
    /\ \A e \in Exports : e \in Seq(Range(e))
    /\ Legible(Read_values \cup Held_values)
    /\ \A p \in Portfolios : \A d \in DOMAIN p : p[d].text \subseteq Clauses
    /\ Glued \subseteq Unparsed
    /\ \A v \in Read_values, w \in Held_values :
         /\ v \notin {Absent, Filler} /\ Wordy(v) /\ Wordy(w) /\ v.id = w.id
         => v.type = w.type

VARIABLES
    export,       \* the rows of the export that is read
    system,       \* key -> terms
    portfolio,
    normalised,   \* whether the fields went through normalise_extraction
    unread,       \* the documents still to be read
    reports,      \* document -> field -> result
    exceptions,   \* the rows of the exceptions file
    status        \* the exit code, Running before

reconcileVars == <<export, system, portfolio, normalised, unread, reports, exceptions, status>>

Running == 3

ReconcileInit ==
    /\ export = <<>> /\ system = <<>> /\ portfolio = <<>> /\ normalised = TRUE
    /\ unread = {} /\ reports = <<>> /\ exceptions = {} /\ status = Running

----------------------------------------------------------------------------
(* values_agree                                                             *)

\* The first run of digits with a point in it at most, once the commas are gone: it
\* ends at any other mark and at a second point ("1.234,50 per Transaction" is 1.2345).
FirstGroups(w, k) == [w EXCEPT !.digits = @ \div 10^Digits(w, k), !.lens = SubSeq(@, 1, k),
                        !.seps = SubSeq(@, 1, k - 1)]
first_number(w) ==
    LET ends == {i \in DOMAIN w.seps : \/ w.seps[i] \notin {",", "."}
                                       \/ w.seps[i] = "." /\ i # Min(At(w, "."))}
        run == IF ends = {} THEN w ELSE FirstGroups(w, Min(ends))
        points == At(run, ".")
    IN  <<run.digits, IF points = {} THEN 0 ELSE Digits(run, Max(points))>>

\* What parse_number or, failing that, the first number in the text gives.
NoNumber == <<>>
numeric(v) ==
    IF v.type = "amount" THEN IF parses(v.written) THEN AsRead(v.written) ELSE first_number(v.written)
    ELSE IF v.type = "date" THEN <<v.written.first, 0>>
    ELSE NoNumber

\* _currency_of: a code has to stand alone.
currency_of(v) == IF v.type # "amount" \/ v.written.unit \in Glued THEN NoUnit
                  ELSE Currency[v.written.unit]
OneUnit(x, y) == NoUnit \in {x, y} \/ x = y

\* _qualifier: an apostrophe is none of the marks it takes for formatting.
qualifier(v) ==
    <<v.written.words, IF v.type = "amount" THEN Cardinality(At(v.written, "'")) ELSE 0>>

\* The same words and the same number; failing numbers, the same text.
SameStatement(ours, theirs) ==
    LET a == numeric(ours)
        b == numeric(theirs)
    IN  IF a # NoNumber /\ b # NoNumber THEN qualifier(ours) = qualifier(theirs) /\ Equal(a, b)
        ELSE a = b /\ ours.id = theirs.id

\* Mutant: units are formatting.
values_agree_whatever_unit(ours, theirs) == SameStatement(ours, theirs)

values_agree(ours, theirs) ==
    OneUnit(currency_of(ours), currency_of(theirs)) /\ SameStatement(ours, theirs)

----------------------------------------------------------------------------
(* reconcile                                                                *)

\* The evidence check knows the one name, the report both.
Seen_quote(entry) == IF normalised \/ entry.under = "quote" THEN entry.quote ELSE NoQuote

unsupported(file) ==
    LET found == check_extraction([f \in DOMAIN file.fields |->
                          [value |-> file.fields[f].value,
                           quote |-> Seen_quote(file.fields[f])]], file.text)
    IN  {f \in DOMAIN file.fields : found[f] # "none"}

reconcile(file, terms) ==
    LET compared == (DOMAIN terms \ Metadata) \cap DOMAIN file.fields
        entry(f) == file.fields[f]
    IN  [f \in compared |->
            [state |-> IF f \in unsupported(file) THEN "unverified"
                       ELSE IF values_agree(entry(f).value, terms[f]) THEN "agrees"
                       ELSE "discrepancy",
             ours |-> entry(f).value, theirs |-> terms[f], clause |-> entry(f).quote]]

----------------------------------------------------------------------------
(* cmd_reconcile                                                            *)

\* A key that occurs twice is left out.
without_duplicates(table) ==
    LET at(k) == {i \in DOMAIN table : table[i].key = k}
    IN  [k \in {key \in {table[i].key : i \in DOMAIN table} : Cardinality(at(key)) = 1} |->
            table[CHOOSE i \in at(k) : TRUE].terms]

\* `_load_system`, then `_pair_up`: an export without terms and a portfolio without a
\* pair are exit code 2.
load_system(table, files, cli) ==
    /\ export = <<>> /\ status = Running
    /\ export' = table /\ portfolio' = files /\ normalised' = cli
    /\ system' = without_duplicates(table)
    /\ IF system' = <<>> \/ files = <<>>
       THEN status' = 2 /\ UNCHANGED unread
       ELSE unread' = DOMAIN files /\ UNCHANGED status
    /\ UNCHANGED <<reports, exceptions>>

\* By stem, then by file name; an empty row counts as none by the one, not by the other.
stored(d) ==
    LET stem == [document |-> d, is |-> "stem"]
        name == [document |-> d, is |-> "name"]
    IN  IF stem \in DOMAIN system /\ DOMAIN system[stem] # {} THEN {system[stem]}
        ELSE IF name \in DOMAIN system THEN {system[name]} ELSE {}

Next_unread(d) == d \in unread /\ \A e \in unread : d <= e

\* No extraction, no terms or a file that cannot be read: on to the next.
skip(d) ==
    /\ Next_unread(d)
    /\ portfolio[d].extraction # "fields" \/ stored(d) = {}
    /\ unread' = unread \ {d}
    /\ UNCHANGED <<export, system, portfolio, normalised, reports, exceptions, status>>

reconcile_document(d) ==
    /\ Next_unread(d) /\ portfolio[d].extraction = "fields"
    /\ \E terms \in stored(d) :
         reports' = [e \in DOMAIN reports \cup {d} |->
                       IF e = d THEN reconcile(portfolio[d], terms) ELSE reports[e]]
    /\ unread' = unread \ {d}
    /\ UNCHANGED <<export, system, portfolio, normalised, exceptions, status>>

In_state(d, s) == {f \in DOMAIN reports[d] : reports[d][f].state = s}

\* Only a material discrepancy makes the exit code 1.
finish ==
    /\ export # <<>> /\ unread = {} /\ status = Running
    /\ IF reports = <<>> THEN status' = 2 /\ UNCHANGED exceptions
       ELSE /\ exceptions' = UNION {{<<d, f>> : f \in In_state(d, "discrepancy")
                                                     \cup In_state(d, "unverified")} :
                                       d \in DOMAIN reports}
            /\ status' = IF \E d \in DOMAIN reports : In_state(d, "discrepancy") \cap Material # {}
                         THEN 1 ELSE 0
    /\ UNCHANGED <<export, system, portfolio, normalised, unread, reports>>

ReconcileNext ==
    \/ \E e \in Exports, p \in Portfolios, cli \in BOOLEAN : load_system(e, p, cli)
    \/ \E d \in unread : skip(d) \/ reconcile_document(d)
    \/ finish

----------------------------------------------------------------------------
\* A discrepancy is raised only when the extraction's own citation survives checking,
\* when the command runs. (Quoted from reconcile.py; it does not hold of an extraction
\* that cites nothing at all, which ReconciledRightly leaves out.)
DiscrepancyIsCited ==
    normalised => \A d \in DOMAIN reports : \A f \in In_state(d, "discrepancy") :
        cited(portfolio[d].text, reports[d][f].clause)

\* The same term: the same day or name, or the same amount, in one currency if both
\* name one, unqualified or qualified alike.
currency_meant(v) == Currency[v.written.unit]
SameTerm(v, w) ==
    /\ v.type = w.type
    /\ IF v.type = "amount"
       THEN /\ SameAmount(v, w) /\ v.written.words = w.written.words
            /\ OneUnit(currency_meant(v), currency_meant(w))
       ELSE v.id = w.id

\* What the code may read otherwise than it is meant: an amount that may be thousands or
\* decimals, or has apostrophes in it; one with words, or a unit parse_number does not
\* know, that is not written with commas between thousands and a point before decimals.
WithCommas(w) ==
    LET k == Len(w.seps)
    IN  /\ \A i \in 1..k : w.seps[i] = "," \/ (i = k /\ w.seps[i] = ".")
        /\ w.meant = IF k > 0 /\ w.seps[k] = "." THEN w.lens[k+1] ELSE 0
Unclear(v) ==
    /\ v.type = "amount"
    /\ \/ At(v.written, "'") # {}
       \/ IF AllNumeral(v.written) THEN Doubtful(v) ELSE ~WithCommas(v.written)
Flush(v) == v.type = "amount" /\ v.written.unit \in Glued

\* The report of a document the check can be made of (its fields went through
\* normalise_extraction, and one at least carries a citation) accuses the system only
\* on a clause that stands in the document and does not contradict the extraction, and
\* only if the terms do differ, are unclear, or are one day written in two ways; it
\* calls equal only what is, unless one is unclear, has its currency flush with it, or
\* is a date: its first number alone is compared, with the other's or with an amount.
\* No row of an ambiguous key is used. The exceptions are every field that does not
\* agree, and the exit code is 1 if one of them is material and differs, 0 only if none
\* is and something was read.
\* (reconcile.py: "A tool that hides a currency change has done the exact thing it
\* exists to detect", which a flush code escapes; cli.py: "a finding that depends on
\* row order".)
ReconciledRightly ==
    /\ \A d \in DOMAIN reports :
         LET file == portfolio[d]
             citing == normalised /\ Quoted(file.fields) # {}
             matching == {i \in DOMAIN export : export[i].key.document = d}
         IN  /\ \A i, j \in matching :
                  export[i].key = export[j].key /\ i # j =>
                    \A f \in DOMAIN reports[d] : \E k \in matching :
                        export[k].key # export[i].key /\ f \in DOMAIN export[k].terms
             /\ \A f \in DOMAIN reports[d] :
                  LET r == reports[d][f]
                      unclear == Unclear(r.ours) \/ Unclear(r.theirs)
                  IN  /\ r.state = "discrepancy" =>
                           /\ citing => /\ cited(file.text, r.clause)
                                        /\ ~Contradicts(r.clause.clause, r.ours)
                           /\ \/ ~SameTerm(r.ours, r.theirs) \/ unclear
                              \/ r.ours.type = "date" /\ r.ours.written # r.theirs.written
                      /\ r.state = "agrees" =>
                           \/ SameTerm(r.ours, r.theirs) \/ unclear
                           \/ Flush(r.ours) \/ Flush(r.theirs)
                           \/ "date" \in {r.ours.type, r.theirs.type}
    /\ LET open == UNION {{<<d, f>> : f \in DOMAIN reports[d]} : d \in DOMAIN reports}
           differing == {p \in open : reports[p[1]][p[2]].state = "discrepancy"}
       IN  status \in {0, 1} =>
             /\ exceptions = {p \in open : reports[p[1]][p[2]].state # "agrees"}
             /\ status = 1 <=> \E p \in differing : p[2] \in Material
             /\ DOMAIN reports # {}
====
