---- MODULE EvidenceCheck ----
(***************************************************************************)
(* The `evidence-check` command (evidencecheck/cli.py): an HTML page is    *)
(* flattened to text with a locator for each run of it (sources.py), each  *)
(* field of the extraction is checked against the text (checks.py), and    *)
(* the exit code says what came of it.                                     *)
(*                                                                         *)
(* A page is a sequence of markup [is, name]: an opening or closing tag,   *)
(* or a run of characters that is a clause or blank.                       *)
(***************************************************************************)
EXTENDS Evidence

CONSTANTS
    Pages,        \* sequences of markup; NoPage stands for a file that is not there
    NoPage,
    Extractions,  \* functions from field names to [value, quote]
    NoExtraction  \* a file that is missing, or holds no JSON object

VARIABLES
    page,         \* the markup of the document
    fed,          \* how much of it the parser has been fed
    flat,         \* the _Flattener: [skip, table, row, col, in_cell]
    parts,        \* the text, run by run, each with its locator
    checked       \* [fields, findings, fail_on, exit]

checkVars == <<page, fed, flat, parts, checked>>

Unchecked == [fields |-> <<>>, findings |-> <<>>, fail_on |-> "none", exit |-> 3]

CheckInit ==
    /\ page = <<>> /\ fed = 0 /\ parts = <<>> /\ checked = Unchecked
    /\ flat = [skip |-> 0, table |-> 0, row |-> 0, col |-> 0, in_cell |-> FALSE]

----------------------------------------------------------------------------
(* sources.py                                                               *)

\* Mutant: `meta`, which is never closed, is skipped as well.
SkipTags_with_void == {"script", "noscript", "meta"}

SkipTags == {"script", "noscript"}
ResetTags == {"body"}
BlockTags == {"p", "br", "tr", "table"}

Break(tag) == IF tag \in BlockTags THEN <<[clause |-> "break", at |-> <<>>]>> ELSE <<>>

\* load_source is `load`: a missing file is exit code 2. Anything else is decoded somehow.
load_source(document) ==
    /\ page = <<>>
    /\ page' = document
    /\ checked' = IF document = NoPage THEN [Unchecked EXCEPT !.exit = 2] ELSE checked
    /\ UNCHANGED <<fed, flat, parts>>

Fed(is) ==
    /\ page # NoPage /\ fed < Len(page) /\ page[fed + 1].is = is
    /\ fed' = fed + 1
    /\ UNCHANGED <<page, checked>>
Tag == page[fed + 1].name

\* The counters of a table go on inside a skipped element.
handle_starttag ==
    /\ Fed("open")
    /\ LET f == IF Tag \in ResetTags THEN [flat EXCEPT !.skip = 0] ELSE flat
       IN  IF Tag \in SkipTags
           THEN flat' = [f EXCEPT !.skip = @ + 1] /\ UNCHANGED parts
           ELSE /\ flat' = IF Tag = "table" THEN [f EXCEPT !.table = @ + 1, !.row = 0]
                           ELSE IF Tag = "tr" THEN [f EXCEPT !.row = @ + 1, !.col = 0]
                           ELSE IF Tag = "td" THEN [f EXCEPT !.col = @ + 1, !.in_cell = TRUE]
                           ELSE f
                /\ parts' = parts \o Break(Tag)

handle_endtag ==
    /\ Fed("close")
    /\ LET f == IF Tag \in ResetTags THEN [flat EXCEPT !.skip = 0] ELSE flat
       IN  IF Tag \in SkipTags
           THEN /\ flat' = [f EXCEPT !.skip = IF @ = 0 THEN 0 ELSE @ - 1]
                /\ UNCHANGED parts
           ELSE /\ flat' = IF Tag = "td" THEN [f EXCEPT !.in_cell = FALSE] ELSE f
                /\ parts' = parts \o Break(Tag)

\* Blank data is kept, even inside a skipped element, but not as the first part.
handle_data ==
    /\ Fed("data")
    /\ parts' = IF Tag = "blank"
                THEN IF parts = <<>> THEN parts
                     ELSE Append(parts, [clause |-> "break", at |-> <<>>])
                ELSE IF flat.skip > 0 THEN parts
                ELSE Append(parts, [clause |-> Tag,
                                    at |-> IF flat.in_cell THEN <<flat.table, flat.row, flat.col>>
                                           ELSE <<>>])
    /\ UNCHANGED flat

Text == {parts[i].clause : i \in DOMAIN parts} \ {"break"}

\* Source.locate: where the quote stands first.
locate(clause) ==
    parts[Min({i \in DOMAIN parts : parts[i].clause = clause})].at

----------------------------------------------------------------------------
(* cli.py                                                                   *)

Critical == {"FABRICATED_EVIDENCE", "SILENT_REPAIR", "PLACEHOLDER_VALUE"}

cmd_check(fields, fail_on) ==
    /\ page \notin {<<>>, NoPage} /\ fed = Len(page) /\ checked.exit = 3
    /\ checked' =
         IF fields = NoExtraction THEN [Unchecked EXCEPT !.exit = 2]
         ELSE LET findings == check_extraction(fields, Text)
                  counted == IF fail_on = "any" THEN Range(findings) \ {"none"}
                             ELSE IF fail_on = "critical" THEN Range(findings) \cap Critical
                             ELSE {}
              IN  [fields |-> fields, findings |-> findings, fail_on |-> fail_on,
                   exit |-> IF counted = {} THEN 0 ELSE 1]
    /\ UNCHANGED <<page, fed, flat, parts>>

CheckNext ==
    \/ \E p \in Pages \cup {NoPage} : load_source(p)
    \/ handle_starttag \/ handle_endtag \/ handle_data
    \/ \E e \in Extractions \cup {NoExtraction}, f \in {"critical", "any", "never"} :
         cmd_check(e, f)

----------------------------------------------------------------------------
(* What a reader of the page sees, and where.                               *)

Hidden == {"script", "noscript"}
LastReset(p, n) == Max({0} \cup {i \in 1..n : p[i].is # "data" /\ p[i].name \in ResetTags})
Marks(p, is, tag, n) == {i \in 1..n : p[i] = [is |-> is, name |-> tag]}
Within_tag(p, tag, from, n) ==
    Cardinality({i \in Marks(p, "open", tag, n) : i > from})
      - Cardinality({i \in Marks(p, "close", tag, n) : i > from})

Visible == {i \in DOMAIN page : /\ page[i].is = "data" /\ page[i].name # "blank"
                                /\ \A t \in Hidden : Within_tag(page, t, LastReset(page, i), i) = 0}
Seen == {page[i].name : i \in Visible}

Opened(tag, n) == Cardinality(Marks(page, "open", tag, n))
LastOpened(tag, n) == Max({0} \cup Marks(page, "open", tag, n))
CellOf(i) ==
    IF Within_tag(page, "td", 0, i) = 0 THEN <<>>
    ELSE LET table == LastOpened("table", i)
             row == LastOpened("tr", i)
         IN  <<Opened("table", i), Opened("tr", i) - Opened("tr", table),
               Opened("td", i) - Opened("td", row)>>

\* A page of markup: no tag of what is hidden closes that is not open, and no cell
\* opens in a cell. A hidden element may be left open; `body` ends it. (A table inside a
\* cell is left out: the code counts its rows on where the outer table goes on. So are
\* clauses that run over the edge of a cell: the texts of two cells of one row are
\* joined without a break.)
WellFormed(p) ==
    /\ p \in Seq([is : {"open", "close", "data"}, name : STRING])
    /\ \A n \in DOMAIN p :
         /\ p[n].is = "data" => p[n].name # "break"
         /\ \A t \in Hidden : Within_tag(p, t, LastReset(p, n), n) >= 0
         /\ Within_tag(p, "td", 0, n) \in {0, 1}

\* What is extracted is a legible value; a date can be read as some day.
Extracted_values == UNION {{e[f].value : f \in DOMAIN e} : e \in Extractions}
ASSUME CheckAssumption ==
    /\ NoPage \notin Pages /\ NoExtraction \notin Extractions
    /\ \A p \in Pages : WellFormed(p)
    /\ \A e \in Extractions : \A f \in DOMAIN e :
         e[f].quote \in {NoQuote} \cup [clause : Clauses, dressing : Dressings]
    /\ \A c \in Clauses : Legible(Extracted_values \cup States[c])
    /\ \A t \in Extracted_values : t.type = "date" => t.id # {}

\* Nothing a reader sees is lost between the page and the text, nothing hidden gets
\* in, and a citation is located in the cell it stands in.
\* (sources.py: "Silent truncation is the worst failure a loader can have"; of a
\* `body`, that it ends the region "rather than swallowing the document";
\* "a quote that checks out *and* says \"table 2, row 4, column 3, page 14\"".)
TextIsThePage ==
    page # NoPage /\ fed = Len(page) =>
        /\ Text = Seen
        /\ \A c \in Seen : \E i \in Visible : page[i].name = c /\ locate(c) = CellOf(i)

\* The command reports no field whose citation a reader can find on the page and
\* which it states, or which it leaves open: a clause without a value of that kind,
\* and for an amount without a date. It reports every field whose citation is not to
\* be found there, and every one its citation contradicts; a run with --fail-on any
\* succeeds only if there is none of these. Contradicts says what the code cannot
\* tell and the property leaves out, above all that a value whose characters occur in
\* the citation is never reported (500 cited from "USD 500,000"); a stub with an
\* ellipsis is left out too.
\* (checks.py: "a correct extraction may derive a value the cited text does not
\* state"; normalize.py: "a tool that cries wolf on correct work gets switched
\* off within a week".)
ReportIsRight ==
    \A f \in DOMAIN checked.findings :
        LET v == checked.fields[f].value
            q == checked.fields[f].quote
            given == v \notin {Absent, Filler} /\ f \in Quoted(checked.fields)
            found == given /\ q.clause \in Seen /\ q.dressing \notin {"reworded", "stub"}
            finding == checked.findings[f]
        IN  /\ found =>
                 /\ Silent(v, q.clause) => finding = "none"
                 /\ Stated(v, q.clause) /\ ~InDoubt(v, q.clause) => finding = "none"
                 /\ Contradicts(q.clause, v) => finding = "SILENT_REPAIR"
            /\ given /\ (q.clause \notin Seen \/ q.dressing = "reworded")
                 => finding = "FABRICATED_EVIDENCE"
            /\ checked.fail_on = "any" /\ checked.exit = 0 => finding = "none"

\* Both: from the page to the exit code.
EvidenceIsJudgedRightly == TextIsThePage /\ ReportIsRight
====
