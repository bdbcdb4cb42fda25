---- MODULE Record ----
(***************************************************************************)
(* The record of a document (record/types.py): an extraction is lifted     *)
(* into it, transitions give it a status, reviewers are asked, and it is   *)
(* lowered again to the dictionary the gates read. A transition returns a  *)
(* new record and asks nothing of the status before.                       *)
(***************************************************************************)
EXTENDS Sequences, FiniteSets, Functions, FiniteSetsExt

CONSTANTS
    Artifacts,    \* [fields, text, extras]: fields name -> [value, quote], `Bare` if the
                  \* entry is a value and nothing else
    Reviews,      \* what a human may be asked
    Bare, NoText, NoGates

VARIABLES
    lifted,       \* the artifact in the form the gates read
    record,       \* [fields, text, extras, status, review, gate_report], or NoRecord
    asked,        \* the review items of this record and of those it came from
    gated         \* the last gate report it was given

recordVars == <<lifted, record, asked, gated>>

NoRecord == [none |-> TRUE]

RecordInit == lifted = NoRecord /\ record = NoRecord /\ asked = {} /\ gated = NoGates

----------------------------------------------------------------------------
\* Only the quote of an entry is lifted as evidence; where it stood, whether it was
\* verified and where the value came from is not.
evidence_of(entry) == IF entry.quote \in {Bare, NoText} THEN <<>> ELSE <<entry.quote>>

from_artifact(a) ==
    /\ record = NoRecord
    /\ lifted' = a
    /\ record' = [fields |-> [n \in DOMAIN a.fields |->
                                [value |-> a.fields[n].value,
                                 evidence |-> evidence_of(a.fields[n])]],
                  text |-> a.text, extras |-> a.extras,
                  status |-> "proposed", review |-> {}, gate_report |-> NoGates]
    /\ asked' = {} /\ gated' = NoGates

\* `gate_report or self.gate_report`
Or(new, old) == IF new = NoGates THEN old ELSE new

\* Mutant: the items replace those that were there.
becomes_with(status, items, gate_report) ==
    /\ record # NoRecord
    /\ record' = [record EXCEPT !.status = status, !.review = items,
                                !.gate_report = Or(gate_report, @)]
    /\ asked' = asked \cup items /\ gated' = Or(gate_report, gated)
    /\ UNCHANGED lifted

becomes(status, items, gate_report) ==
    /\ record # NoRecord
    /\ record' = [record EXCEPT !.status = status, !.review = @ \cup items,
                                !.gate_report = Or(gate_report, @)]
    /\ asked' = asked \cup items /\ gated' = Or(gate_report, gated)
    /\ UNCHANGED lifted

certified(report) == becomes("certified", {}, report)
admitted == becomes("admitted", {}, NoGates)
referred(items, report) == becomes("referred", items, report)
abstained(items) == becomes("abstained", items, NoGates)
needing_review(items) == record # NoRecord /\ becomes(record.status, items, NoGates)

\* to_artifact, for the gates or for an application that lifts it again later: neither
\* review nor gate report is part of it, and the status is not read back.
to_artifact ==
    /\ record # NoRecord
    /\ lifted' = [fields |-> [n \in DOMAIN record.fields |->
                                [value |-> record.fields[n].value,
                                 quote |-> IF record.fields[n].evidence = <<>> THEN NoText
                                           ELSE record.fields[n].evidence[1]]],
                  text |-> record.text, extras |-> record.extras]
    /\ record' = NoRecord
    /\ UNCHANGED <<asked, gated>>

lift_again == lifted # NoRecord /\ from_artifact(lifted)

RecordNext ==
    \/ lifted = NoRecord /\ \E a \in Artifacts : from_artifact(a)
    \/ lift_again
    \/ \E report \in {NoGates, "passed", "failed"} :
         certified(report) \/ \E items \in SUBSET Reviews : referred(items, report)
    \/ admitted
    \/ \E items \in SUBSET Reviews : abstained(items) \/ needing_review(items)
    \/ to_artifact

----------------------------------------------------------------------------
\* What the gates read of an artifact.
View(a) == [fields |-> [n \in DOMAIN a.fields |->
                          [value |-> a.fields[n].value,
                           quote |-> IF a.fields[n].quote = Bare THEN NoText
                                     ELSE a.fields[n].quote]],
            text |-> a.text, extras |-> a.extras]

\* Whatever transitions and conversions a record goes through, the gates read of it
\* what was first extracted; and as long as it is not lowered, it knows every
\* question a human was asked about it and the last gate report it was given.
\* (types.py: "The dict shape the gate library reads"; "the chain from source to
\* decision can be replayed rather than reconstructed".)
RecordTells ==
    /\ lifted # NoRecord => \E a \in Artifacts : View(lifted) = View(a)
    /\ record # NoRecord =>
         /\ \A n \in DOMAIN record.fields :
              /\ record.fields[n].value = lifted.fields[n].value
              /\ record.fields[n].evidence = evidence_of(lifted.fields[n])
         /\ record.text = lifted.text
         /\ record.review = asked /\ record.gate_report = gated
====
