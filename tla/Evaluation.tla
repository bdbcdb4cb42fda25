---- MODULE Evaluation ----
(***************************************************************************)
(* Evaluating an intake system against labelled documents                  *)
(* (pyligent_agents/evals, evals/run_evals.py): run every case, score what *)
(* came out, keep the scores as a baseline or compare them with it.        *)
(* Between two evaluations the dataset may grow. What the system does with *)
(* a case is anything it can do. A rate is counted in ten-thousandths, the *)
(* four decimals a report keeps.                                           *)
(***************************************************************************)
EXTENDS Integers, Sequences, FiniteSets, FiniteSetsExt, SequencesExt

CONSTANTS
    Cases,        \* sequence of [decision, gates]: a flawed document is labelled "refer"
                  \* with the gates it should fail
    CaseOutcomes, \* [raises, decision, gates, fields, evidence]: how many fields are
                  \* correct, wrong or missing, how many citations are valid of how many
    MaxEvals

\* No more citations are valid than there are (_score_evidence counts both in one loop).
ASSUME EvaluationAssumption ==
    /\ Cases \in Seq(Range(Cases)) /\ MaxEvals \in Nat
    /\ \A x \in CaseOutcomes :
          /\ x.raises \in BOOLEAN
          /\ x.fields.correct \in Nat /\ x.fields.wrong \in Nat /\ x.fields.missing \in Nat
          /\ x.evidence.total \in Nat /\ x.evidence.valid \in 0..x.evidence.total

VARIABLES
    dataset,      \* the cases that were added
    outcomes,     \* of the evaluation that is under way, case by case
    report,       \* its scores, or NoReport
    baseline,     \* the scores that were saved
    judged,       \* what became of the report: [as, exit, regressions]
    evals         \* how many were concluded

evalVars == <<dataset, outcomes, report, baseline, judged, evals>>

NoReport == [none |-> TRUE]
Unjudged == [as |-> "none", exit |-> 3, regressions |-> {}]

EvalInit ==
    /\ dataset = <<>> /\ outcomes = <<>> /\ report = NoReport /\ baseline = NoReport
    /\ judged = Unjudged /\ evals = 0

----------------------------------------------------------------------------
\* Dataset.add.
add_case ==
    /\ outcomes = <<>> /\ Len(dataset) < Len(Cases)
    /\ dataset' = Append(dataset, Cases[Len(dataset) + 1])
    /\ UNCHANGED <<outcomes, report, baseline, judged, evals>>

\* Dataset.validate: both classes must be there, or run_eval raises.
valid == {dataset[i].decision : i \in DOMAIN dataset} = {"accept", "refer"}

\* run_eval: a case that raises is an errored outcome, and the rest still run.
errored_outcome == [raises |-> TRUE, decision |-> "refer", gates |-> {},
                    fields |-> [correct |-> 0, wrong |-> 0, missing |-> 0],
                    evidence |-> [valid |-> 0, total |-> 0]]

run_one(x) ==
    /\ valid /\ evals < MaxEvals
    /\ report = NoReport /\ Len(outcomes) < Len(dataset)
    /\ outcomes' = Append(outcomes, IF x.raises THEN errored_outcome ELSE x)
    /\ UNCHANGED <<dataset, report, baseline, judged, evals>>

----------------------------------------------------------------------------
(* metrics.py                                                               *)

Zero == [true_accept |-> 0, true_refer |-> 0, false_accept |-> 0, false_refer |-> 0,
         right_reason |-> 0, wrong_reason |-> 0, errored |-> 0, correct |-> 0, wrong |-> 0,
         missing |-> 0, valid |-> 0, total |-> 0]

Plus(r, f) == [r EXCEPT ![f] = @ + 1]

\* _score_decision
score_decision(case, out, r) ==
    IF case.decision = "accept"
    THEN Plus(r, IF out.decision = "accept" THEN "true_accept" ELSE "false_refer")
    ELSE IF out.decision = "accept" THEN Plus(r, "false_accept")
    ELSE Plus(Plus(r, "true_refer"),
              IF case.gates \cap out.gates # {} THEN "right_reason" ELSE "wrong_reason")

\* An errored case counts as referred, of a flawed document for the wrong reason (the
\* comment there says "on the unsafe side"; the code adds to true_refer); of its fields
\* and citations nothing is counted.
score_case(case, out, r) ==
    IF out.raises
    THEN LET e == Plus(r, "errored")
         IN  IF case.decision = "refer" THEN Plus(Plus(e, "true_refer"), "wrong_reason")
             ELSE Plus(e, "false_refer")
    ELSE LET d == score_decision(case, out, r)
         IN  [d EXCEPT !.correct = @ + out.fields.correct, !.wrong = @ + out.fields.wrong,
                       !.missing = @ + out.fields.missing, !.valid = @ + out.evidence.valid,
                       !.total = @ + out.evidence.total]

score ==
    /\ valid /\ report = NoReport /\ Len(outcomes) = Len(dataset)
    /\ report' = FoldSet(LAMBDA i, r : score_case(dataset[i], outcomes[i], r), Zero,
                         DOMAIN outcomes)
    /\ UNCHANGED <<dataset, outcomes, baseline, judged, evals>>

\* round(part / whole, 4). Floating point decides which way exactly half a digit goes,
\* the same way every time.
rounded(part, whole) ==
    LET low == (10000 * part) \div whole
        rest == 2 * ((10000 * part) % whole)
    IN  IF rest < whole THEN low
        ELSE IF rest > whole THEN low + 1
        ELSE CHOOSE r \in {low, low + 1} : TRUE

\* A share of nothing is what it is said to be.
Share(part, whole, of_nothing) == IF whole = 0 THEN of_nothing ELSE rounded(part, whole)

metric(r, name) ==
    IF name = "field_accuracy" THEN Share(r.correct, r.correct + r.wrong + r.missing, 0)
    ELSE IF name = "evidence_validity" THEN Share(r.valid, r.total, 10000)
    ELSE IF name = "attribution_accuracy"
         THEN Share(r.right_reason, r.right_reason + r.wrong_reason, 10000)
    ELSE IF name = "false_accept_rate"
         THEN Share(r.false_accept, r.false_accept + r.true_refer, 0)
    ELSE Share(r.false_refer, r.false_refer + r.true_accept, 0)

----------------------------------------------------------------------------
(* runner.compare                                                           *)

HigherIsBetter == {"field_accuracy", "evidence_validity", "attribution_accuracy"}
LowerIsBetter == {"false_accept_rate", "false_refer_rate"}
Metrics == HigherIsBetter \cup LowerIsBetter
tolerance == [field_accuracy |-> 200, evidence_validity |-> 0, attribution_accuracy |-> 500,
              false_accept_rate |-> 0, false_refer_rate |-> 500]

\* How much worse a metric has become.
Worse(base, now, m) ==
    IF m \in HigherIsBetter THEN metric(base, m) - metric(now, m)
    ELSE metric(now, m) - metric(base, m)

\* The difference of two floats that are a tolerance apart may exceed it (0.97 - 0.95 >
\* 0.02) or not; a difference of nothing is exact.
AtTolerance(base, now) ==
    {m \in Metrics : tolerance[m] > 0 /\ Worse(base, now, m) = tolerance[m]}

\* Mutant: the rates say it all.
compare_rates(base, now) ==
    {{m \in Metrics : Worse(base, now, m) > tolerance[m]} \cup s :
        s \in SUBSET AtTolerance(base, now)}

\* The lists of regressions that compare may return.
compare(base, now) ==
    {{m \in Metrics : Worse(base, now, m) > tolerance[m]}
       \cup {m \in {"false_accepts"} : now.false_accept > base.false_accept} \cup s :
        s \in SUBSET AtTolerance(base, now)}

----------------------------------------------------------------------------
(* run_evals.py                                                             *)

save_baseline ==
    /\ report # NoReport /\ judged = Unjudged
    /\ baseline' = report
    /\ judged' = [as |-> "baseline", exit |-> 0, regressions |-> {}]
    /\ UNCHANGED <<dataset, outcomes, report, evals>>

\* Without --check, regressions are shown and the exit code is 0.
judge(as) ==
    /\ report # NoReport /\ judged = Unjudged
    /\ \E found \in IF baseline = NoReport THEN {{}} ELSE compare(baseline, report) :
          judged' = [as |-> as, regressions |-> found,
                     exit |-> IF as = "report" THEN 0
                              ELSE IF baseline = NoReport THEN 2
                              ELSE IF found # {} THEN 1 ELSE 0]
    /\ UNCHANGED <<dataset, outcomes, report, baseline, evals>>

\* The process ends; the baseline is a file.
done ==
    /\ judged # Unjudged
    /\ outcomes' = <<>> /\ report' = NoReport /\ judged' = Unjudged /\ evals' = evals + 1
    /\ UNCHANGED <<dataset, baseline>>

EvalNext ==
    \/ add_case
    \/ \E x \in CaseOutcomes : run_one(x)
    \/ score
    \/ save_baseline
    \/ \E as \in {"check", "report"} : judge(as)
    \/ done

----------------------------------------------------------------------------
\* What became of the cases of a label.
Fate(out) == IF out.raises THEN "crash" ELSE IF out.decision = "accept" THEN "accept" ELSE "refer"
Ended(label, how) == {i \in DOMAIN outcomes : dataset[i].decision = label /\ Fate(outcomes[i]) = how}

\* The report is the run's, and a check that compares it with another tells what it
\* can. A flawed document that was let through is a false accept, and nothing else is; a
\* crash is never an accept, and each is counted as errored. But of a flawed document
\* a crash counts as a true referral: it lowers the rate of false accepts as one
\* would, so that by this rate a system that crashes does look safe, and only the share
\* of right reasons says otherwise (metrics.py:231: "Count it on the unsafe side if the
\* case was flawed, so a crashing system cannot look safe"). A check passes only if no
\* more flawed documents were let through than in the baseline, however the dataset has
\* grown since, and if the rate of valid citations is not lower by more than a
\* ten-thousandth, which its rounding hides; it never fails on the very outcomes of
\* the baseline. (runner.py: "A single new false accept is a regression, full stop".)
ReportIsTheRun ==
    report # NoReport =>
        LET n(label, how) == Cardinality(Ended(label, how))
        IN  /\ report.false_accept = n("refer", "accept")
            /\ report.true_accept = n("accept", "accept")
            /\ report.true_refer = n("refer", "refer") + n("refer", "crash")
            /\ report.false_refer = n("accept", "refer") + n("accept", "crash")
            /\ report.errored = n("refer", "crash") + n("accept", "crash")
            /\ report.right_reason + report.wrong_reason = report.true_refer
            /\ report.wrong_reason >= n("refer", "crash")
            /\ judged.as = "check" =>
                 /\ judged.exit = 0 =>
                      /\ baseline # NoReport
                      /\ report.false_accept <= baseline.false_accept
                      /\ report.total # 0 /\ baseline.total # 0 =>
                           10000 * (baseline.valid * report.total - report.valid * baseline.total)
                             <= report.total * baseline.total
                 /\ judged.exit = 1 => report # baseline
====
