---- MODULE Application ----
(***************************************************************************)
(* The library at work (Session) and the applications that ship with it,   *)
(* which carry a document from its page to a decision: evidence-check      *)
(* judges an extraction, intake accepts or refers a document, the          *)
(* collateral example derives constraints, reconcile compares agreements   *)
(* with a system of record, an evaluation scores an intake system, a       *)
(* record keeps what became of a document. A behaviour is one of these     *)
(* activities; the programs are separate processes.                        *)
(***************************************************************************)
EXTENDS Session, EvidenceCheck, Intake, Constraints, Reconciliation, Evaluation, Record

AssuranceActivities == {"checking", "intake", "constraining", "reconciling", "evaluating",
                        "recording"}
Activities == SessionActivities \cup AssuranceActivities

assuranceVars == <<checkVars, intakeVars, constraintVars, reconcileVars, evalVars, recordVars>>

vars == <<activity, sessionVars, assuranceVars>>

AssuranceInit ==
    /\ CheckInit /\ IntakeInit /\ ConstraintInit
    /\ ReconcileInit /\ EvalInit /\ RecordInit

AssuranceNext ==
    \/ /\ activity = "checking" /\ CheckNext
       /\ UNCHANGED <<intakeVars, constraintVars, reconcileVars, evalVars, recordVars>>
    \/ /\ activity = "intake" /\ IntakeNext
       /\ UNCHANGED <<checkVars, constraintVars, reconcileVars, evalVars, recordVars>>
    \/ /\ activity = "constraining" /\ ConstraintNext
       /\ UNCHANGED <<checkVars, intakeVars, reconcileVars, evalVars, recordVars>>
    \/ /\ activity = "reconciling" /\ ReconcileNext
       /\ UNCHANGED <<checkVars, intakeVars, constraintVars, evalVars, recordVars>>
    \/ /\ activity = "evaluating" /\ EvalNext
       /\ UNCHANGED <<checkVars, intakeVars, constraintVars, reconcileVars, recordVars>>
    \/ /\ activity = "recording" /\ RecordNext
       /\ UNCHANGED <<checkVars, intakeVars, constraintVars, reconcileVars, evalVars>>

Init ==
    /\ activity \in Activities
    /\ SessionInit /\ AssuranceInit

Next ==
    \/ SessionNext /\ UNCHANGED <<activity, assuranceVars>>
    \/ AssuranceNext /\ UNCHANGED <<activity, sessionVars>>

\* A thread of the pool that can go on does; nothing else is owed a step.
Fairness ==
    WF_vars(/\ activity = "mapping" /\ FanoutStep
            /\ UNCHANGED <<activity, startupVars, configVars, buildVars, toolVars, memoryVars>>
            /\ UNCHANGED assuranceVars)

Spec == Init /\ [][Next]_vars /\ Fairness

----------------------------------------------------------------------------
\* The types of the variables that another component's step or a later one
\* reads: notes, orders and reports name what exists, counters stay within bounds.
ApplicationTypeOK ==
    /\ client \in {"none", "scripted", "anthropic"}
    /\ DOMAIN nodes = ToSet(order) /\ IsInjective(order)
    /\ Len(answers) <= Cardinality(Items) /\ usage \in Nat /\ parallel \in Widths \cup {0}
    /\ registry \subseteq Tools /\ surfaced \subseteq Tools
    /\ \A s \in DOMAIN notes : notes[s] = Corrupt \/ Slug[notes[s].title] = s
    /\ DOMAIN loaded \subseteq Refs /\ \A r \in DOMAIN loaded : loaded[r] <= version[r]
    /\ page = NoPage \/ fed <= Len(page)
    /\ unread \cup DOMAIN reports \subseteq DOMAIN portfolio
    /\ Len(outcomes) <= Len(dataset) /\ evals <= MaxEvals
====
