---- MODULE MCGraphRunner ----
(***************************************************************************)
(* The graphs on which TLC runs GraphRunner.                               *)
(***************************************************************************)
EXTENDS GraphRunner, TLC

\* What json.dumps(default=str) does to a value it has to stringify.
MCJson(plain, object, text) ==
    [v \in plain \cup {object, text, Absent} |-> IF v = object THEN text ELSE v]

MCBoard == [s \in Slots |-> Absent]

----------------------------------------------------------------------------
(* One worker: reserve -> approve -> issue.  `reserve` can be undone and    *)
(* provides a fact, `approve` is a human gate, `issue` runs only when the   *)
(* decision was not "no", may itself stop to ask, and overwrites `out`.     *)

ChainJson       == MCJson({"no"}, "object", "text")
ChainDeps       == <<{}, {1}, {2}>>
ChainDecision   == [n \in {2} |-> "decision"]
ChainAttempts   == <<2, 1, 1>>
ChainOutcomes   == <<{"ok", "declined"}, {"declined"}, {"ok", "declined", "approval"}>>
ChainKeyOf(n, b)     == <<"reserve", NoKey, "issue">>[n]
ChainWhen(n, b)      == n = 3 => b["approve"] # "no"
ChainPublished(n, v) == <<{"out", "fact"}, {"approve"}, {"out"}>>[n]

----------------------------------------------------------------------------
(* Two workers on one run: charge -> mail, both of them keyed, on a graph   *)
(* whose actions always happen and report it.                               *)

PairDeps           == <<{}, {1}>>
PairAttempts       == <<1, 1>>
PairOutcomes       == <<{"ok"}, {"ok"}>>
PairKeyOf(n, b)    == <<"charge", "mail">>[n]
PairWhen(n, b)     == TRUE
PairPublished(n, v) == IF n = 1 THEN {"out"} ELSE {}
PairDecision       == [n \in {} |-> "out"]
PairJson           == [v \in Value \cup {Absent} |-> v]

\* Actions that report a failure, and actions that fail without knowing how.
DecliningOutcomes == <<{"ok", "declined"}, {"ok"}>>
SecondDeclines    == <<{"ok"}, {"ok", "declined"}>>
TimeoutOutcomes   == <<{"ok", "timeout"}, {"ok"}>>
FailingOutcomes   == <<{"ok", "declined"}, {"ok", "declined", "timeout"}>>
====
