---- MODULE EffectPromise ----
(***************************************************************************)
(* What ADR 0003 and the contract at the head of graph/runner.py promise   *)
(* of one idempotency key, whoever executes the run and however often it   *)
(* dies: the key is claimed before its effect happens, the effect happens  *)
(* under a claim and once, a claim is given up only when it did not, and   *)
(* what is on the ledger as happened stays there.                          *)
(***************************************************************************)
EXTENDS Naturals

CONSTANT Keys

VARIABLES
    row,        \* "free", "claimed" or "recorded"
    landed      \* how often the effect happened

Init ==
    /\ row = [k \in Keys |-> "free"]
    /\ landed = [k \in Keys |-> 0]

Attempt(k) ==
    /\ row[k] = "free"
    /\ row' = [row EXCEPT ![k] = "claimed"]
    /\ UNCHANGED landed

Land(k) ==
    /\ row[k] = "claimed"
    /\ landed[k] = 0
    /\ landed' = [landed EXCEPT ![k] = 1]
    /\ UNCHANGED row

Complete(k) ==
    /\ row[k] = "claimed"
    /\ landed[k] = 1
    /\ row' = [row EXCEPT ![k] = "recorded"]
    /\ UNCHANGED landed

\* A known negative may be tried again; an unknown may not.
GiveUp(k) ==
    /\ row[k] = "claimed"
    /\ landed[k] = 0
    /\ row' = [row EXCEPT ![k] = "free"]
    /\ UNCHANGED landed

Next == \E k \in Keys : Attempt(k) \/ Land(k) \/ Complete(k) \/ GiveUp(k)

Spec == Init /\ [][Next]_<<row, landed>>
====
