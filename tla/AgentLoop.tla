---- MODULE AgentLoop ----
(***************************************************************************)
(* The agent loop (loop/agent.py) with its recovery policy                 *)
(* (loop/recovery.py), its contract (loop/contract.py, stop.py) and the    *)
(* governor it shares with the other agents of a run                       *)
(* (harness/governor.py): agents of one harness, each in its own thread    *)
(* and each asked to run a few tasks, one after the other.                 *)
(*                                                                         *)
(* An agent's steps are the moments at which it can be overtaken by        *)
(* another or surprised by the world: its calls of the model and of tools. *)
(***************************************************************************)
EXTENDS Transcript, FiniteSets

CONSTANTS
    Agents,
    Tools,
    History,        \* the messages `run` is given besides the task
    MaxTurns,       \* contract.budget.max_turns
    MaxUsd,         \* contract.budget.max_usd
    OnFailure,      \* contract.on_failure
    Stop,           \* contract.stop
    SelfCheck,      \* self_check
    MaxRetries,     \* recovery.max_retries_per_tool
    MaxConsecutive, \* recovery.max_consecutive_failures
    RunCap,         \* settings.run_budget_usd
    TopCap,         \* no budget is larger
    MaxCost,        \* the price of the dearest call
    Requests,       \* the tools a reply may ask for
    Cutoffs,        \* the tools a reply may name and be cut off (max_tokens)
    ErrorClasses,   \* how tools fail here
    MaxRuns         \* bound: tasks per agent

ErrorClass == {"transient", "invalid", "domain", "permission", "fatal"}

\* What can be true of an artifact: the verifier would approve it, every gate
\* holds of it, it has the key a Produced condition asks for.
Quality == {"approved", "gates", "produced"}

\* ModelSaysDone, GatesPass, Produced & GatesPass, Produced | GatesPass
StopCondition == {"says_done", "gates_pass", "all_of", "any_of"}

ASSUME AgentAssumption ==
    /\ IsFiniteSet(Agents) /\ IsFiniteSet(Tools)
    /\ History \in Seq(Message)
    /\ \A i \in DOMAIN History : History[i].kind # "task"
    /\ MaxTurns \in [Agents -> Nat \ {0}]        \* Budget.__post_init__
    /\ MaxUsd \in [Agents -> Nat \ {0}]          \* Budget.__post_init__
    /\ OnFailure \in [Agents -> {"escalate", "degrade", "retry_once"}]
    /\ Stop \in [Agents -> StopCondition]
    /\ SelfCheck \in [Agents -> BOOLEAN]
    /\ MaxRetries \in Nat /\ MaxConsecutive \in Nat
    /\ RunCap \in Nat \ {0} /\ TopCap \in Nat /\ RunCap <= TopCap
    /\ \A a \in Agents : MaxUsd[a] <= TopCap
    /\ MaxCost \in Nat \ {0}
    /\ Requests \subseteq Seq(Tools) \ {<<>>}
    /\ Cutoffs \subseteq Seq(Tools)
    /\ ErrorClasses \subseteq ErrorClass
    /\ MaxRuns \in Nat

VARIABLES
    agent,      \* what each agent holds: LoopState, ContextManager, RecoveryPolicy
    spent,      \* governor.spent_usd
    cap         \* governor.max_usd

vars == <<agent, spent, cap>>

Artifact == [turn : Nat, holds : SUBSET Quality]
NoArtifact == [turn |-> 0, holds |-> {}]

\* How a run ended.  "raised" is an exception out of `run`.
Result == [how : {"returned", "degraded", "raised"}, ok : BOOLEAN,
           why : {"stop", "refusal", "recovery_escalated", "budget",
                  "stop_condition_not_met", "client"},
           artifact : Artifact, report : Nat]
NoResult == [how |-> "raised", ok |-> FALSE, why |-> "client",
             artifact |-> NoArtifact, report |-> 0]

Use == [id : Ids, tool : Tools]

PC == {"new", "idle", "turn", "compacted", "calling", "dispatch", "retry",
       "probe", "probing", "verify"}

AgentState ==
    [pc : PC, runs : Nat, turn : Nat, messages : Seq(Message),
     todo : Seq(Use),           \* tool uses of this turn not yet dispatched
     blocks : Seq(Ids),         \* tool uses of this turn that have a result
     escalate : BOOLEAN,
     artifact : Artifact,
     report : Nat,              \* the turn whose artifact gate_report judges
     retries : [Tools -> Nat], consecutive : Nat,
     streak : Nat,              \* failed tool calls in a row, in this run
     result : Result]

Idle == [pc |-> "new", runs |-> 0, turn |-> 0, messages |-> <<>>, todo |-> <<>>,
         blocks |-> <<>>, escalate |-> FALSE, artifact |-> NoArtifact, report |-> 0,
         retries |-> [t \in Tools |-> 0], consecutive |-> 0, streak |-> 0,
         result |-> NoResult]

Init ==
    /\ agent = [a \in Agents |-> Idle]
    /\ spent = 0
    /\ cap = RunCap

----------------------------------------------------------------------------
(* How a run goes on, and how it ends: on the state s of agent a.           *)

Ended(s, result) == [s EXCEPT !.pc = "idle", !.result = result]

\* _fail: degrade, else re-raise the exception there is, else return.
fail(s, a, why, exc) ==
    Ended(s, IF OnFailure[a] = "degrade"
             THEN [how |-> "degraded", ok |-> FALSE, why |-> why,
                   artifact |-> NoArtifact, report |-> s.report]
             ELSE [how |-> IF exc THEN "raised" ELSE "returned", ok |-> FALSE,
                   why |-> why, artifact |-> s.artifact, report |-> s.report])

\* The end of the body of `for turn in range(1, max_turns + 1)`.
Continue(s, a) ==
    IF s.turn < MaxTurns[a]
    THEN [s EXCEPT !.pc = "turn", !.turn = @ + 1]
    ELSE fail(s, a, "stop_condition_not_met", TRUE)

push_back(s, a) ==
    Continue([s EXCEPT !.messages = Append(@, text_turn("feedback"))], a)

\* stop.check(state): the artifact is done, and whether the gates were asked.
StopHolds(a, artifact) ==
    CASE Stop[a] = "says_done"  -> TRUE
      [] Stop[a] = "gates_pass" -> "gates" \in artifact.holds
      [] Stop[a] = "all_of"     -> {"produced", "gates"} \subseteq artifact.holds
      [] Stop[a] = "any_of"     -> {"produced", "gates"} \cap artifact.holds # {}

AsksGates(a, artifact) ==
    CASE Stop[a] = "says_done"  -> FALSE
      [] Stop[a] = "gates_pass" -> TRUE
      [] Stop[a] = "all_of"     -> "produced" \in artifact.holds
      [] Stop[a] = "any_of"     -> "produced" \notin artifact.holds

----------------------------------------------------------------------------
(* RecoveryPolicy, on the state of the agent that owns it.                  *)

on_success(s) == [s EXCEPT !.consecutive = 0]

\* A slip: one retry more than the policy grants.
decide_once_more(s, tool, class) ==
    LET failures == s.consecutive + 1 IN
    CASE failures > MaxConsecutive -> "escalate"
      [] failures <= MaxConsecutive /\ class = "fatal" -> "escalate"
      [] failures <= MaxConsecutive /\ class = "transient"
           /\ s.retries[tool] <= MaxRetries -> "retry"
      [] OTHER -> "observe"

decide(s, tool, class) ==
    LET failures == s.consecutive + 1 IN
    CASE failures > MaxConsecutive -> "escalate"
      [] failures <= MaxConsecutive /\ class = "fatal" -> "escalate"
      [] failures <= MaxConsecutive /\ class = "transient"
           /\ s.retries[tool] < MaxRetries -> "retry"
      [] OTHER -> "observe"

\* What the policy remembers of a decision.
Decided(s, tool, action) ==
    [s EXCEPT !.consecutive = @ + 1,
              !.retries[tool] = IF action = "retry" THEN @ + 1 ELSE @]

\* The tool use at the head of the queue has its result block.
Answered(s) ==
    [s EXCEPT !.blocks = Append(@, Head(s.todo).id), !.todo = Tail(@), !.pc = "dispatch"]

\* A slip: a retry counts as a success, whatever came of it.
Retried_as_success(s, outcome) == [on_success(s) EXCEPT !.streak = IF outcome = "ok" THEN 0 ELSE @ + 1]

\* After the second call of run_tool: the policy hears of a success only.
Retried(s, outcome) ==
    IF outcome = "ok" THEN [on_success(s) EXCEPT !.streak = 0]
                      ELSE [s EXCEPT !.streak = @ + 1]

----------------------------------------------------------------------------
(* Agent.__init__ and Agent.run.                                            *)

construct(a) ==
    /\ agent[a].pc = "new"
    /\ agent' = [agent EXCEPT ![a].pc = "idle"]
    /\ cap' = MaxUsd[a]         \* setattr(harness.governor, "max_usd", ...)
    /\ UNCHANGED spent

\* A new LoopState and a new context; the RecoveryPolicy is the agent's.
run(a) ==
    /\ agent[a].pc = "idle"
    /\ agent[a].runs < MaxRuns
    /\ agent' = [agent EXCEPT ![a] =
         [Idle EXCEPT !.pc = "turn", !.turn = 1, !.runs = agent[a].runs + 1,
                      !.messages = Append(History, text_turn("task")),
                      !.retries = agent[a].retries,
                      !.consecutive = agent[a].consecutive]]
    /\ UNCHANGED <<spent, cap>>

----------------------------------------------------------------------------
(* Calls of the model.                                                      *)

\* should_compact() is a question of size, which is not modelled.
compaction(a) ==
    /\ agent[a].pc = "turn"
    /\ can_compact(agent[a].messages)
    /\ agent' = [agent EXCEPT ![a].messages = compact(@), ![a].pc = "compacted"]
    /\ UNCHANGED <<spent, cap>>

\* A slip: nobody asks what has been spent.
check_nothing == TRUE

\* governor.check() lets the call pass.
check == spent < cap

\* The request is sent; other agents go on while it is under way.
call_model(a) ==
    /\ agent[a].pc \in {"turn", "compacted", "probe"}
    /\ check
    /\ agent' = [agent EXCEPT ![a].pc = IF @ = "probe" THEN "probing" ELSE "calling"]
    /\ UNCHANGED <<spent, cap>>

\* A slip: without money an agent waits instead of giving up.
budget_awaited(a) ==
    /\ agent[a].pc \in {"turn", "compacted", "probe"}
    /\ check
    /\ agent' = [agent EXCEPT ![a] = fail(@, a, "budget", TRUE)]
    /\ UNCHANGED <<spent, cap>>

\* governor.check() raises: for the money, or at any time for the clock.
budget_exhausted(a) ==
    /\ agent[a].pc \in {"turn", "compacted", "probe"}
    /\ agent' = [agent EXCEPT ![a] = fail(@, a, "budget", TRUE)]
    /\ UNCHANGED <<spent, cap>>

\* An exception of the client passes through `run`, whatever on_failure says.
call_fails(a) ==
    /\ \/ agent[a].pc \in {"calling", "probing"}
       \/ agent[a].pc = "turn" /\ can_compact(agent[a].messages)
    /\ agent' = [agent EXCEPT ![a] =
         Ended(@, [how |-> "raised", ok |-> FALSE, why |-> "client",
                   artifact |-> @.artifact, report |-> @.report])]
    /\ UNCHANGED <<spent, cap>>

\* governor.record, when the reply is there.
record ==
    /\ \E cost \in 1..MaxCost : spent' = spent + cost
    /\ UNCHANGED cap

refused(a) ==
    /\ agent[a].pc = "calling"
    /\ record
    /\ agent' = [agent EXCEPT ![a] = fail(@, a, "refusal", FALSE)]

UsesOf(a, tools) == [i \in DOMAIN tools |-> [id |-> <<agent[a].turn, i>>, tool |-> tools[i]]]
IdsOf(uses)      == [i \in DOMAIN uses |-> uses[i].id]

\* response.wants_tools
wants_tools(a) ==
    /\ agent[a].pc = "calling"
    /\ record
    /\ \E tools \in Requests :
         agent' = [agent EXCEPT
             ![a].messages = Append(@, assistant_turn(IdsOf(UsesOf(a, tools)))),
             ![a].todo = UsesOf(a, tools), ![a].blocks = <<>>,
             ![a].escalate = FALSE, ![a].pc = "dispatch"]

\* The model believes it is finished, or was cut off: it is a candidate.
candidate(a) ==
    /\ agent[a].pc = "calling"
    /\ record
    /\ \E tools \in Cutoffs \cup {<<>>}, holds \in SUBSET Quality :
         agent' = [agent EXCEPT
             ![a].messages = Append(@, assistant_turn(IdsOf(UsesOf(a, tools)))),
             ![a].artifact = [turn |-> agent[a].turn, holds |-> holds],
             ![a].pc = IF SelfCheck[a] THEN "probe" ELSE "verify"]

----------------------------------------------------------------------------
(* Calls of tools: _dispatch.                                               *)

tool_succeeds(a) ==
    /\ agent[a].pc = "dispatch"
    /\ agent[a].todo # <<>>
    /\ agent' = [agent EXCEPT ![a] = Answered([on_success(@) EXCEPT !.streak = 0])]
    /\ UNCHANGED <<spent, cap>>

tool_fails(a) ==
    /\ agent[a].pc = "dispatch"
    /\ agent[a].todo # <<>>
    /\ \E class \in ErrorClasses :
         LET tool   == Head(agent[a].todo).tool
             action == decide(agent[a], tool, class)
             s      == [Decided(agent[a], tool, action) EXCEPT !.streak = @ + 1]
         IN  agent' = [agent EXCEPT ![a] =
               CASE action = "retry"    -> [s EXCEPT !.pc = "retry"]
                 [] action = "escalate" -> Answered([s EXCEPT !.escalate = TRUE])
                 [] OTHER               -> Answered(s)]
    /\ UNCHANGED <<spent, cap>>

retry(a) ==
    /\ agent[a].pc = "retry"
    /\ \E outcome \in ErrorClasses \cup {"ok"} :
         agent' = [agent EXCEPT ![a] = Answered(Retried(@, outcome))]
    /\ UNCHANGED <<spent, cap>>

\* All results in one message; then the next turn, or the escalation.
send_results(a) ==
    /\ agent[a].pc = "dispatch"
    /\ agent[a].todo = <<>>
    /\ agent' = [agent EXCEPT ![a] =
         LET s == [agent[a] EXCEPT !.messages = Append(@, tool_result_turn(agent[a].blocks))]
         IN  IF s.escalate THEN fail(s, a, "recovery_escalated", FALSE) ELSE Continue(s, a)]
    /\ UNCHANGED <<spent, cap>>

----------------------------------------------------------------------------
(* Verification and the stop condition: _verify and the end of _loop.       *)

\* The self-check's reply: it contains VERIFIED, or it is a problem to push back.
probed(a) ==
    /\ agent[a].pc = "probing"
    /\ record
    /\ agent' \in {[agent EXCEPT ![a].pc = "verify"],
                   [agent EXCEPT ![a] = push_back(@, a)]}

verifier_objects(a) ==
    /\ agent[a].pc = "verify"
    /\ "approved" \notin agent[a].artifact.holds
    /\ agent' = [agent EXCEPT ![a] = push_back(@, a)]
    /\ UNCHANGED <<spent, cap>>

\* A slip: the gates are asked and their report is dropped.
Judged_unreported(a) == agent[a]

\* state.gate_report is written when the gates are asked, and kept otherwise.
Judged(a) ==
    LET s == agent[a] IN
    IF AsksGates(a, s.artifact) THEN [s EXCEPT !.report = s.artifact.turn] ELSE s

\* A slip: the verifier's verdict is recorded and not looked at.
stops_unapproved(a) ==
    /\ agent[a].pc = "verify"
    /\ StopHolds(a, agent[a].artifact)
    /\ agent' = [agent EXCEPT ![a] =
         Ended(Judged(a), [how |-> "returned", ok |-> TRUE, why |-> "stop",
                           artifact |-> @.artifact, report |-> Judged(a).report])]
    /\ UNCHANGED <<spent, cap>>

stops(a) ==
    /\ agent[a].pc = "verify"
    /\ "approved" \in agent[a].artifact.holds
    /\ StopHolds(a, agent[a].artifact)
    /\ agent' = [agent EXCEPT ![a] =
         Ended(Judged(a), [how |-> "returned", ok |-> TRUE, why |-> "stop",
                           artifact |-> @.artifact, report |-> Judged(a).report])]
    /\ UNCHANGED <<spent, cap>>

not_done(a) ==
    /\ agent[a].pc = "verify"
    /\ "approved" \in agent[a].artifact.holds
    /\ ~StopHolds(a, agent[a].artifact)
    /\ agent' = [agent EXCEPT ![a] = push_back(Judged(a), a)]
    /\ UNCHANGED <<spent, cap>>

----------------------------------------------------------------------------

\* What a running agent does of itself.
Step(a) ==
    \/ compaction(a) \/ call_model(a) \/ budget_exhausted(a) \/ call_fails(a)
    \/ refused(a) \/ wants_tools(a) \/ candidate(a)
    \/ tool_succeeds(a) \/ tool_fails(a) \/ retry(a) \/ send_results(a)
    \/ probed(a) \/ verifier_objects(a) \/ stops(a) \/ not_done(a)

Next == \E a \in Agents : construct(a) \/ run(a) \/ Step(a)

Spec == Init /\ [][Next]_vars /\ \A a \in Agents : WF_vars(Step(a))

----------------------------------------------------------------------------

\* Every agent is in a state the code can hold, and so is the governor: no agent
\* exceeds its turns, nor the retries of a tool, however often it is run.
TypeOK ==
    /\ agent \in [Agents -> AgentState]
    /\ \A a \in Agents : agent[a].turn <= MaxTurns[a]
    /\ \A a \in Agents, t \in Tools : agent[a].retries[t] <= MaxRetries
    /\ spent \in Nat
    /\ cap \in Nat \ {0}

\* Whatever is dispatched, retried, escalated, pushed back and folded in between,
\* a transcript that is sent has every tool call answered by the next message
\* ("A tool_use is never separated from its tool_result", docs/HARNESS.md:70).
CallsAnswered ==
    \A a \in Agents : agent[a].pc = "calling" => Accepted(agent[a].messages)

\* No compaction loses the task (docs/HARNESS.md:68).
GoalSurvives ==
    \A a \in Agents : agent[a].pc = "calling" =>
        \E i \in DOMAIN agent[a].messages : agent[a].messages[i].kind = "task"

\* A result that says ok is about the artifact of the last turn; the verifier
\* approves of that artifact, the stop condition holds of it, and when the
\* condition cannot hold without the gates, the report is the one about it.
OkMeansDone ==
    \A a \in Agents : agent[a].result.ok =>
        LET artifact == agent[a].result.artifact IN
        /\ artifact.turn = agent[a].turn
        /\ "approved" \in artifact.holds
        /\ StopHolds(a, artifact)
        /\ Stop[a] \in {"gates_pass", "all_of"} =>
             "gates" \in artifact.holds /\ agent[a].result.report = artifact.turn

\* The two limits of the recovery policy stop a thrashing agent: the model is
\* not asked again once more tool calls in a row have failed than the policy
\* counts, plus the retries it grants and does not count.
ThrashingStops ==
    \A a \in Agents : agent[a].pc = "calling" =>
        agent[a].streak <= MaxConsecutive + MaxRetries * Cardinality(Tools)

\* What is spent exceeds the largest budget by less than a call per agent, however
\* the agents' checks and calls interleave and in whatever order they set the cap.
SpendBounded == spent < TopCap + MaxCost * Cardinality(Agents)

\* Every run of an agent ends, returning or raising.
RunsEnd ==
    \A a \in Agents : agent[a].pc \notin {"new", "idle"} ~> agent[a].pc = "idle"

\* "Subagents share the parent's governor: one budget for the run"
\* (docs/HARNESS.md:244): the budget of the run bounds what is spent.
OneBudget == spent < RunCap + MaxCost * Cardinality(Agents)
====
