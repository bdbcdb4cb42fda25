---- MODULE MCAgentLoop ----
(***************************************************************************)
(* The agents on which TLC runs AgentLoop.                                 *)
(***************************************************************************)
EXTENDS AgentLoop, TLC

NoHistory == <<>>

----------------------------------------------------------------------------
(* One agent, asked twice, with parallel tool calls and compaction.         *)

OneOf(x)   == [a \in Agents |-> x]
LoneTurns  == OneOf(4)
LoneUsd    == OneOf(9)
LoneFailure == OneOf("escalate")
LoneStop   == OneOf("all_of")
LoneCheck  == OneOf(TRUE)
LoneRequests == {<<"search">>, <<"search", "search">>}

----------------------------------------------------------------------------
(* Two agents of one harness, without tools: a budget of two calls.         *)

PairTurns   == "a" :> 2 @@ "b" :> 1
PairUsd     == "a" :> 2 @@ "b" :> 3
PairFailure == "a" :> "degrade" @@ "b" :> "retry_once"
PairStop    == "a" :> "any_of" @@ "b" :> "gates_pass"
PairCheck   == "a" :> FALSE @@ "b" :> TRUE

----------------------------------------------------------------------------
(* A reply cut off inside a tool call.                                      *)

CutOff == {<<"search">>}
====
