---- MODULE Transcript ----
(***************************************************************************)
(* The message list of an agent (harness/context.py) and the one operation *)
(* that rewrites it: compaction.  A message is reduced to what it is and   *)
(* to the tool calls it opens (tool_use) or answers (tool_result).         *)
(***************************************************************************)
EXTENDS Integers, Sequences

CONSTANT
    KeepRecent      \* settings.keep_recent_turns

ASSUME TranscriptAssumption == KeepRecent \in Nat

\* A tool use is identified by the turn of its reply and its place in it.
Ids == Nat \X Nat

Kind == {"history", "task", "feedback", "summary", "assistant", "note", "results"}

Message == [kind : Kind, uses : Seq(Ids), results : Seq(Ids)]

text_turn(kind)          == [kind |-> kind, uses |-> <<>>, results |-> <<>>]
assistant_turn(uses)     == [kind |-> "assistant", uses |-> uses, results |-> <<>>]
tool_result_turn(blocks) == [kind |-> "results", uses |-> <<>>, results |-> blocks]

Elements(s) == {s[i] : i \in DOMAIN s}

\* A tool call that no later message answers.
has_open_tool_use(msgs) ==
    \E i \in DOMAIN msgs : \E id \in Elements(msgs[i].uses) :
        \A j \in i..Len(msgs) : id \notin Elements(msgs[j].results)

Least(S) == CHOOSE c \in S : \A d \in S : c <= d

\* A slip: cutting at the wanted place, wherever that is.
safe_cut_as_wanted(msgs, want) == want

\* The first cut, from the wanted one on, with no open tool call before it.
safe_cut(msgs, want) ==
    LET from == IF want < 1 THEN 1 ELSE IF want > Len(msgs) THEN Len(msgs) ELSE want
    IN  Least({c \in from..Len(msgs) :
                  c = Len(msgs) \/ ~has_open_tool_use(SubSeq(msgs, 1, c))})

Cut(msgs) == safe_cut(msgs, Len(msgs) - KeepRecent)

can_compact(msgs) == Len(msgs) > KeepRecent + 2 /\ Cut(msgs) > 1

\* A slip: folding from the first message on.
compact_all(msgs) ==
    <<text_turn("note"), text_turn("summary")>>
      \o SubSeq(msgs, Cut(msgs) + 1, Len(msgs))

compact(msgs) ==
    <<msgs[1], text_turn("note"), text_turn("summary")>>
      \o SubSeq(msgs, Cut(msgs) + 1, Len(msgs))

(***************************************************************************)
(* What the model's API accepts: the tool calls of a message are answered, *)
(* each once and in order, by the next message, and nothing else is.       *)
(***************************************************************************)
Accepted(msgs) ==
    /\ \A i \in DOMAIN msgs : msgs[i].uses # <<>> =>
         i < Len(msgs) /\ msgs[i + 1].results = msgs[i].uses
    /\ \A i \in DOMAIN msgs : msgs[i].results # <<>> =>
         i > 1 /\ msgs[i - 1].uses = msgs[i].results
====
