---- MODULE AgentLoopProofs ----
(***************************************************************************)
(* What the steps of AgentLoop preserve, for every number of agents, every *)
(* contract, set of tools and length of run, and whatever the limits of    *)
(* the recovery policy are.                                                *)
(***************************************************************************)
EXTENDS AgentLoop, FiniteSetTheorems, SequenceTheorems, WellFoundedInduction, TLAPS

----------------------------------------------------------------------------
(* The cut of a compaction.                                                 *)

LEMMA LeastExists ==
    ASSUME NEW T \in SUBSET Nat, T # {}
    PROVE  Least(T) \in T
<1> DEFINE R == {ss \in Nat \X Nat : ss[1] < ss[2]}
<1>1. IsWellFoundedOn(R, Nat)
  BY NatLessThanWellFounded, Zenon DEF OpToRel
<1>2. \E x \in T : \A y \in T : ~(<<y, x>> \in R)
  <2> HIDE DEF R
  <2> QED BY <1>1, WFMin
<1>3. PICK x \in T : \A y \in T : ~(<<y, x>> \in R)
  BY <1>2
<1>4. \A y \in T : x <= y
  <2> SUFFICES ASSUME NEW y \in T PROVE x <= y
    OBVIOUS
  <2>1. x \in Nat /\ y \in Nat /\ ~(y < x)
    BY <1>3
  <2> QED BY <2>1
<1> QED
  BY <1>4 DEF Least

\* The cut of a transcript that is compacted leaves no open tool call before it,
\* or leaves nothing after it.
LEMMA CutIsSafe ==
    ASSUME NEW msgs \in Seq(Message), can_compact(msgs)
    PROVE  /\ Cut(msgs) \in 2..Len(msgs)
           /\ Cut(msgs) = Len(msgs) \/ ~has_open_tool_use(SubSeq(msgs, 1, Cut(msgs)))
<1> DEFINE want == Len(msgs) - KeepRecent
           from == IF want < 1 THEN 1 ELSE IF want > Len(msgs) THEN Len(msgs) ELSE want
           T == {c \in from..Len(msgs) :
                   c = Len(msgs) \/ ~has_open_tool_use(SubSeq(msgs, 1, c))}
<1>1. Len(msgs) \in Nat /\ KeepRecent \in Nat /\ Len(msgs) > KeepRecent + 2
  BY TranscriptAssumption DEF can_compact
<1>2. from \in 1..Len(msgs)
  BY <1>1
<1>3. T \in SUBSET Nat /\ Len(msgs) \in T
  BY <1>1, <1>2
<1>4. Cut(msgs) = Least(T)
  BY DEF Cut, safe_cut
<1>5. Cut(msgs) \in T
  <2> HIDE DEF T
  <2> QED BY <1>3, <1>4, LeastExists
<1> QED
  BY <1>1, <1>2, <1>5 DEF can_compact

LEMMA MessageTypes ==
    /\ \A kind \in Kind : text_turn(kind) \in Message
    /\ \A uses \in Seq(Ids) : assistant_turn(uses) \in Message
    /\ \A blocks \in Seq(Ids) : tool_result_turn(blocks) \in Message
BY EmptySeq DEF text_turn, assistant_turn, tool_result_turn, Message, Kind

\* Compaction keeps the first message, puts two in place of those it folds, and
\* leaves the rest as they are.
LEMMA CompactShape ==
    ASSUME NEW msgs \in Seq(Message), can_compact(msgs)
    PROVE  /\ compact(msgs) \in Seq(Message)
           /\ Len(compact(msgs)) = 3 + Len(msgs) - Cut(msgs)
           /\ compact(msgs)[1] = msgs[1]
           /\ compact(msgs)[2] = text_turn("note")
           /\ compact(msgs)[3] = text_turn("summary")
           /\ \A i \in 4..Len(compact(msgs)) : compact(msgs)[i] = msgs[i - 3 + Cut(msgs)]
<1> DEFINE front == <<msgs[1], text_turn("note"), text_turn("summary")>>
           back == SubSeq(msgs, Cut(msgs) + 1, Len(msgs))
<1>1. Cut(msgs) \in 2..Len(msgs) /\ Len(msgs) \in Nat
  BY CutIsSafe
<1>2. /\ back \in Seq(Message)
      /\ Len(back) = Len(msgs) - Cut(msgs)
      /\ \A i \in 1..Len(back) : back[i] = msgs[Cut(msgs) + i]
  BY <1>1, SubSeqProperties
<1>3. msgs[1] \in Message /\ text_turn("note") \in Message /\ text_turn("summary") \in Message
  BY <1>1, MessageTypes DEF Kind
<1>4. /\ front \in Seq(Message)
      /\ Len(front) = 3
      /\ front[1] = msgs[1] /\ front[2] = text_turn("note") /\ front[3] = text_turn("summary")
  BY <1>3
<1>5. compact(msgs) = front \o back
  BY DEF compact
<1> HIDE DEF front, back
<1>6. /\ front \o back \in Seq(Message)
      /\ Len(front \o back) = 3 + Len(back)
      /\ \A i \in 1..(3 + Len(back)) :
           (front \o back)[i] = IF i <= 3 THEN front[i] ELSE back[i - 3]
  <2>1. /\ front \o back \in Seq(Message)
        /\ Len(front \o back) = Len(front) + Len(back)
        /\ \A i \in 1..(Len(front) + Len(back)) :
             (front \o back)[i] = IF i <= Len(front) THEN front[i] ELSE back[i - Len(front)]
    BY <1>2, <1>4, ConcatProperties, Zenon
  <2> QED
    BY <1>4, <2>1
<1>7. \A i \in 4..(3 + Len(back)) : (front \o back)[i] = msgs[i - 3 + Cut(msgs)]
  <2> SUFFICES ASSUME NEW i \in 4..(3 + Len(back))
               PROVE  (front \o back)[i] = msgs[i - 3 + Cut(msgs)]
    OBVIOUS
  <2>1. i - 3 \in 1..Len(back)
    BY <1>1, <1>2
  <2>2. (front \o back)[i] = back[i - 3]
    BY <1>1, <1>2, <1>6
  <2>3. Cut(msgs) + (i - 3) = i - 3 + Cut(msgs)
    BY <1>1, <2>1
  <2> QED
    BY <1>2, <2>1, <2>2, <2>3
<1>8. Len(back) \in Nat /\ 3 + Len(back) = 3 + Len(msgs) - Cut(msgs)
  BY <1>1, <1>2
<1>9. \A j \in 1..3 : (front \o back)[j] = front[j]
  BY <1>6, <1>8
<1> QED
  BY <1>4, <1>5, <1>6, <1>7, <1>8, <1>9

----------------------------------------------------------------------------
(* Tool calls and their results.  Accepted, which a transcript satisfies    *)
(* when it is sent, is Paired and Closed; while the tools of the last       *)
(* message are being called it is Paired only.                              *)

Paired(msgs) ==
    /\ msgs # <<>> /\ msgs[1].uses = <<>>
    /\ \A i \in 1..Len(msgs) : msgs[i].uses # <<>> => msgs[i].results = <<>>
    /\ \A i \in 1..(Len(msgs) - 1) : msgs[i].uses # <<>> => msgs[i + 1].results = msgs[i].uses
    /\ \A i \in 1..Len(msgs) : msgs[i].results # <<>> => i > 1 /\ msgs[i - 1].uses = msgs[i].results

Closed(msgs) == msgs[Len(msgs)].uses = <<>>

LEMMA PairedIsAccepted ==
    ASSUME NEW msgs \in Seq(Message), Paired(msgs), Closed(msgs)
    PROVE  Accepted(msgs)
<1>1. Len(msgs) \in Nat \ {0} /\ DOMAIN msgs = 1..Len(msgs)
  BY EmptySeq DEF Paired
<1>2. ASSUME NEW i \in DOMAIN msgs, msgs[i].uses # <<>>
      PROVE  i < Len(msgs) /\ msgs[i + 1].results = msgs[i].uses
  <2>1. i # Len(msgs)
    BY <1>2 DEF Closed
  <2>2. i \in 1..(Len(msgs) - 1)
    BY <1>1, <2>1
  <2> QED
    BY <1>1, <1>2, <2>2 DEF Paired
<1> QED
  BY <1>1, <1>2 DEF Accepted, Paired

\* Where nothing is open before a cut, the message before it opens nothing.
LEMMA NothingOpen ==
    ASSUME NEW msgs \in Seq(Message), Paired(msgs), NEW c \in 1..Len(msgs),
           ~has_open_tool_use(SubSeq(msgs, 1, c))
    PROVE  msgs[c].uses = <<>>
<1> DEFINE pre == SubSeq(msgs, 1, c)
<1>1. c \in Nat /\ Len(msgs) \in Nat /\ c >= 1 /\ c <= Len(msgs)
  OBVIOUS
<1>2. /\ pre \in Seq(Message)
      /\ Len(pre) = c
      /\ pre[c] = msgs[c]
  BY <1>1
<1> HIDE DEF pre
<1>3. SUFFICES ASSUME msgs[c].uses # <<>> PROVE has_open_tool_use(pre)
  BY DEF pre
<1>4. msgs[c].uses \in Seq(Ids) /\ msgs[c].results = <<>>
  <2>1. msgs[c] \in Message
    BY <1>1
  <2> QED
    BY <1>3, <2>1 DEF Paired, Message
<1>5. PICK id : id \in Elements(msgs[c].uses)
  <2>1. 1 \in DOMAIN msgs[c].uses
    BY <1>3, <1>4, EmptySeq
  <2> QED
    BY <2>1 DEF Elements
<1>6. \A j \in c..Len(pre) : id \notin Elements(pre[j].results)
  <2>1. Elements(<<>>) = {}
    BY DEF Elements
  <2>2. \A j \in c..Len(pre) : j = c
    BY <1>1, <1>2
  <2> QED
    BY <1>2, <1>4, <2>1, <2>2
<1>7. c \in DOMAIN pre
  BY <1>1, <1>2
<1> QED
  BY <1>2, <1>5, <1>6, <1>7 DEF has_open_tool_use

LEMMA CompactKeepsPairs ==
    ASSUME NEW msgs \in Seq(Message), Paired(msgs), Closed(msgs), can_compact(msgs)
    PROVE  Paired(compact(msgs)) /\ Closed(compact(msgs))
<1> DEFINE c == Cut(msgs)
           new == compact(msgs)
<1>1. c \in 2..Len(msgs) /\ Len(msgs) \in Nat
  BY CutIsSafe
<1>2. c < Len(msgs) => msgs[c].uses = <<>>
  BY <1>1, CutIsSafe, NothingOpen
<1>3. /\ Len(new) = 3 + Len(msgs) - c
      /\ new[1] = msgs[1] /\ new[2] = text_turn("note") /\ new[3] = text_turn("summary")
      /\ \A i \in 4..Len(new) : new[i] = msgs[i - 3 + c]
      /\ new \in Seq(Message)
  BY CompactShape
<1> HIDE DEF c, new
<1>4. Len(new) \in Nat /\ Len(new) >= 3
  BY <1>1, <1>3
<1>5. \A i \in 1..3 : new[i].uses = <<>> /\ new[i].results = <<>>
  <2>1. msgs[1].uses = <<>> /\ msgs[1].results = <<>>
    BY <1>1 DEF Paired
  <2> QED
    BY <1>3, <2>1 DEF text_turn
<1>6. ASSUME NEW i \in 4..Len(new)
      PROVE  /\ i - 3 + c \in 1..Len(msgs)
             /\ new[i] = msgs[i - 3 + c]
             /\ i < Len(new) => i - 3 + c \in 1..(Len(msgs) - 1)
                                /\ new[i + 1] = msgs[(i - 3 + c) + 1]
             /\ i > 4 => new[i - 1] = msgs[(i - 3 + c) - 1]
             /\ i = 4 => (i - 3 + c) - 1 = c /\ c < Len(msgs)
  <2>1. i \in Nat /\ i >= 4 /\ i <= 3 + Len(msgs) - c /\ c \in Nat
    BY <1>1, <1>3, <1>4
  <2>2. i < Len(new) => i + 1 \in 4..Len(new) /\ (i + 1) - 3 + c = (i - 3 + c) + 1
    BY <1>4, <2>1
  <2>3. i > 4 => i - 1 \in 4..Len(new) /\ (i - 1) - 3 + c = (i - 3 + c) - 1
    BY <1>4, <2>1
  <2> QED
    BY <1>1, <1>3, <2>1, <2>2, <2>3
<1>7. \A i \in 1..Len(new) : i \in 1..3 \/ i \in 4..Len(new)
  BY <1>4
<1>8. \A i \in 1..Len(new) : new[i].uses # <<>> => new[i].results = <<>>
  BY <1>5, <1>6, <1>7 DEF Paired
<1>9. \A i \in 1..(Len(new) - 1) : new[i].uses # <<>> => new[i + 1].results = new[i].uses
  <2> SUFFICES ASSUME NEW i \in 4..Len(new), i < Len(new), new[i].uses # <<>>
               PROVE  new[i + 1].results = new[i].uses
    BY <1>4, <1>5, <1>7
  <2> QED
    BY <1>6 DEF Paired
<1>10. \A i \in 1..Len(new) : new[i].results # <<>> => i > 1 /\ new[i - 1].uses = new[i].results
  <2> SUFFICES ASSUME NEW i \in 4..Len(new), new[i].results # <<>>
               PROVE  i > 1 /\ new[i - 1].uses = new[i].results
    BY <1>5, <1>7
  <2>1. msgs[(i - 3 + c) - 1].uses = new[i].results
    BY <1>6 DEF Paired
  <2>2. i > 4
    BY <1>2, <1>6, <2>1
  <2> QED
    BY <1>6, <2>1, <2>2
<1>11. Closed(new)
  <2>1. CASE Len(new) = 3
    BY <1>5, <2>1 DEF Closed
  <2>2. CASE Len(new) > 3
    <3>1. Len(new) \in 4..Len(new) /\ Len(new) - 3 + c = Len(msgs)
      BY <1>1, <1>3, <1>4, <2>2
    <3> QED
      BY <1>3, <3>1 DEF Closed
  <2>3. \A n \in Nat : n >= 3 => n = 3 \/ n > 3
    OBVIOUS
  <2>4. Len(new) = 3 \/ Len(new) > 3
    BY <1>4, <2>3, Zenon
  <2> QED
    BY <2>1, <2>2, <2>4
<1> QED
  BY <1>4, <1>5, <1>8, <1>9, <1>10, <1>11, EmptySeq DEF Paired, c, new

\* A message that answers nothing may follow a closed transcript.
LEMMA AppendKeepsPairs ==
    ASSUME NEW msgs \in Seq(Message), Paired(msgs), Closed(msgs),
           NEW m \in Message, m.results = <<>>
    PROVE  /\ Append(msgs, m) \in Seq(Message)
           /\ Paired(Append(msgs, m))
           /\ m.uses = <<>> => Closed(Append(msgs, m))
<1>1. /\ Append(msgs, m) \in Seq(Message)
      /\ Len(Append(msgs, m)) = Len(msgs) + 1
      /\ \A i \in 1..Len(msgs) : Append(msgs, m)[i] = msgs[i]
      /\ Append(msgs, m)[Len(msgs) + 1] = m
      /\ Len(msgs) \in Nat \ {0}
  BY EmptySeq DEF Paired
<1> QED
  BY <1>1, EmptySeq DEF Paired, Closed

\* The results of all tool calls of the last message close it.
LEMMA ResultsClose ==
    ASSUME NEW msgs \in Seq(Message), Paired(msgs), NEW blocks \in Seq(Ids),
           msgs[Len(msgs)].uses = blocks, blocks # <<>>
    PROVE  /\ Append(msgs, tool_result_turn(blocks)) \in Seq(Message)
           /\ Paired(Append(msgs, tool_result_turn(blocks)))
           /\ Closed(Append(msgs, tool_result_turn(blocks)))
<1> DEFINE m == tool_result_turn(blocks)
<1>1. m \in Message /\ m.uses = <<>> /\ m.results = blocks
  BY MessageTypes DEF tool_result_turn
<1> HIDE DEF m
<1>2. /\ Append(msgs, m) \in Seq(Message)
      /\ Len(Append(msgs, m)) = Len(msgs) + 1
      /\ \A i \in 1..Len(msgs) : Append(msgs, m)[i] = msgs[i]
      /\ Append(msgs, m)[Len(msgs) + 1] = m
      /\ Len(msgs) \in Nat \ {0}
  BY <1>1, EmptySeq DEF Paired
<1> DEFINE new == Append(msgs, m)
<1>3. /\ new[Len(new)] = m /\ new[Len(new) - 1] = msgs[Len(msgs)]
      /\ Len(new) - 1 \in 1..Len(msgs) /\ new # <<>>
  BY <1>2, EmptySeq
<1> HIDE DEF new
<1>4. \A i \in 1..Len(new) : i \in 1..Len(msgs) \/ i = Len(new)
  BY <1>2 DEF new
<1>5. \A i \in 1..Len(new) : new[i].uses # <<>> => new[i].results = <<>>
  BY <1>1, <1>2, <1>3, <1>4 DEF Paired, new
<1>6. \A i \in 1..(Len(new) - 1) : new[i].uses # <<>> => new[i + 1].results = new[i].uses
  <2> SUFFICES ASSUME NEW i \in 1..Len(msgs), new[i].uses # <<>>
               PROVE  new[i + 1].results = new[i].uses
    BY <1>2 DEF new
  <2>1. CASE i = Len(msgs)
    BY <1>1, <1>2, <2>1 DEF new
  <2>2. CASE i # Len(msgs)
    <3>1. i \in 1..(Len(msgs) - 1) /\ i + 1 \in 1..Len(msgs)
      BY <1>2, <2>2
    <3> QED
      BY <1>2, <3>1 DEF Paired, new
  <2> QED
    BY <2>1, <2>2
<1>7. \A i \in 1..Len(new) : new[i].results # <<>> => i > 1 /\ new[i - 1].uses = new[i].results
  <2> SUFFICES ASSUME NEW i \in 1..Len(new), new[i].results # <<>>
               PROVE  i > 1 /\ new[i - 1].uses = new[i].results
    OBVIOUS
  <2>1. CASE i = Len(new)
    BY <1>1, <1>2, <1>3, <2>1 DEF new
  <2>2. CASE i \in 1..Len(msgs)
    <3>1. new[i] = msgs[i] /\ i > 1 /\ msgs[i - 1].uses = msgs[i].results
      BY <1>2, <2>2 DEF Paired, new
    <3>2. i - 1 \in 1..Len(msgs)
      BY <1>2, <2>2, <3>1
    <3> QED
      BY <1>2, <3>1, <3>2 DEF new
  <2> QED
    BY <1>4, <2>1, <2>2
<1>8. new[1].uses = <<>>
  BY <1>2 DEF Paired, new
<1>9. Paired(new) /\ Closed(new)
  BY <1>1, <1>3, <1>5, <1>6, <1>7, <1>8 DEF Paired, Closed
<1> QED
  BY <1>2, <1>9 DEF m, new

----------------------------------------------------------------------------
(* One agent.  Bounded is what holds of its state wherever it stands, AgentOK *)
(* adds what depends on where it stands: a retry has a call to repeat, a     *)
(* candidate is the artifact of this turn, a running agent has no result yet *)
(* and a result that says ok is about what verifier and stop condition saw.  *)

Bounded(a, s) ==
    /\ s \in AgentState
    /\ s.turn <= MaxTurns[a]
    /\ \A t \in Tools : s.retries[t] <= MaxRetries

Earned(a, s) ==
    /\ s.result.artifact.turn = s.turn
    /\ "approved" \in s.result.artifact.holds
    /\ StopHolds(a, s.result.artifact)
    /\ Stop[a] \in {"gates_pass", "all_of"} =>
         "gates" \in s.result.artifact.holds /\ s.result.report = s.result.artifact.turn

AgentOK(a, s) ==
    /\ Bounded(a, s)
    /\ s.pc = "retry" => s.todo # <<>>
    /\ s.pc \in {"probe", "probing", "verify"} => s.artifact.turn = s.turn
    /\ s.pc # "idle" => ~s.result.ok
    /\ s.result.ok => Earned(a, s)

AgentInv ==
    /\ agent \in [Agents -> AgentState]
    /\ \A a \in Agents : AgentOK(a, agent[a])

LEMMA FailOK ==
    ASSUME NEW a \in Agents, NEW s, Bounded(a, s), NEW exc \in BOOLEAN,
           NEW why \in {"refusal", "recovery_escalated", "budget", "stop_condition_not_met"}
    PROVE  AgentOK(a, fail(s, a, why, exc)) /\ fail(s, a, why, exc).pc = "idle"
<1>1. NoArtifact \in Artifact
  BY DEF NoArtifact, Artifact
<1>2. PICK result \in Result : fail(s, a, why, exc) = Ended(s, result) /\ ~result.ok
  <2> DEFINE degraded == [how |-> "degraded", ok |-> FALSE, why |-> why,
                          artifact |-> NoArtifact, report |-> s.report]
             failed == [how |-> IF exc THEN "raised" ELSE "returned", ok |-> FALSE,
                        why |-> why, artifact |-> s.artifact, report |-> s.report]
  <2>1. s.report \in Nat /\ s.artifact \in Artifact
    BY DEF Bounded, AgentState
  <2>2. degraded \in Result /\ failed \in Result /\ ~degraded.ok /\ ~failed.ok
    BY <1>1, <2>1 DEF Result
  <2>3. fail(s, a, why, exc) = Ended(s, degraded) \/ fail(s, a, why, exc) = Ended(s, failed)
    BY DEF fail
  <2> HIDE DEF degraded, failed
  <2> QED
    BY <2>2, <2>3
<1>3. Ended(s, result) \in AgentState /\ Ended(s, result).pc = "idle"
      /\ ~Ended(s, result).result.ok
      /\ Ended(s, result).turn = s.turn /\ Ended(s, result).retries = s.retries
  BY <1>2 DEF Ended, Bounded, AgentState, PC
<1> QED
  BY <1>2, <1>3 DEF AgentOK, Bounded

LEMMA ContinueOK ==
    ASSUME NEW a \in Agents, NEW s, Bounded(a, s), ~s.result.ok
    PROVE  AgentOK(a, Continue(s, a))
<1>1. CASE s.turn < MaxTurns[a]
  <2> DEFINE n == [s EXCEPT !.pc = "turn", !.turn = @ + 1]
  <2>0. s \in AgentState /\ s.turn + 1 \in Nat /\ "turn" \in PC
    BY DEF Bounded, AgentState, PC
  <2>1. n \in AgentState /\ n.pc = "turn" /\ n.turn = s.turn + 1
        /\ n.retries = s.retries /\ n.result = s.result
    BY <2>0 DEF AgentState
  <2>2. s.turn + 1 <= MaxTurns[a]
    BY <1>1, AgentAssumption DEF Bounded, AgentState
  <2>3. Continue(s, a) = n
    BY <1>1 DEF Continue
  <2> HIDE DEF n
  <2> QED
    BY <2>1, <2>2, <2>3 DEF AgentOK, Bounded
<1>2. CASE ~(s.turn < MaxTurns[a])
  <2>1. Continue(s, a) = fail(s, a, "stop_condition_not_met", TRUE)
    BY <1>2 DEF Continue
  <2> QED
    BY <2>1, FailOK
<1> QED
  BY <1>1, <1>2

LEMMA PushBackOK ==
    ASSUME NEW a \in Agents, NEW s, Bounded(a, s), ~s.result.ok
    PROVE  AgentOK(a, push_back(s, a))
<1> DEFINE n == [s EXCEPT !.messages = Append(@, text_turn("feedback"))]
<1>1. Append(s.messages, text_turn("feedback")) \in Seq(Message)
  BY MessageTypes DEF Bounded, AgentState, Kind
<1>2. n \in AgentState /\ n.turn = s.turn /\ n.retries = s.retries /\ n.result = s.result
  BY <1>1 DEF Bounded, AgentState
<1>3. push_back(s, a) = Continue(n, a)
  BY DEF push_back
<1> HIDE DEF n
<1>4. Bounded(a, n) /\ ~n.result.ok
  BY <1>2 DEF Bounded
<1> QED
  BY <1>3, <1>4, ContinueOK

----------------------------------------------------------------------------
(* Every action of an agent leaves it, and the others, in order.            *)

LEMMA UpdateOK ==
    ASSUME AgentInv, NEW a \in Agents, NEW e, AgentOK(a, e),
           agent' = [agent EXCEPT ![a] = e]
    PROVE  AgentInv'
<1>1. e \in AgentState
  BY DEF AgentOK, Bounded
<1>2. agent' \in [Agents -> AgentState]
  BY <1>1 DEF AgentInv
<1>3. \A b \in Agents : agent'[b] = IF b = a THEN e ELSE agent[b]
  BY DEF AgentInv
<1>4. \A b \in Agents : AgentOK(b, agent'[b])
  BY <1>3, Zenon DEF AgentInv
<1> QED
  BY <1>2, <1>4 DEF AgentInv

LEMMA AgentFacts ==
    ASSUME AgentInv, NEW a \in Agents
    PROVE  /\ agent[a] \in AgentState /\ AgentOK(a, agent[a]) /\ Bounded(a, agent[a])
           /\ agent[a].pc # "idle" => ~agent[a].result.ok
BY DEF AgentInv, AgentOK

\* A new place to stand, where nothing is asked of an agent but its bounds.
LEMMA MoveOK ==
    ASSUME NEW a \in Agents, NEW s, Bounded(a, s), ~s.result.ok,
           NEW pc \in PC \ {"retry", "probe", "probing", "verify"}
    PROVE  AgentOK(a, [s EXCEPT !.pc = pc])
<1> DEFINE n == [s EXCEPT !.pc = pc]
<1>1. s \in AgentState /\ pc \in PC
  BY DEF Bounded
<1>2. n \in AgentState /\ n.pc = pc /\ n.turn = s.turn /\ n.retries = s.retries
      /\ n.result = s.result
  BY <1>1 DEF AgentState
<1> HIDE DEF n
<1>3. AgentOK(a, n)
  BY <1>2 DEF AgentOK, Bounded
<1> QED
  BY <1>3 DEF n

LEMMA ConstructOK ==
    ASSUME AgentInv, NEW a \in Agents, construct(a)
    PROVE  AgentInv'
<1>1. AgentOK(a, [agent[a] EXCEPT !.pc = "idle"])
  BY AgentFacts, MoveOK DEF construct, PC
<1>2. agent' = [agent EXCEPT ![a] = [agent[a] EXCEPT !.pc = "idle"]]
  BY DEF construct
<1> QED
  BY <1>1, <1>2, UpdateOK

LEMMA RunOK ==
    ASSUME AgentInv, NEW a \in Agents, run(a)
    PROVE  AgentInv'
<1> DEFINE messages == Append(History, text_turn("task"))
           retries == agent[a].retries
           consecutive == agent[a].consecutive
           runs == agent[a].runs + 1
           zero == [t \in Tools |-> 0]
           e == [Idle EXCEPT !.pc = "turn", !.turn = 1, !.runs = runs, !.messages = messages,
                             !.retries = retries, !.consecutive = consecutive]
<1>1. messages \in Seq(Message)
  BY MessageTypes, AgentAssumption DEF Kind
<1>2. /\ retries \in [Tools -> Nat] /\ consecutive \in Nat /\ runs \in Nat
      /\ \A t \in Tools : retries[t] <= MaxRetries
  BY AgentFacts DEF AgentState, Bounded
<1>3. NoArtifact \in Artifact /\ NoResult \in Result /\ ~NoResult.ok
  BY DEF NoArtifact, NoResult, Artifact, Result
<1>4. agent' = [agent EXCEPT ![a] = e]
  BY DEF run
<1>i. Idle = [pc |-> "new", runs |-> 0, turn |-> 0, messages |-> <<>>, todo |-> <<>>,
              blocks |-> <<>>, escalate |-> FALSE, artifact |-> NoArtifact, report |-> 0,
              retries |-> zero, consecutive |-> 0, streak |-> 0, result |-> NoResult]
  BY DEF Idle
<1> HIDE DEF messages, retries, consecutive, runs, zero
<1>5. Idle \in AgentState /\ Idle.result = NoResult
  <2>1. "new" \in PC /\ <<>> \in Seq(Use) /\ <<>> \in Seq(Ids) /\ <<>> \in Seq(Message)
        /\ zero \in [Tools -> Nat]
    BY DEF PC, zero
  <2> QED
    BY <1>3, <1>i, <2>1 DEF AgentState
<1>6. "turn" \in PC /\ 1 \in Nat
  BY DEF PC
<1>7. e \in AgentState
      /\ e.pc = "turn" /\ e.turn = 1 /\ e.retries = retries /\ e.result = NoResult
  BY <1>1, <1>2, <1>5, <1>6 DEF AgentState
<1>8. 1 <= MaxTurns[a]
  BY AgentAssumption
<1> HIDE DEF e
<1>9. AgentOK(a, e)
  BY <1>2, <1>3, <1>7, <1>8 DEF AgentOK, Bounded
<1> QED
  BY <1>4, <1>9, UpdateOK

LEMMA CompactionOK ==
    ASSUME AgentInv, NEW a \in Agents, compaction(a)
    PROVE  AgentInv'
<1> DEFINE messages == compact(agent[a].messages)
           s == [agent[a] EXCEPT !.messages = messages]
           e == [s EXCEPT !.pc = "compacted"]
<1>0. agent[a] \in AgentState
  BY AgentFacts
<1>1. messages \in Seq(Message)
  <2>1. agent[a].messages \in Seq(Message) /\ can_compact(agent[a].messages)
    BY <1>0 DEF compaction, AgentState
  <2> QED
    BY <2>1, CompactShape
<1>2. agent' = [agent EXCEPT ![a] = e]
  BY DEF compaction
<1> HIDE DEF messages
<1>3. s \in AgentState /\ s.turn = agent[a].turn /\ s.retries = agent[a].retries
      /\ s.result = agent[a].result
  BY <1>0, <1>1 DEF AgentState
<1> HIDE DEF s
<1>4. Bounded(a, s) /\ ~s.result.ok
  BY <1>3, AgentFacts DEF Bounded, compaction
<1>5. AgentOK(a, e)
  BY <1>4, MoveOK DEF PC
<1> QED
  BY <1>2, <1>5, UpdateOK

LEMMA CallModelOK ==
    ASSUME AgentInv, NEW a \in Agents, call_model(a)
    PROVE  AgentInv'
<1>0. agent[a] \in AgentState /\ agent[a].pc \in {"turn", "compacted", "probe"}
  BY AgentFacts DEF call_model
<1>1. CASE agent[a].pc = "probe"
  <2> DEFINE e == [agent[a] EXCEPT !.pc = "probing"]
  <2>0. "probing" \in PC
    BY DEF PC
  <2>1. e \in AgentState /\ e.pc = "probing" /\ e.turn = agent[a].turn
        /\ e.retries = agent[a].retries /\ e.result = agent[a].result
        /\ e.artifact = agent[a].artifact
    BY <1>0, <2>0 DEF AgentState
  <2>2. agent' = [agent EXCEPT ![a] = e]
    BY <1>1 DEF call_model
  <2> HIDE DEF e
  <2>3. AgentOK(a, e)
    BY <1>1, <2>1, AgentFacts DEF AgentOK, Bounded
  <2> QED
    BY <2>2, <2>3, UpdateOK
<1>2. CASE agent[a].pc # "probe"
  <2>1. AgentOK(a, [agent[a] EXCEPT !.pc = "calling"])
    BY <1>0, AgentFacts, MoveOK DEF PC
  <2>2. agent' = [agent EXCEPT ![a] = [agent[a] EXCEPT !.pc = "calling"]]
    BY <1>2 DEF call_model
  <2> QED
    BY <2>1, <2>2, UpdateOK
<1> QED
  BY <1>1, <1>2

LEMMA BudgetExhaustedOK ==
    ASSUME AgentInv, NEW a \in Agents, budget_exhausted(a)
    PROVE  AgentInv'
<1>1. AgentOK(a, fail(agent[a], a, "budget", TRUE))
  BY AgentFacts, FailOK
<1> QED
  BY <1>1, UpdateOK DEF budget_exhausted

LEMMA RefusedOK ==
    ASSUME AgentInv, NEW a \in Agents, refused(a)
    PROVE  AgentInv'
<1>1. AgentOK(a, fail(agent[a], a, "refusal", FALSE))
  BY AgentFacts, FailOK
<1> QED
  BY <1>1, UpdateOK DEF refused

LEMMA CallFailsOK ==
    ASSUME AgentInv, NEW a \in Agents, call_fails(a)
    PROVE  AgentInv'
<1> DEFINE result == [how |-> "raised", ok |-> FALSE, why |-> "client",
                      artifact |-> agent[a].artifact, report |-> agent[a].report]
           e == Ended(agent[a], result)
<1>0. agent[a] \in AgentState
  BY AgentFacts
<1>1. result \in Result /\ ~result.ok
  <2>1. agent[a].artifact \in Artifact /\ agent[a].report \in Nat
    BY <1>0 DEF AgentState
  <2> QED
    BY <2>1 DEF Result
<1>2. agent' = [agent EXCEPT ![a] = e]
  BY DEF call_fails
<1> HIDE DEF result
<1>3. e \in AgentState /\ e.pc = "idle" /\ e.result = result
      /\ e.turn = agent[a].turn /\ e.retries = agent[a].retries
  <2>1. "idle" \in PC
    BY DEF PC
  <2> QED
    BY <1>0, <1>1, <2>1 DEF Ended, AgentState
<1> HIDE DEF e
<1>4. AgentOK(a, e)
  BY <1>1, <1>3, AgentFacts DEF AgentOK, Bounded
<1> QED
  BY <1>2, <1>4, UpdateOK

LEMMA UsesTypes ==
    ASSUME AgentInv, NEW a \in Agents, NEW tools \in Seq(Tools)
    PROVE  /\ UsesOf(a, tools) \in Seq(Use)
           /\ IdsOf(UsesOf(a, tools)) \in Seq(Ids)
           /\ Len(IdsOf(UsesOf(a, tools))) = Len(tools)
           /\ tools # <<>> => UsesOf(a, tools) # <<>> /\ IdsOf(UsesOf(a, tools)) # <<>>
<1>1. agent[a].turn \in Nat /\ DOMAIN tools = 1..Len(tools) /\ Len(tools) \in Nat
  BY AgentFacts DEF AgentState
<1>2. \A i \in 1..Len(tools) : tools[i] \in Tools /\ <<agent[a].turn, i>> \in Ids
  BY <1>1 DEF Ids
<1>3. UsesOf(a, tools) = [i \in 1..Len(tools) |-> [id |-> <<agent[a].turn, i>>, tool |-> tools[i]]]
  BY <1>1 DEF UsesOf
<1>4. UsesOf(a, tools) \in [1..Len(tools) -> Use]
  BY <1>2, <1>3 DEF Use
<1>5. IdsOf(UsesOf(a, tools)) \in [1..Len(tools) -> Ids]
  BY <1>2, <1>3 DEF IdsOf
<1>6. \A S, f : f \in [1..Len(tools) -> S] => f \in Seq(S) /\ Len(f) = Len(tools)
  BY <1>1, IsASeq, LenProperties
<1>7. tools # <<>> => Len(tools) # 0
  BY EmptySeq
<1> QED
  BY <1>1, <1>4, <1>5, <1>6, <1>7, EmptySeq

LEMMA WantsToolsOK ==
    ASSUME AgentInv, NEW a \in Agents, wants_tools(a)
    PROVE  AgentInv'
<1>0. agent[a] \in AgentState /\ agent[a].pc = "calling"
  BY AgentFacts DEF wants_tools
<1>1. PICK tools \in Requests :
         agent' = [agent EXCEPT
             ![a].messages = Append(@, assistant_turn(IdsOf(UsesOf(a, tools)))),
             ![a].todo = UsesOf(a, tools), ![a].blocks = <<>>,
             ![a].escalate = FALSE, ![a].pc = "dispatch"]
  BY DEF wants_tools
<1> DEFINE m == assistant_turn(IdsOf(UsesOf(a, tools)))
           messages == Append(agent[a].messages, m)
           uses == UsesOf(a, tools)
           e == [agent[a] EXCEPT !.messages = messages, !.todo = uses, !.blocks = <<>>,
                                 !.escalate = FALSE, !.pc = "dispatch"]
<1>2. agent' = [agent EXCEPT ![a] = e]
  BY <1>0, <1>1 DEF AgentInv
<1>3. uses \in Seq(Use) /\ m \in Message
  <2>1. tools \in Seq(Tools)
    BY AgentAssumption
  <2> QED
    BY <2>1, UsesTypes, MessageTypes
<1> HIDE DEF m
<1>4. messages \in Seq(Message)
  BY <1>0, <1>3 DEF AgentState
<1> HIDE DEF messages, uses
<1>5. "dispatch" \in PC /\ <<>> \in Seq(Ids)
  BY DEF PC
<1>6. e \in AgentState /\ e.pc = "dispatch" /\ e.turn = agent[a].turn
      /\ e.retries = agent[a].retries /\ e.result = agent[a].result
  BY <1>0, <1>3, <1>4, <1>5 DEF AgentState
<1> HIDE DEF e
<1>7. AgentOK(a, e)
  BY <1>0, <1>6, AgentFacts DEF AgentOK, Bounded
<1> QED
  BY <1>2, <1>7, UpdateOK

LEMMA CandidateOK ==
    ASSUME AgentInv, NEW a \in Agents, candidate(a)
    PROVE  AgentInv'
<1>0. agent[a] \in AgentState /\ agent[a].pc = "calling"
  BY AgentFacts DEF candidate
<1>1. PICK tools \in Cutoffs \cup {<<>>}, holds \in SUBSET Quality :
         agent' = [agent EXCEPT
             ![a].messages = Append(@, assistant_turn(IdsOf(UsesOf(a, tools)))),
             ![a].artifact = [turn |-> agent[a].turn, holds |-> holds],
             ![a].pc = IF SelfCheck[a] THEN "probe" ELSE "verify"]
  BY DEF candidate
<1> DEFINE m == assistant_turn(IdsOf(UsesOf(a, tools)))
           messages == Append(agent[a].messages, m)
           artifact == [turn |-> agent[a].turn, holds |-> holds]
           pc == IF SelfCheck[a] THEN "probe" ELSE "verify"
           e == [agent[a] EXCEPT !.messages = messages, !.artifact = artifact, !.pc = pc]
<1>2. agent' = [agent EXCEPT ![a] = e]
  BY <1>0, <1>1 DEF AgentInv
<1>3. m \in Message
  <2>1. <<>> \in Seq(Tools)
    OBVIOUS
  <2>2. Cutoffs \subseteq Seq(Tools)
    BY AgentAssumption
  <2>3. tools \in Seq(Tools)
    BY <2>1, <2>2
  <2> QED
    BY <2>3, UsesTypes, MessageTypes
<1> HIDE DEF m
<1>4. messages \in Seq(Message)
  BY <1>0, <1>3 DEF AgentState
<1>5. artifact \in Artifact /\ artifact.turn = agent[a].turn
  <2>1. agent[a].turn \in Nat
    BY <1>0 DEF AgentState
  <2> QED
    BY <2>1 DEF Artifact
<1>6. pc \in {"probe", "verify"} /\ pc \in PC
  BY DEF PC
<1> HIDE DEF messages, artifact, pc
<1>7. e \in AgentState /\ e.pc = pc /\ e.turn = agent[a].turn /\ e.artifact = artifact
      /\ e.retries = agent[a].retries /\ e.result = agent[a].result
  BY <1>0, <1>4, <1>5, <1>6 DEF AgentState
<1> HIDE DEF e
<1>8. AgentOK(a, e)
  BY <1>0, <1>5, <1>6, <1>7, AgentFacts DEF AgentOK, Bounded
<1> QED
  BY <1>2, <1>8, UpdateOK

\* Answering the tool use at the head of the queue.
LEMMA AnsweredOK ==
    ASSUME NEW a \in Agents, NEW s, Bounded(a, s), ~s.result.ok, s.todo # <<>>
    PROVE  AgentOK(a, Answered(s))
<1> DEFINE blocks == Append(s.blocks, Head(s.todo).id)
           todo == Tail(s.todo)
<1>0. s \in AgentState /\ "dispatch" \in PC
  BY DEF Bounded, PC
<1>1. blocks \in Seq(Ids) /\ todo \in Seq(Use)
  <2>0. s.todo # <<>>
    OBVIOUS
  <2>1. s.todo \in Seq(Use) /\ s.blocks \in Seq(Ids)
    BY <1>0 DEF AgentState
  <2>2. Head(s.todo) \in Use /\ todo \in Seq(Use)
    BY <2>1
  <2>3. Head(s.todo).id \in Ids
    BY <2>2 DEF Use
  <2> QED
    BY <2>1, <2>2, <2>3
<1> HIDE DEF blocks, todo
<1>2. Answered(s) = [s EXCEPT !.blocks = blocks, !.todo = todo, !.pc = "dispatch"]
  BY DEF Answered, blocks, todo
<1>3. Answered(s) \in AgentState /\ Answered(s).pc = "dispatch" /\ Answered(s).turn = s.turn
      /\ Answered(s).retries = s.retries /\ Answered(s).result = s.result
  BY <1>0, <1>1, <1>2 DEF AgentState
<1> QED
  BY <1>3 DEF AgentOK, Bounded

LEMMA ToolSucceedsOK ==
    ASSUME AgentInv, NEW a \in Agents, tool_succeeds(a)
    PROVE  AgentInv'
<1> DEFINE s == [on_success(agent[a]) EXCEPT !.streak = 0]
<1>0. agent[a] \in AgentState /\ agent[a].pc = "dispatch" /\ agent[a].todo # <<>>
  BY AgentFacts DEF tool_succeeds
<1>1. s \in AgentState /\ s.turn = agent[a].turn /\ s.retries = agent[a].retries
      /\ s.result = agent[a].result /\ s.todo = agent[a].todo
  BY <1>0 DEF AgentState, on_success
<1>2. agent' = [agent EXCEPT ![a] = Answered(s)]
  BY DEF tool_succeeds
<1> HIDE DEF s
<1>3. AgentOK(a, Answered(s))
  <2>1. Bounded(a, s) /\ ~s.result.ok
    BY <1>0, <1>1, AgentFacts DEF Bounded
  <2> QED
    BY <1>0, <1>1, <2>1, AnsweredOK
<1> QED
  BY <1>2, <1>3, UpdateOK

LEMMA RetryOK ==
    ASSUME AgentInv, NEW a \in Agents, retry(a)
    PROVE  AgentInv'
<1>0. agent[a] \in AgentState /\ agent[a].pc = "retry" /\ agent[a].todo # <<>>
  BY AgentFacts DEF retry, AgentOK
<1>1. PICK outcome \in ErrorClasses \cup {"ok"} :
         agent' = [agent EXCEPT ![a] = Answered(Retried(@, outcome))]
  BY DEF retry
<1> DEFINE s == Retried(agent[a], outcome)
<1>2. s \in AgentState /\ s.turn = agent[a].turn /\ s.retries = agent[a].retries
      /\ s.result = agent[a].result /\ s.todo = agent[a].todo
  <2>1. CASE outcome = "ok"
    <3>1. s = [agent[a] EXCEPT !.consecutive = 0, !.streak = 0]
      BY <2>1 DEF Retried, on_success
    <3>2. agent[a] \in AgentState
      BY <1>0
    <3> HIDE DEF s
    <3>3. s \in AgentState
      BY <3>1, <3>2 DEF AgentState
    <3>4. s.turn = agent[a].turn /\ s.retries = agent[a].retries
          /\ s.result = agent[a].result /\ s.todo = agent[a].todo
      BY <3>1, <3>2 DEF AgentState
    <3> QED
      BY <3>3, <3>4
  <2>2. CASE outcome # "ok"
    <3> DEFINE streak == agent[a].streak + 1
    <3>1. s = [agent[a] EXCEPT !.streak = streak] /\ streak \in Nat
      BY <1>0, <2>2 DEF Retried, AgentState
    <3> HIDE DEF streak
    <3>2. agent[a] \in AgentState
      BY <1>0
    <3> QED
      BY <3>1, <3>2 DEF AgentState
  <2> QED
    BY <2>1, <2>2
<1>3. agent' = [agent EXCEPT ![a] = Answered(s)]
  BY <1>1
<1> HIDE DEF s
<1>4. AgentOK(a, Answered(s))
  <2>1. Bounded(a, s) /\ ~s.result.ok
    BY <1>0, <1>2, AgentFacts DEF Bounded
  <2> QED
    BY <1>0, <1>2, <2>1, AnsweredOK
<1> QED
  BY <1>3, <1>4, UpdateOK

\* The policy counts every failure and grants a retry only while one is left.
LEMMA DecidedOK ==
    ASSUME NEW a \in Agents, NEW s, Bounded(a, s), NEW tool \in Tools, NEW class
    PROVE  /\ Bounded(a, Decided(s, tool, decide(s, tool, class)))
           /\ Decided(s, tool, decide(s, tool, class)).todo = s.todo
           /\ Decided(s, tool, decide(s, tool, class)).result = s.result
<1> DEFINE action == decide(s, tool, class)
           retries == [s.retries EXCEPT ![tool] = IF action = "retry" THEN @ + 1 ELSE @]
           consecutive == s.consecutive + 1
           d == Decided(s, tool, action)
<1>1. s \in AgentState /\ s.turn <= MaxTurns[a]
  BY DEF Bounded
<1>2. s.retries \in [Tools -> Nat] /\ consecutive \in Nat /\ MaxRetries \in Nat
      /\ \A t \in Tools : s.retries[t] <= MaxRetries
  BY <1>1, AgentAssumption DEF AgentState, Bounded
<1>3. action = "retry" => s.retries[tool] < MaxRetries
  BY DEF decide
<1> HIDE DEF action
<1>4. retries \in [Tools -> Nat]
  BY <1>2
<1>5. \A t \in Tools : retries[t] <= MaxRetries
  BY <1>2, <1>3
<1>6. d = [s EXCEPT !.consecutive = consecutive, !.retries = retries]
  BY <1>1 DEF Decided, AgentState
<1> HIDE DEF retries, consecutive, d
<1>7. d \in AgentState
  BY <1>1, <1>2, <1>4, <1>6 DEF AgentState
<1>8. d.turn = s.turn /\ d.retries = retries /\ d.result = s.result /\ d.todo = s.todo
  BY <1>1, <1>6 DEF AgentState
<1> QED
  BY <1>1, <1>5, <1>7, <1>8 DEF Bounded, d, action

LEMMA ToolFailsOK ==
    ASSUME AgentInv, NEW a \in Agents, tool_fails(a)
    PROVE  AgentInv'
<1>0. agent[a] \in AgentState /\ agent[a].pc = "dispatch" /\ agent[a].todo # <<>>
  BY AgentFacts DEF tool_fails
<1> DEFINE tool == Head(agent[a].todo).tool
           action(class) == decide(agent[a], tool, class)
           d(class) == Decided(agent[a], tool, action(class))
           next(class) == [d(class) EXCEPT !.streak = @ + 1]
<1>1. PICK class \in ErrorClasses :
         agent' = [agent EXCEPT ![a] =
               CASE action(class) = "retry"    -> [next(class) EXCEPT !.pc = "retry"]
                 [] action(class) = "escalate" -> Answered([next(class) EXCEPT !.escalate = TRUE])
                 [] OTHER                      -> Answered(next(class))]
  BY DEF tool_fails
<1>2. tool \in Tools
  <2>1. agent[a].todo \in Seq(Use) /\ agent[a].todo # <<>>
    BY <1>0 DEF AgentState
  <2>2. Head(agent[a].todo) \in Use
    BY <2>1
  <2> QED
    BY <2>2 DEF Use
<1>3. Bounded(a, d(class)) /\ d(class).todo = agent[a].todo /\ d(class).result = agent[a].result
  BY <1>2, AgentFacts, DecidedOK
<1> DEFINE s == next(class)
<1>4. Bounded(a, s) /\ ~s.result.ok /\ s.todo # <<>>
  <2> DEFINE q == d(class)
             streak == q.streak + 1
  <2>1. Bounded(a, q) /\ q.todo = agent[a].todo /\ q.result = agent[a].result
    BY <1>3
  <2>2. s = [q EXCEPT !.streak = streak]
    OBVIOUS
  <2> HIDE DEF d, q
  <2>3. q \in AgentState /\ streak \in Nat
    BY <2>1 DEF Bounded, AgentState
  <2> HIDE DEF s, streak
  <2>4. s \in AgentState
    BY <2>2, <2>3 DEF AgentState
  <2>5. s.turn = q.turn /\ s.retries = q.retries /\ s.result = q.result /\ s.todo = q.todo
    BY <2>2, <2>3 DEF AgentState
  <2>6. ~agent[a].result.ok
    BY <1>0, AgentFacts
  <2> QED
    BY <1>0, <2>1, <2>4, <2>5, <2>6 DEF Bounded
<1> HIDE DEF d, tool
<1>5. CASE action(class) = "retry"
  <2> DEFINE e == [s EXCEPT !.pc = "retry"]
  <2>1. agent' = [agent EXCEPT ![a] = e]
    BY <1>1, <1>5
  <2> HIDE DEF s
  <2>2. s \in AgentState /\ "retry" \in PC
    BY <1>4 DEF Bounded, PC
  <2>3. e \in AgentState
    BY <2>2 DEF AgentState
  <2>4. e.pc = "retry" /\ e.turn = s.turn /\ e.retries = s.retries /\ e.result = s.result
        /\ e.todo = s.todo
    BY <2>2 DEF AgentState
  <2> HIDE DEF e
  <2>5. AgentOK(a, e)
    BY <1>4, <2>3, <2>4 DEF AgentOK, Bounded
  <2> QED
    BY <2>1, <2>5, UpdateOK
<1>6. CASE action(class) = "escalate"
  <2> DEFINE e == [s EXCEPT !.escalate = TRUE]
  <2>1. agent' = [agent EXCEPT ![a] = Answered(e)]
    BY <1>1, <1>6
  <2> HIDE DEF s
  <2>2. s \in AgentState
    BY <1>4 DEF Bounded
  <2>3. e \in AgentState
    BY <2>2 DEF AgentState
  <2>4. e.turn = s.turn /\ e.retries = s.retries /\ e.result = s.result /\ e.todo = s.todo
    BY <2>2 DEF AgentState
  <2> HIDE DEF e
  <2>5. AgentOK(a, Answered(e))
    BY <1>4, <2>3, <2>4, AnsweredOK DEF Bounded
  <2> QED
    BY <2>1, <2>5, UpdateOK
<1>7. CASE action(class) # "retry" /\ action(class) # "escalate"
  <2>1. agent' = [agent EXCEPT ![a] = Answered(s)]
    BY <1>1, <1>7
  <2> HIDE DEF s
  <2> QED
    BY <1>4, <2>1, AnsweredOK, UpdateOK
<1> QED
  BY <1>5, <1>6, <1>7

LEMMA SendResultsOK ==
    ASSUME AgentInv, NEW a \in Agents, send_results(a)
    PROVE  AgentInv'
<1> DEFINE m == tool_result_turn(agent[a].blocks)
           messages == Append(agent[a].messages, m)
           s == [agent[a] EXCEPT !.messages = messages]
<1>0. agent[a] \in AgentState /\ agent[a].pc = "dispatch"
  BY AgentFacts DEF send_results
<1>1. messages \in Seq(Message)
  <2>1. agent[a].messages \in Seq(Message) /\ agent[a].blocks \in Seq(Ids)
    BY <1>0 DEF AgentState
  <2>2. m \in Message
    BY <2>1, MessageTypes
  <2> HIDE DEF m
  <2> QED
    BY <2>1, <2>2
<1>2. agent' = [agent EXCEPT ![a] =
         IF s.escalate THEN fail(s, a, "recovery_escalated", FALSE) ELSE Continue(s, a)]
  BY DEF send_results
<1> HIDE DEF messages
<1>3. s \in AgentState
  BY <1>0, <1>1 DEF AgentState
<1>4. s.turn = agent[a].turn /\ s.retries = agent[a].retries /\ s.result = agent[a].result
  BY <1>0 DEF AgentState
<1> HIDE DEF s
<1>5. Bounded(a, s) /\ ~s.result.ok
  BY <1>0, <1>3, <1>4, AgentFacts DEF Bounded
<1>6. AgentOK(a, fail(s, a, "recovery_escalated", FALSE)) /\ AgentOK(a, Continue(s, a))
  BY <1>5, FailOK, ContinueOK
<1>7. CASE s.escalate
  BY <1>2, <1>6, <1>7, UpdateOK
<1>8. CASE ~s.escalate
  BY <1>2, <1>6, <1>8, UpdateOK
<1> QED
  BY <1>7, <1>8

LEMMA ProbedOK ==
    ASSUME AgentInv, NEW a \in Agents, probed(a)
    PROVE  AgentInv'
<1>0. agent[a] \in AgentState /\ agent[a].pc = "probing"
  BY AgentFacts DEF probed
<1>1. CASE agent' = [agent EXCEPT ![a].pc = "verify"]
  <2> DEFINE e == [agent[a] EXCEPT !.pc = "verify"]
  <2>1. agent' = [agent EXCEPT ![a] = e] /\ "verify" \in PC
    BY <1>1 DEF PC
  <2>2. e \in AgentState
    BY <1>0, <2>1 DEF AgentState
  <2>3. e.pc = "verify" /\ e.turn = agent[a].turn /\ e.retries = agent[a].retries
        /\ e.result = agent[a].result /\ e.artifact = agent[a].artifact
    BY <1>0 DEF AgentState
  <2> HIDE DEF e
  <2>4. AgentOK(a, e)
    BY <1>0, <2>2, <2>3, AgentFacts DEF AgentOK, Bounded
  <2> QED
    BY <2>1, <2>4, UpdateOK
<1>2. CASE agent' = [agent EXCEPT ![a] = push_back(@, a)]
  <2>1. AgentOK(a, push_back(agent[a], a))
    BY <1>0, AgentFacts, PushBackOK
  <2> QED
    BY <1>2, <2>1, UpdateOK
<1> QED
  BY <1>1, <1>2 DEF probed

LEMMA VerifierObjectsOK ==
    ASSUME AgentInv, NEW a \in Agents, verifier_objects(a)
    PROVE  AgentInv'
<1>1. AgentOK(a, push_back(agent[a], a))
  BY AgentFacts, PushBackOK DEF verifier_objects
<1> QED
  BY <1>1, UpdateOK DEF verifier_objects

\* The gates are asked about the artifact of this turn.
LEMMA JudgedOK ==
    ASSUME AgentInv, NEW a \in Agents, agent[a].pc = "verify"
    PROVE  /\ Bounded(a, Judged(a)) /\ ~Judged(a).result.ok
           /\ Judged(a).turn = agent[a].turn /\ Judged(a).artifact = agent[a].artifact
           /\ Judged(a).retries = agent[a].retries
           /\ AsksGates(a, agent[a].artifact) => Judged(a).report = agent[a].turn
<1> DEFINE s == agent[a]
           report == s.artifact.turn
           e == [s EXCEPT !.report = report]
<1>1. s \in AgentState /\ Bounded(a, s) /\ ~s.result.ok /\ report = s.turn
  BY AgentFacts DEF AgentOK
<1>2. CASE AsksGates(a, s.artifact)
  <2>1. Judged(a) = e /\ report \in Nat
    BY <1>1, <1>2 DEF Judged, AgentState
  <2> HIDE DEF s, report
  <2>2. e \in AgentState
    BY <1>1, <2>1 DEF AgentState
  <2>3. e.turn = s.turn /\ e.retries = s.retries /\ e.result = s.result
        /\ e.artifact = s.artifact /\ e.report = report
    BY <1>1 DEF AgentState
  <2> HIDE DEF e
  <2> QED
    BY <1>1, <2>1, <2>2, <2>3 DEF Bounded, s
<1>3. CASE ~AsksGates(a, s.artifact)
  <2>1. Judged(a) = s
    BY <1>3 DEF Judged
  <2> QED
    BY <1>1, <1>3, <2>1
<1> QED
  BY <1>2, <1>3

LEMMA NotDoneOK ==
    ASSUME AgentInv, NEW a \in Agents, not_done(a)
    PROVE  AgentInv'
<1>1. AgentOK(a, push_back(Judged(a), a))
  BY JudgedOK, PushBackOK DEF not_done
<1> QED
  BY <1>1, UpdateOK DEF not_done

LEMMA StopsOK ==
    ASSUME AgentInv, NEW a \in Agents, stops(a)
    PROVE  AgentInv'
<1> DEFINE s == Judged(a)
           artifact == agent[a].artifact
           result == [how |-> "returned", ok |-> TRUE, why |-> "stop",
                      artifact |-> artifact, report |-> s.report]
           e == Ended(s, result)
<1>1. agent' = [agent EXCEPT ![a] = e]
  BY DEF stops
<1>2. /\ agent[a].pc = "verify" /\ "approved" \in artifact.holds /\ StopHolds(a, artifact)
      /\ agent[a] \in AgentState /\ artifact.turn = agent[a].turn
  BY AgentFacts DEF stops, AgentOK
<1>3. /\ s \in AgentState /\ Bounded(a, s) /\ s.turn = agent[a].turn
      /\ AsksGates(a, artifact) => s.report = artifact.turn
  BY <1>2, JudgedOK DEF Bounded
<1>4. Stop[a] \in {"gates_pass", "all_of"} => "gates" \in artifact.holds /\ s.report = artifact.turn
  BY <1>2, <1>3 DEF StopHolds, AsksGates
<1> HIDE DEF s
<1>5. artifact \in Artifact /\ s.report \in Nat
  BY <1>2, <1>3 DEF AgentState
<1> HIDE DEF artifact
<1>6. result \in Result /\ result.ok /\ result.artifact = artifact /\ result.report = s.report
  BY <1>5 DEF Result
<1> HIDE DEF result
<1>7. e = [s EXCEPT !.pc = "idle", !.result = result] /\ "idle" \in PC
  BY DEF Ended, PC
<1> HIDE DEF e
<1>8. e \in AgentState
  BY <1>3, <1>6, <1>7 DEF AgentState
<1>9. e.pc = "idle" /\ e.turn = s.turn /\ e.retries = s.retries /\ e.result = result
  BY <1>3, <1>7 DEF AgentState
<1>10. Earned(a, e)
  BY <1>2, <1>3, <1>4, <1>6, <1>9 DEF Earned
<1>11. AgentOK(a, e)
  BY <1>3, <1>8, <1>9, <1>10 DEF AgentOK, Bounded
<1> QED
  BY <1>1, <1>11, UpdateOK

LEMMA InitOK ==
    ASSUME Init
    PROVE  AgentInv
<1>1. Idle \in AgentState
  <2> DEFINE zero == [t \in Tools |-> 0]
  <2>1. NoArtifact \in Artifact /\ NoResult \in Result
    BY DEF NoArtifact, NoResult, Artifact, Result
  <2>2. "new" \in PC /\ <<>> \in Seq(Use) /\ <<>> \in Seq(Ids) /\ <<>> \in Seq(Message)
        /\ zero \in [Tools -> Nat]
    BY DEF PC
  <2>3. Idle = [pc |-> "new", runs |-> 0, turn |-> 0, messages |-> <<>>, todo |-> <<>>,
                blocks |-> <<>>, escalate |-> FALSE, artifact |-> NoArtifact, report |-> 0,
                retries |-> zero, consecutive |-> 0, streak |-> 0, result |-> NoResult]
    BY DEF Idle
  <2> HIDE DEF zero
  <2> QED
    BY <2>1, <2>2, <2>3 DEF AgentState
<1>2. Idle.pc = "new" /\ Idle.turn = 0 /\ Idle.result = NoResult /\ ~NoResult.ok
      /\ Idle.retries = [t \in Tools |-> 0]
  BY DEF Idle, NoResult
<1>3. \A a \in Agents : 0 <= MaxTurns[a]
  BY AgentAssumption
<1>4. \A t \in Tools : Idle.retries[t] <= MaxRetries
  BY <1>2, AgentAssumption
<1>5. \A a \in Agents : AgentOK(a, Idle)
  BY <1>1, <1>2, <1>3, <1>4 DEF AgentOK, Bounded
<1>6. agent = [a \in Agents |-> Idle]
  BY DEF Init
<1> QED
  BY <1>1, <1>5, <1>6 DEF AgentInv

LEMMA AgentStep ==
    ASSUME AgentInv, [Next]_vars
    PROVE  AgentInv'
<1>1. CASE UNCHANGED vars
  BY <1>1 DEF vars, AgentInv
<1>2. ASSUME NEW a \in Agents, construct(a) \/ run(a) \/ Step(a)
      PROVE  AgentInv'
  <2>1. CASE construct(a) \/ run(a)
    BY <2>1, ConstructOK, RunOK
  <2>2. CASE compaction(a) \/ call_model(a) \/ budget_exhausted(a) \/ call_fails(a)
    BY <2>2, CompactionOK, CallModelOK, BudgetExhaustedOK, CallFailsOK
  <2>3. CASE refused(a) \/ wants_tools(a) \/ candidate(a)
    BY <2>3, RefusedOK, WantsToolsOK, CandidateOK
  <2>4. CASE tool_succeeds(a) \/ tool_fails(a) \/ retry(a) \/ send_results(a)
    BY <2>4, ToolSucceedsOK, ToolFailsOK, RetryOK, SendResultsOK
  <2>5. CASE probed(a) \/ verifier_objects(a) \/ stops(a) \/ not_done(a)
    BY <2>5, ProbedOK, VerifierObjectsOK, StopsOK, NotDoneOK
  <2> QED
    BY <1>2, <2>1, <2>2, <2>3, <2>4, <2>5 DEF Step
<1> QED
  BY <1>1, <1>2 DEF Next

----------------------------------------------------------------------------
(* The governor.  What the calls under way can still cost is accounted for  *)
(* before it is recorded: that is what makes the bound inductive.           *)

Purse == spent \in Nat /\ cap \in Nat \ {0} /\ cap <= TopCap

InFlight == {a \in Agents : agent[a].pc \in {"calling", "probing"}}

Reserved == spent + MaxCost * Cardinality(InFlight) < TopCap + MaxCost * Cardinality(Agents)

LEMMA PurseStep ==
    ASSUME Purse, [Next]_vars
    PROVE  Purse'
<1> USE DEF Purse
<1>1. CASE UNCHANGED vars
  BY <1>1 DEF vars
<1>2. ASSUME NEW a \in Agents, construct(a) \/ run(a) \/ Step(a)
      PROVE  Purse'
  <2>1. CASE construct(a)
    BY <2>1, AgentAssumption DEF construct
  <2>2. ASSUME record
        PROVE  Purse'
    BY <2>2, AgentAssumption DEF record
  <2>3. CASE refused(a) \/ wants_tools(a) \/ candidate(a) \/ probed(a)
    BY <2>2, <2>3 DEF refused, wants_tools, candidate, probed
  <2>4. CASE run(a) \/ compaction(a) \/ call_model(a) \/ budget_exhausted(a) \/ call_fails(a)
             \/ tool_succeeds(a) \/ tool_fails(a) \/ retry(a) \/ send_results(a)
             \/ verifier_objects(a) \/ stops(a) \/ not_done(a)
    <3>1. UNCHANGED <<spent, cap>>
      BY <2>4 DEF run, compaction, call_model, budget_exhausted, call_fails,
                  tool_succeeds, tool_fails, retry, send_results,
                  verifier_objects, stops, not_done
    <3> QED
      BY <3>1
  <2> QED
    BY <1>2, <2>1, <2>3, <2>4 DEF Step
<1> QED
  BY <1>1, <1>2 DEF Next

\* A step of one agent leaves the others as they are.
LEMMA OthersStay ==
    ASSUME AgentInv, NEW a \in Agents, construct(a) \/ run(a) \/ Step(a)
    PROVE  \A b \in Agents \ {a} : agent'[b] = agent[b]
<1>1. \A e : agent' = [agent EXCEPT ![a] = e] => \A b \in Agents \ {a} : agent'[b] = agent[b]
  BY DEF AgentInv
<1>2. \E e : agent' = [agent EXCEPT ![a] = e]
  <2>1. CASE construct(a) \/ run(a)
    BY <2>1 DEF construct, run
  <2>2. CASE compaction(a) \/ call_model(a) \/ budget_exhausted(a) \/ call_fails(a) \/ refused(a)
    BY <2>2 DEF compaction, call_model, budget_exhausted, call_fails, refused
  <2>3. CASE wants_tools(a)
    BY <2>3 DEF wants_tools
  <2>4. CASE candidate(a)
    BY <2>4 DEF candidate
  <2>5. CASE tool_succeeds(a) \/ tool_fails(a) \/ retry(a) \/ send_results(a)
    BY <2>5 DEF tool_succeeds, tool_fails, retry, send_results
  <2>6. CASE probed(a) \/ verifier_objects(a) \/ stops(a) \/ not_done(a)
    BY <2>6 DEF probed, verifier_objects, stops, not_done
  <2> QED
    BY <2>1, <2>2, <2>3, <2>4, <2>5, <2>6 DEF Step
<1> QED
  BY <1>1, <1>2

\* Where the helpers of an action leave an agent.
LEMMA Places ==
    ASSUME NEW a \in Agents, NEW s, s \in AgentState
    PROVE  /\ \A result : Ended(s, result).pc = "idle"
           /\ \A why, exc : fail(s, a, why, exc).pc = "idle"
           /\ Continue(s, a).pc \in {"turn", "idle"}
           /\ push_back(s, a).pc \in {"turn", "idle"}
           /\ Answered(s).pc = "dispatch"
<1>1. ASSUME NEW t, t \in AgentState
      PROVE  /\ \A result : Ended(t, result).pc = "idle"
             /\ \A why, exc : fail(t, a, why, exc).pc = "idle"
             /\ Continue(t, a).pc \in {"turn", "idle"}
  <2>1. \A result : Ended(t, result).pc = "idle"
    BY <1>1 DEF Ended, AgentState
  <2>2. \A why, exc : fail(t, a, why, exc).pc = "idle"
    BY <2>1 DEF fail
  <2>3. [t EXCEPT !.pc = "turn", !.turn = @ + 1].pc = "turn"
    BY <1>1 DEF AgentState
  <2> QED
    BY <2>1, <2>2, <2>3 DEF Continue
<1>2. push_back(s, a).pc \in {"turn", "idle"}
  <2> DEFINE messages == Append(s.messages, text_turn("feedback"))
             n == [s EXCEPT !.messages = messages]
  <2>1. messages \in Seq(Message)
    BY MessageTypes DEF AgentState, Kind
  <2> HIDE DEF messages
  <2>2. n \in AgentState
    BY <2>1 DEF AgentState
  <2>3. push_back(s, a) = Continue(n, a)
    BY DEF push_back, messages
  <2> HIDE DEF n
  <2> QED
    BY <1>1, <2>2, <2>3
<1>3. Answered(s).pc = "dispatch"
  BY DEF Answered, AgentState
<1> QED
  BY <1>1, <1>2, <1>3

\* Only call_model puts a call under way.
LEMMA Lands ==
    ASSUME AgentInv, NEW a \in Agents, construct(a) \/ run(a) \/ Step(a), ~call_model(a)
    PROVE  agent'[a].pc \notin {"calling", "probing"}
<1>0. agent[a] \in AgentState /\ agent \in [Agents -> AgentState]
  BY AgentFacts DEF AgentInv
<1>1. CASE construct(a) \/ compaction(a)
  BY <1>0, <1>1 DEF construct, compaction, AgentState
<1>2. CASE run(a)
  <2> DEFINE e == [Idle EXCEPT !.pc = "turn", !.turn = 1, !.runs = agent[a].runs + 1,
                      !.messages = Append(History, text_turn("task")),
                      !.retries = agent[a].retries,
                      !.consecutive = agent[a].consecutive]
  <2>1. agent'[a] = e
    BY <1>0, <1>2 DEF run
  <2>2. e.pc = "turn"
    BY DEF Idle
  <2> QED
    BY <2>1, <2>2
<1>3. CASE budget_exhausted(a) \/ refused(a)
  <2>1. \E why, exc : agent'[a] = fail(agent[a], a, why, exc)
    BY <1>0, <1>3 DEF budget_exhausted, refused
  <2> QED
    BY <1>0, <2>1, Places
<1>4. CASE call_fails(a)
  <2>1. \E result : agent'[a] = Ended(agent[a], result)
    BY <1>0, <1>4 DEF call_fails
  <2> QED
    BY <1>0, <2>1, Places
<1>5. CASE wants_tools(a)
  <2>1. PICK tools \in Requests :
         agent' = [agent EXCEPT
             ![a].messages = Append(@, assistant_turn(IdsOf(UsesOf(a, tools)))),
             ![a].todo = UsesOf(a, tools), ![a].blocks = <<>>,
             ![a].escalate = FALSE, ![a].pc = "dispatch"]
    BY <1>5 DEF wants_tools
  <2> QED
    BY <1>0, <2>1 DEF AgentState
<1>6. CASE candidate(a)
  <2>1. PICK tools \in Cutoffs \cup {<<>>}, holds \in SUBSET Quality :
         agent' = [agent EXCEPT
             ![a].messages = Append(@, assistant_turn(IdsOf(UsesOf(a, tools)))),
             ![a].artifact = [turn |-> agent[a].turn, holds |-> holds],
             ![a].pc = IF SelfCheck[a] THEN "probe" ELSE "verify"]
    BY <1>6 DEF candidate
  <2> QED
    BY <1>0, <2>1 DEF AgentState
<1>7. \A x : "pc" \in DOMAIN x => Answered(x).pc = "dispatch" /\ [x EXCEPT !.pc = "retry"].pc = "retry"
  BY DEF Answered
<1>8. CASE tool_succeeds(a)
  <2> DEFINE s == [on_success(agent[a]) EXCEPT !.streak = 0]
  <2>1. agent'[a] = Answered(s)
    BY <1>0, <1>8 DEF tool_succeeds
  <2>2. s \in AgentState
    BY <1>0 DEF on_success, AgentState
  <2> HIDE DEF s
  <2> QED
    BY <2>1, <2>2, Places
<1>9. CASE retry(a)
  <2>1. PICK outcome : agent'[a] = Answered(Retried(agent[a], outcome))
    BY <1>0, <1>9 DEF retry
  <2>2. "pc" \in DOMAIN agent[a]
    BY <1>0 DEF AgentState
  <2>3. "pc" \in DOMAIN Retried(agent[a], outcome)
    <3>1. \A x : DOMAIN [x EXCEPT !.streak = 0] = DOMAIN x
                 /\ DOMAIN [x EXCEPT !.streak = @ + 1] = DOMAIN x
                 /\ DOMAIN [x EXCEPT !.consecutive = 0] = DOMAIN x
      OBVIOUS
    <3> QED
      BY <2>2, <3>1 DEF Retried, on_success
  <2> QED
    BY <1>7, <2>1, <2>3
<1>10. CASE send_results(a)
  <2> DEFINE messages == Append(agent[a].messages, tool_result_turn(agent[a].blocks))
             s == [agent[a] EXCEPT !.messages = messages]
  <2>1. agent'[a] = fail(s, a, "recovery_escalated", FALSE) \/ agent'[a] = Continue(s, a)
    BY <1>0, <1>10 DEF send_results
  <2>2. messages \in Seq(Message)
    BY <1>0, MessageTypes DEF AgentState
  <2> HIDE DEF messages
  <2>3. s \in AgentState
    BY <1>0, <2>2 DEF AgentState
  <2> HIDE DEF s
  <2> QED
    BY <2>1, <2>3, Places
<1>11. CASE probed(a)
  <2>1. agent'[a] = [agent[a] EXCEPT !.pc = "verify"] \/ agent'[a] = push_back(agent[a], a)
    BY <1>0, <1>11 DEF probed
  <2>2. [agent[a] EXCEPT !.pc = "verify"].pc = "verify"
    BY <1>0 DEF AgentState
  <2> QED
    BY <1>0, <2>1, <2>2, Places
<1>12. CASE verifier_objects(a)
  BY <1>0, <1>12, Places DEF verifier_objects
<1>13. CASE not_done(a) \/ stops(a)
  <2>1. agent[a].pc = "verify"
    BY <1>13 DEF not_done, stops
  <2>2. Judged(a) \in AgentState
    BY <2>1, JudgedOK DEF Bounded
  <2>3. agent'[a] = push_back(Judged(a), a) \/ \E result : agent'[a] = Ended(Judged(a), result)
    BY <1>0, <1>13 DEF not_done, stops
  <2> QED
    BY <2>2, <2>3, Places
<1>14. CASE tool_fails(a)
  <2>1. agent'[a].pc \in {"retry", "dispatch"}
    <3> DEFINE tool == Head(agent[a].todo).tool
    <3>1. PICK class \in ErrorClasses :
            LET action == decide(agent[a], tool, class)
                s      == [Decided(agent[a], tool, action) EXCEPT !.streak = @ + 1]
            IN  agent'[a] = CASE action = "retry"    -> [s EXCEPT !.pc = "retry"]
                 [] action = "escalate" -> Answered([s EXCEPT !.escalate = TRUE])
                 [] OTHER               -> Answered(s)
      BY <1>0, <1>14 DEF tool_fails
    <3> DEFINE action == decide(agent[a], tool, class)
               d == Decided(agent[a], tool, action)
               s == [d EXCEPT !.streak = @ + 1]
               t == [s EXCEPT !.escalate = TRUE]
    <3>2. /\ agent'[a] = [s EXCEPT !.pc = "retry"]
          \/ agent'[a] = Answered(t)
          \/ agent'[a] = Answered(s)
      BY <3>1
    <3>3. DOMAIN d = DOMAIN agent[a]
      BY <1>0 DEF Decided, AgentState
    <3>4. "pc" \in DOMAIN d
      BY <1>0, <3>3 DEF AgentState
    <3> HIDE DEF d
    <3>5. "pc" \in DOMAIN s /\ "pc" \in DOMAIN t
      BY <3>4
    <3> HIDE DEF s, t
    <3> QED
      BY <1>7, <3>2, <3>5
  <2> QED
    BY <2>1
<1> QED
  BY <1>1, <1>2, <1>3, <1>4, <1>5, <1>6, <1>8, <1>9, <1>10, <1>11, <1>12, <1>13, <1>14 DEF Step

LEMMA AgentsCounted ==
    /\ \A S \in SUBSET Agents : Cardinality(S) \in Nat /\ Cardinality(S) <= Cardinality(Agents)
    /\ \A S, T \in SUBSET Agents : S \subseteq T => Cardinality(S) <= Cardinality(T)
    /\ \A S \in SUBSET Agents : \A a \in S : Cardinality(S \ {a}) = Cardinality(S) - 1
<1>1. IsFiniteSet(Agents)
  BY AgentAssumption
<1>2. \A S \in SUBSET Agents : IsFiniteSet(S) /\ Cardinality(S) \in Nat
  BY <1>1, FS_Subset, FS_CardinalityType
<1>3. \A S, T \in SUBSET Agents : S \subseteq T => Cardinality(S) <= Cardinality(T)
  BY <1>2, FS_Subset
<1>4. \A S \in SUBSET Agents : \A a \in S : Cardinality(S \ {a}) = Cardinality(S) - 1
  BY <1>2, FS_RemoveElement
<1> QED
  BY <1>2, <1>3, <1>4

LEMMA Products ==
    /\ \A k, m, n \in Nat : m <= n => k * m <= k * n
    /\ \A k, m \in Nat : k * (m - 1) = k * m - k
    /\ \A k, m \in Nat : k * m \in Nat
OBVIOUS

LEMMA ReservedStep ==
    ASSUME AgentInv, Purse, Reserved, [Next]_vars
    PROVE  Reserved'
<1> DEFINE before == Cardinality(InFlight)
           after == Cardinality(InFlight')
           all == Cardinality(Agents)
<1>1. /\ before \in Nat /\ after \in Nat /\ all \in Nat
      /\ before <= all /\ after <= all
      /\ InFlight \in SUBSET Agents /\ InFlight' \in SUBSET Agents
  BY AgentsCounted DEF InFlight
<1>2. /\ MaxCost \in Nat \ {0} /\ TopCap \in Nat /\ spent \in Nat /\ cap \in Nat
      /\ cap <= TopCap
  BY AgentAssumption DEF Purse
<1>3. /\ MaxCost * before \in Nat /\ MaxCost * after \in Nat /\ MaxCost * all \in Nat
      /\ MaxCost * after <= MaxCost * all
      /\ after <= before => MaxCost * after <= MaxCost * before
      /\ after = before - 1 => MaxCost * after = MaxCost * before - MaxCost
  BY <1>1, <1>2, Products
<1>4. Reserved <=> spent + MaxCost * before < TopCap + MaxCost * all
  BY DEF Reserved
<1>5. Reserved' <=> spent' + MaxCost * after < TopCap + MaxCost * all
  BY DEF Reserved
<1>6. CASE UNCHANGED vars
  BY <1>6 DEF vars, Reserved, InFlight
<1>7. ASSUME NEW a \in Agents, construct(a) \/ run(a) \/ Step(a)
      PROVE  Reserved'
  <2>1. CASE call_model(a)
    <3>1. spent < cap /\ spent' = spent
      BY <2>1 DEF call_model, check
    <3> HIDE DEF before, after, all
    <3> QED
      BY <1>2, <1>3, <1>5, <3>1
  <2>2. CASE ~call_model(a)
    <3>1. InFlight' \subseteq InFlight \ {a}
      BY <1>7, <2>2, Lands, OthersStay DEF InFlight
    <3>2. CASE UNCHANGED spent
      <4>1. after <= before
        BY <1>1, <3>1, AgentsCounted
      <4> HIDE DEF before, after, all
      <4> QED
        BY <1>2, <1>3, <1>4, <1>5, <3>2, <4>1
    <3>3. CASE record /\ a \in InFlight
      <4>1. spent' \in Nat /\ spent' <= spent + MaxCost
        BY <1>2, <3>3 DEF record
      <4>2. Cardinality(InFlight \ {a}) = before - 1 /\ after <= Cardinality(InFlight \ {a})
        BY <1>1, <3>1, <3>3, AgentsCounted
      <4>3. MaxCost * after <= MaxCost * before - MaxCost
        <5>1. before - 1 \in Nat /\ after <= before - 1
          BY <1>1, <4>2, AgentsCounted
        <5> HIDE DEF before, after
        <5> QED
          BY <1>1, <1>2, <5>1, Products
      <4> HIDE DEF before, after, all
      <4> QED
        BY <1>2, <1>3, <1>4, <1>5, <4>1, <4>3
    <3>4. CASE refused(a) \/ wants_tools(a) \/ candidate(a) \/ probed(a)
      BY <3>3, <3>4 DEF refused, wants_tools, candidate, probed, InFlight
    <3>5. CASE construct(a) \/ run(a) \/ compaction(a) \/ budget_exhausted(a) \/ call_fails(a)
               \/ tool_succeeds(a) \/ tool_fails(a) \/ retry(a) \/ send_results(a)
               \/ verifier_objects(a) \/ stops(a) \/ not_done(a)
      BY <3>2, <3>5 DEF construct, run, compaction, budget_exhausted, call_fails,
                        tool_succeeds, tool_fails, retry, send_results,
                        verifier_objects, stops, not_done
    <3> QED
      BY <1>7, <2>2, <3>4, <3>5 DEF Step
  <2> QED
    BY <2>1, <2>2
<1> QED
  BY <1>6, <1>7 DEF Next

----------------------------------------------------------------------------

\* Every agent stays within its turns and every tool within its retries, whatever
\* the replies, the failures and the number of runs (agent.py, recovery.py).
THEOREM AgentTypesCorrect == Spec => []TypeOK
<1>1. Init => AgentInv /\ Purse
  BY InitOK, AgentAssumption DEF Init, Purse
<1>2. AgentInv /\ Purse /\ [Next]_vars => (AgentInv /\ Purse)'
  BY AgentStep, PurseStep
<1>3. AgentInv /\ Purse => TypeOK
  BY DEF AgentInv, Purse, TypeOK, AgentOK, Bounded
<1> QED
  BY <1>1, <1>2, <1>3, PTL DEF Spec

\* A result that says ok is of this run's last turn, approved by the verifier, and
\* satisfies the stop condition, with the gate report about that very artifact
\* where the condition needs the gates (agent.py:219-242).
THEOREM OkAlwaysDone == Spec => []OkMeansDone
<1>1. Init => AgentInv
  BY InitOK
<1>2. AgentInv /\ [Next]_vars => AgentInv'
  BY AgentStep
<1>3. AgentInv => OkMeansDone
  BY DEF AgentInv, AgentOK, Earned, OkMeansDone
<1> QED
  BY <1>1, <1>2, <1>3, PTL DEF Spec

\* However many agents share the governor and whichever of them sets its cap, what
\* is spent stays below the largest budget plus one call per agent
\* (governor.py:63-84, agent.py:153-155).
THEOREM SpendAlwaysBounded == Spec => []SpendBounded
<1>1. Init => AgentInv /\ Purse /\ Reserved
  <2> SUFFICES ASSUME Init PROVE AgentInv /\ Purse /\ Reserved
    OBVIOUS
  <2>1. AgentInv /\ Purse
    BY InitOK, AgentAssumption DEF Init, Purse
  <2>2. InFlight = {}
    BY DEF Init, InFlight, Idle
  <2>3. Cardinality(InFlight) = 0
    BY <2>2, FS_EmptySet
  <2>4. Cardinality(Agents) \in Nat /\ MaxCost * Cardinality(Agents) \in Nat
    BY AgentsCounted, AgentAssumption, Products
  <2>5. spent = 0 /\ 0 < TopCap /\ MaxCost * 0 = 0 /\ TopCap \in Nat
    BY AgentAssumption DEF Init
  <2> QED
    BY <2>1, <2>3, <2>4, <2>5 DEF Reserved
<1>2. AgentInv /\ Purse /\ Reserved /\ [Next]_vars => (AgentInv /\ Purse /\ Reserved)'
  BY AgentStep, PurseStep, ReservedStep
<1>3. Purse /\ Reserved => SpendBounded
  <2> SUFFICES ASSUME Purse, Reserved PROVE SpendBounded
    OBVIOUS
  <2>1. Cardinality(InFlight) \in Nat /\ Cardinality(Agents) \in Nat
    BY AgentsCounted DEF InFlight
  <2>2. MaxCost * Cardinality(InFlight) \in Nat /\ MaxCost * Cardinality(Agents) \in Nat
    BY <2>1, AgentAssumption, Products
  <2> QED
    BY <2>2, AgentAssumption DEF Purse, Reserved, SpendBounded
<1> QED
  BY <1>1, <1>2, <1>3, PTL DEF Spec

----------------------------------------------------------------------------
(* The transcript.  An agent that runs keeps it Paired; it is Closed except  *)
(* while the tools of the last message are called, when the results there    *)
(* are and the tool uses left are together those of that message.            *)

Answering(s) ==
    /\ Paired(s.messages)
    /\ s.messages[Len(s.messages)].uses # <<>>
    /\ s.messages[Len(s.messages)].uses = s.blocks \o IdsOf(s.todo)

Conversing(s) ==
    /\ s.pc \in {"dispatch", "retry"} => Answering(s)
    /\ s.pc \notin {"new", "idle", "dispatch", "retry"} => Paired(s.messages) /\ Closed(s.messages)

Conversation == \A a \in Agents : Conversing(agent[a])

\* No reply is cut off inside a tool call.
NoCutoffs == Cutoffs \subseteq {<<>>}

\* `run` is given nothing, or a transcript whose tool calls are all answered.
AnsweredHistory == History = <<>> \/ (Paired(History) /\ Closed(History))

LEMMA ContinueTalks ==
    ASSUME NEW a \in Agents, NEW s, s \in AgentState, Paired(s.messages), Closed(s.messages)
    PROVE  Conversing(Continue(s, a))
<1>1. CASE s.turn < MaxTurns[a]
  <2> DEFINE n == [s EXCEPT !.pc = "turn", !.turn = @ + 1]
  <2>1. n.pc = "turn" /\ n.messages = s.messages
    BY DEF AgentState
  <2>2. Continue(s, a) = n
    BY <1>1 DEF Continue
  <2> HIDE DEF n
  <2> QED
    BY <2>1, <2>2 DEF Conversing
<1>2. CASE ~(s.turn < MaxTurns[a])
  <2>1. Continue(s, a).pc = "idle"
    BY <1>2, Places DEF Continue
  <2> QED
    BY <2>1 DEF Conversing
<1> QED
  BY <1>1, <1>2

LEMMA PushBackTalks ==
    ASSUME NEW a \in Agents, NEW s, s \in AgentState, Paired(s.messages), Closed(s.messages)
    PROVE  Conversing(push_back(s, a))
<1> DEFINE m == text_turn("feedback")
           messages == Append(s.messages, m)
           n == [s EXCEPT !.messages = messages]
<1>1. m \in Message /\ m.results = <<>> /\ m.uses = <<>>
  BY MessageTypes DEF Kind, text_turn
<1>2. s.messages \in Seq(Message)
  BY DEF AgentState
<1> HIDE DEF m
<1>3. messages \in Seq(Message) /\ Paired(messages) /\ Closed(messages)
  BY <1>1, <1>2, AppendKeepsPairs
<1>4. push_back(s, a) = Continue(n, a)
  BY DEF push_back, m
<1> HIDE DEF messages
<1>5. n \in AgentState /\ n.messages = messages
  BY <1>3 DEF AgentState
<1> HIDE DEF n
<1> QED
  BY <1>3, <1>4, <1>5, ContinueTalks

LEMMA MoveHead ==
    ASSUME NEW S, NEW b \in Seq(S), NEW q \in Seq(S), q # <<>>
    PROVE  Append(b, Head(q)) \o Tail(q) = b \o q
<1>1. Head(q) \in S /\ Tail(q) \in Seq(S) /\ Head(q) = q[1] /\ Len(q) \in Nat \ {0}
  BY EmptySeq
<1>2. Tail(q) = SubSeq(q, 2, Len(q))
  BY TailIsSubSeq
<1>3. SubSeq(q, 1, Len(q)) = <<q[1]>> \o SubSeq(q, 1 + 1, Len(q)) /\ 1 + 1 = 2
  <2>1. 1 \in 1..Len(q) /\ Len(q) \in 1..Len(q)
    BY <1>1
  <2> QED
    BY <2>1, SubSeqRecursiveFirst
<1>4. q = <<Head(q)>> \o Tail(q)
  BY <1>1, <1>2, <1>3, SubSeqFull
<1>5. Append(b, Head(q)) = b \o <<Head(q)>>
  BY <1>1, AppendIsConcat
<1>6. <<Head(q)>> \in Seq(S)
  BY <1>1
<1>7. (b \o <<Head(q)>>) \o Tail(q) = b \o (<<Head(q)>> \o Tail(q))
  BY <1>1, <1>6, ConcatAssociative
<1> QED
  BY <1>4, <1>5, <1>7

LEMMA IdsOfUses ==
    ASSUME NEW q \in Seq(Use)
    PROVE  /\ IdsOf(q) \in Seq(Ids) /\ Len(IdsOf(q)) = Len(q)
           /\ \A i \in 1..Len(q) : IdsOf(q)[i] = q[i].id
<1>1. Len(q) \in Nat /\ DOMAIN q = 1..Len(q)
  OBVIOUS
<1>2. \A i \in 1..Len(q) : q[i].id \in Ids
  <2>1. \A i \in 1..Len(q) : q[i] \in Use
    OBVIOUS
  <2> QED
    BY <2>1 DEF Use
<1>3. IdsOf(q) = [i \in 1..Len(q) |-> q[i].id]
  BY <1>1 DEF IdsOf
<1>4. IdsOf(q) \in [1..Len(q) -> Ids]
  BY <1>2, <1>3
<1> QED
  BY <1>1, <1>3, <1>4, IsASeq, LenProperties

LEMMA IdsOfTail ==
    ASSUME NEW q \in Seq(Use), q # <<>>
    PROVE  /\ IdsOf(q) # <<>> /\ Head(IdsOf(q)) = Head(q).id
           /\ Tail(IdsOf(q)) = IdsOf(Tail(q))
<1> DEFINE ids == IdsOf(q)
           rest == IdsOf(Tail(q))
<1>1. /\ Len(q) \in Nat \ {0} /\ Head(q) = q[1]
      /\ Tail(q) \in Seq(Use) /\ Len(Tail(q)) = Len(q) - 1
      /\ \A i \in 1..(Len(q) - 1) : Tail(q)[i] = q[i + 1]
  BY EmptySeq
<1>2. ids \in Seq(Ids) /\ Len(ids) = Len(q) /\ \A i \in 1..Len(q) : ids[i] = q[i].id
  BY IdsOfUses
<1>3. rest \in Seq(Ids) /\ Len(rest) = Len(q) - 1
      /\ \A i \in 1..(Len(q) - 1) : rest[i] = Tail(q)[i].id
  <2>1. /\ rest \in Seq(Ids) /\ Len(rest) = Len(Tail(q))
        /\ \A i \in 1..Len(Tail(q)) : rest[i] = Tail(q)[i].id
    BY <1>1, IdsOfUses
  <2> QED
    BY <1>1, <2>1
<1> HIDE DEF ids, rest
<1>4. ids # <<>> /\ Head(ids) = ids[1] /\ 1 \in 1..Len(q)
  BY <1>1, <1>2, EmptySeq
<1>5. /\ Tail(ids) \in Seq(Ids) /\ Len(Tail(ids)) = Len(q) - 1
      /\ \A i \in 1..(Len(q) - 1) : Tail(ids)[i] = ids[i + 1]
  BY <1>1, <1>2, <1>4, HeadTailProperties
<1>6. \A i \in 1..(Len(q) - 1) : i + 1 \in 1..Len(q)
  BY <1>1
<1>7. \A i \in 1..(Len(q) - 1) : Tail(ids)[i] = rest[i]
  BY <1>1, <1>2, <1>3, <1>5, <1>6
<1>8. Tail(ids) = rest
  BY <1>3, <1>5, <1>7, SeqEqual
<1> QED
  BY <1>1, <1>2, <1>4, <1>8 DEF ids, rest

\* The result of a call moves its id from the queue to the blocks.
LEMMA AnsweredTalks ==
    ASSUME NEW s, s \in AgentState, Answering(s), s.todo # <<>>
    PROVE  Conversing(Answered(s))
<1> DEFINE more == Append(s.blocks, Head(s.todo).id)
<1>1. s.todo \in Seq(Use) /\ s.blocks \in Seq(Ids) /\ s.todo # <<>>
  BY DEF AgentState
<1>2. /\ IdsOf(s.todo) \in Seq(Ids) /\ IdsOf(s.todo) # <<>>
      /\ Head(IdsOf(s.todo)) = Head(s.todo).id
      /\ Tail(IdsOf(s.todo)) = IdsOf(Tail(s.todo))
  BY <1>1, IdsOfUses, IdsOfTail
<1>3. Append(s.blocks, Head(IdsOf(s.todo))) \o Tail(IdsOf(s.todo)) = s.blocks \o IdsOf(s.todo)
  BY <1>1, <1>2, MoveHead
<1>4. more \o IdsOf(Tail(s.todo)) = s.blocks \o IdsOf(s.todo)
  BY <1>2, <1>3
<1> HIDE DEF more
<1>5. /\ Answered(s).pc = "dispatch" /\ Answered(s).messages = s.messages
      /\ Answered(s).blocks = more /\ Answered(s).todo = Tail(s.todo)
  BY DEF Answered, AgentState, more
<1> QED
  BY <1>4, <1>5 DEF Conversing, Answering

LEMMA RunTalks ==
    ASSUME AgentInv, AnsweredHistory, NEW a \in Agents, run(a)
    PROVE  Conversing(agent'[a])
<1> DEFINE m == text_turn("task")
           messages == Append(History, m)
<1>1. m \in Message /\ m.results = <<>> /\ m.uses = <<>>
  BY MessageTypes DEF Kind, text_turn
<1>2. History \in Seq(Message)
  BY AgentAssumption
<1> HIDE DEF m
<1>3. Paired(messages) /\ Closed(messages)
  <2>1. CASE History = <<>>
    <3>1. messages = <<m>>
      BY <2>1
    <3>2. /\ Len(messages) = 1 /\ messages[1] = m /\ messages # <<>>
          /\ \A i \in 1..Len(messages) : i = 1
      BY <3>1
    <3> HIDE DEF messages
    <3> QED
      BY <1>1, <3>2 DEF Paired, Closed
  <2>2. CASE Paired(History) /\ Closed(History)
    BY <1>1, <1>2, <2>2, AppendKeepsPairs
  <2> QED
    BY <2>1, <2>2 DEF AnsweredHistory
<1>4. agent'[a].messages = messages /\ agent'[a].pc = "turn"
  BY DEF run, Idle, AgentInv, m
<1> QED
  BY <1>3, <1>4 DEF Conversing

LEMMA CompactionTalks ==
    ASSUME AgentInv, NEW a \in Agents, Conversing(agent[a]), compaction(a)
    PROVE  Conversing(agent'[a])
<1> DEFINE messages == agent[a].messages
<1>1. messages \in Seq(Message) /\ can_compact(messages) /\ agent[a].pc = "turn"
  BY AgentFacts DEF AgentState, compaction
<1>2. Paired(compact(messages)) /\ Closed(compact(messages))
  BY <1>1, CompactKeepsPairs DEF Conversing
<1>3. agent'[a].messages = compact(messages) /\ agent'[a].pc = "compacted"
  BY AgentFacts DEF compaction, AgentInv, AgentState
<1> QED
  BY <1>2, <1>3 DEF Conversing

LEMMA CallModelTalks ==
    ASSUME AgentInv, NEW a \in Agents, Conversing(agent[a]), call_model(a)
    PROVE  Conversing(agent'[a])
<1>1. /\ agent'[a].messages = agent[a].messages
      /\ agent'[a].pc \in {"calling", "probing"}
      /\ agent[a].pc \in {"turn", "compacted", "probe"}
  BY AgentFacts DEF call_model, AgentInv, AgentState
<1> QED
  BY <1>1 DEF Conversing

LEMMA WantsToolsTalks ==
    ASSUME AgentInv, NEW a \in Agents, Conversing(agent[a]), wants_tools(a)
    PROVE  Conversing(agent'[a])
<1>0. agent[a] \in AgentState /\ agent[a].pc = "calling"
  BY AgentFacts DEF wants_tools
<1>1. PICK tools \in Requests :
         agent' = [agent EXCEPT
             ![a].messages = Append(@, assistant_turn(IdsOf(UsesOf(a, tools)))),
             ![a].todo = UsesOf(a, tools), ![a].blocks = <<>>,
             ![a].escalate = FALSE, ![a].pc = "dispatch"]
  BY DEF wants_tools
<1> DEFINE ids == IdsOf(UsesOf(a, tools))
           m == assistant_turn(ids)
           messages == Append(agent[a].messages, m)
<1>2. ids \in Seq(Ids) /\ ids # <<>>
  <2>1. tools \in Seq(Tools) /\ tools # <<>>
    BY AgentAssumption
  <2> QED
    BY <2>1, UsesTypes
<1>3. /\ agent'[a].pc = "dispatch" /\ agent'[a].messages = messages
      /\ agent'[a].blocks = <<>> /\ IdsOf(agent'[a].todo) = ids
  BY <1>0, <1>1 DEF AgentInv, AgentState
<1> HIDE DEF ids
<1>4. m \in Message /\ m.results = <<>> /\ m.uses = ids
  BY <1>2, MessageTypes DEF assistant_turn
<1> HIDE DEF m
<1>5. agent[a].messages \in Seq(Message)
  BY <1>0 DEF AgentState
<1>6. Paired(messages)
  BY <1>0, <1>4, <1>5, AppendKeepsPairs DEF Conversing
<1>7. messages[Len(messages)] = m
  BY <1>4, <1>5, AppendProperties
<1>8. <<>> \o ids = ids
  BY <1>2, ConcatEmptySeq
<1> HIDE DEF messages
<1>9. Answering(agent'[a])
  BY <1>2, <1>3, <1>4, <1>6, <1>7, <1>8 DEF Answering
<1> QED
  BY <1>3, <1>9 DEF Conversing

LEMMA CandidateTalks ==
    ASSUME AgentInv, NoCutoffs, NEW a \in Agents, Conversing(agent[a]), candidate(a)
    PROVE  Conversing(agent'[a])
<1>0. agent[a] \in AgentState /\ agent[a].pc = "calling"
  BY AgentFacts DEF candidate
<1>1. PICK tools \in Cutoffs \cup {<<>>}, holds \in SUBSET Quality :
         agent' = [agent EXCEPT
             ![a].messages = Append(@, assistant_turn(IdsOf(UsesOf(a, tools)))),
             ![a].artifact = [turn |-> agent[a].turn, holds |-> holds],
             ![a].pc = IF SelfCheck[a] THEN "probe" ELSE "verify"]
  BY DEF candidate
<1> DEFINE ids == IdsOf(UsesOf(a, tools))
           m == assistant_turn(ids)
           messages == Append(agent[a].messages, m)
<1>2. ids = <<>>
  <2>1. tools = <<>> /\ tools \in Seq(Tools) /\ Len(tools) = 0
    <3>1. tools \in Cutoffs \cup {<<>>} /\ Cutoffs \subseteq {<<>>}
      BY DEF NoCutoffs
    <3>2. tools = <<>>
      BY <3>1, Zenon
    <3> QED
      BY <3>2, EmptySeq
  <2>2. ids \in Seq(Ids) /\ Len(ids) = 0
    BY <2>1, UsesTypes
  <2> HIDE DEF ids
  <2> QED
    BY <2>2, EmptySeq
<1>3. agent'[a].pc \in {"probe", "verify"} /\ agent'[a].messages = messages
  BY <1>0, <1>1 DEF AgentInv, AgentState
<1> HIDE DEF ids
<1>4. m \in Message /\ m.results = <<>> /\ m.uses = <<>>
  <2>1. <<>> \in Seq(Ids)
    OBVIOUS
  <2> QED
    BY <1>2, <2>1, MessageTypes DEF assistant_turn
<1> HIDE DEF m
<1>5. agent[a].messages \in Seq(Message)
  BY <1>0 DEF AgentState
<1>6. Paired(messages) /\ Closed(messages)
  BY <1>0, <1>4, <1>5, AppendKeepsPairs DEF Conversing
<1> QED
  BY <1>3, <1>6 DEF Conversing

LEMMA ToolTalks ==
    ASSUME AgentInv, NEW a \in Agents, Conversing(agent[a]),
           tool_succeeds(a) \/ tool_fails(a) \/ retry(a)
    PROVE  Conversing(agent'[a])
<1> DEFINE s == agent[a]
           Same(t) == /\ t \in AgentState /\ t.messages = s.messages
                      /\ t.blocks = s.blocks /\ t.todo = s.todo
<1>0. s \in AgentState /\ s.pc \in {"dispatch", "retry"} /\ s.todo # <<>> /\ Answering(s)
  BY AgentFacts DEF tool_succeeds, tool_fails, retry, AgentOK, Conversing
<1>1. ASSUME NEW t, Same(t) PROVE Conversing(Answered(t))
  BY <1>0, <1>1, AnsweredTalks DEF Answering
<1>2. ASSUME NEW t, Same(t)
      PROVE  /\ \A n \in Nat : Same([t EXCEPT !.streak = n]) /\ Same([t EXCEPT !.consecutive = n])
             /\ Same([t EXCEPT !.escalate = TRUE])
             /\ Same([t EXCEPT !.pc = "retry"])
             /\ \A r \in [Tools -> Nat] : Same([t EXCEPT !.retries = r])
  <2> HIDE DEF s
  <2>1. "retry" \in PC
    BY DEF PC
  <2>2. t \in AgentState /\ t.messages = s.messages /\ t.blocks = s.blocks /\ t.todo = s.todo
    BY <1>2
  <2>3. ASSUME NEW n \in Nat
        PROVE  Same([t EXCEPT !.streak = n]) /\ Same([t EXCEPT !.consecutive = n])
    BY <2>2 DEF AgentState
  <2>4. Same([t EXCEPT !.escalate = TRUE]) /\ Same([t EXCEPT !.pc = "retry"])
    BY <2>1, <2>2 DEF AgentState
  <2>5. ASSUME NEW r \in [Tools -> Nat] PROVE Same([t EXCEPT !.retries = r])
    BY <2>2 DEF AgentState
  <2> QED
    BY <2>3, <2>4, <2>5
<1>3. Same(s) /\ s.streak + 1 \in Nat /\ s.consecutive + 1 \in Nat /\ 0 \in Nat
  BY <1>0 DEF AgentState
<1>4. CASE tool_succeeds(a)
  <2> DEFINE t == [s EXCEPT !.consecutive = 0]
  <2>1. agent'[a] = Answered([t EXCEPT !.streak = 0])
    BY <1>4 DEF tool_succeeds, on_success, AgentInv
  <2> HIDE DEF Same, s
  <2>2. Same([t EXCEPT !.streak = 0])
    BY <1>2, <1>3
  <2> QED
    BY <1>1, <2>1, <2>2
<1>5. CASE retry(a)
  <2> DEFINE t == [s EXCEPT !.consecutive = 0]
             n == s.streak + 1
  <2>1. PICK outcome : agent'[a] = Answered(Retried(s, outcome))
    BY <1>5 DEF retry, AgentInv
  <2>2. Retried(s, outcome) = [t EXCEPT !.streak = 0] \/ Retried(s, outcome) = [s EXCEPT !.streak = n]
    BY DEF Retried, on_success
  <2>3. n \in Nat
    BY <1>3
  <2> HIDE DEF Same, s, n
  <2>4. Same([t EXCEPT !.streak = 0]) /\ Same([s EXCEPT !.streak = n])
    BY <1>2, <1>3, <2>3
  <2> QED
    BY <1>1, <2>1, <2>2, <2>4
<1>6. CASE tool_fails(a)
  <2> DEFINE tool == Head(s.todo).tool
             action(class) == decide(s, tool, class)
             d(class) == Decided(s, tool, action(class))
             f(class) == [d(class) EXCEPT !.streak = @ + 1]
  <2>1. PICK class \in ErrorClasses :
          agent'[a] = CASE action(class) = "retry"    -> [f(class) EXCEPT !.pc = "retry"]
                        [] action(class) = "escalate" -> Answered([f(class) EXCEPT !.escalate = TRUE])
                        [] OTHER                      -> Answered(f(class))
    BY <1>6 DEF tool_fails, AgentInv
  <2>2. /\ agent'[a] = [f(class) EXCEPT !.pc = "retry"]
        \/ agent'[a] = Answered([f(class) EXCEPT !.escalate = TRUE])
        \/ agent'[a] = Answered(f(class))
    BY <2>1
  <2>3. tool \in Tools
    <3>1. s.todo \in Seq(Use) /\ s.todo # <<>>
      BY <1>0 DEF AgentState
    <3>2. Head(s.todo) \in Use
      BY <3>1
    <3> QED
      BY <3>2 DEF Use
  <2>4. d(class) \in AgentState
    BY <2>3, AgentFacts, DecidedOK DEF Bounded
  <2>5. Same(d(class))
    <3>1. d(class).messages = s.messages /\ d(class).blocks = s.blocks /\ d(class).todo = s.todo
      BY <1>0 DEF Decided, AgentState
    <3> QED
      BY <2>4, <3>1
  <2> DEFINE q == d(class)
             n == q.streak + 1
             g == [q EXCEPT !.streak = n]
  <2>6. f(class) = g
    OBVIOUS
  <2>7. Same(q)
    BY <2>5
  <2> HIDE DEF d, f, q
  <2>8. n \in Nat
    BY <2>7 DEF AgentState
  <2> HIDE DEF Same, s, n
  <2>9. Same(g)
    BY <1>2, <2>7, <2>8
  <2> HIDE DEF g
  <2>10. Same([g EXCEPT !.escalate = TRUE]) /\ Same([g EXCEPT !.pc = "retry"])
    BY <1>2, <2>9
  <2>11. CASE agent'[a] = [g EXCEPT !.pc = "retry"]
    <3>1. agent'[a].pc = "retry"
      BY <2>9, <2>11 DEF Same, AgentState
    <3>2. Answering(agent'[a])
      BY <1>0, <2>10, <2>11 DEF Same, Answering
    <3> QED
      BY <3>1, <3>2 DEF Conversing
  <2>12. CASE agent'[a] = Answered([g EXCEPT !.escalate = TRUE]) \/ agent'[a] = Answered(g)
    BY <1>1, <2>9, <2>10, <2>12
  <2> QED
    BY <2>2, <2>6, <2>11, <2>12
<1> QED
  BY <1>4, <1>5, <1>6

LEMMA SendResultsTalks ==
    ASSUME AgentInv, NEW a \in Agents, Conversing(agent[a]), send_results(a)
    PROVE  Conversing(agent'[a])
<1> DEFINE blocks == agent[a].blocks
           messages == Append(agent[a].messages, tool_result_turn(blocks))
           s == [agent[a] EXCEPT !.messages = messages]
<1>0. agent[a] \in AgentState /\ agent[a].todo = <<>> /\ Answering(agent[a])
  BY AgentFacts DEF send_results, Conversing
<1>1. /\ blocks \in Seq(Ids) /\ agent[a].messages \in Seq(Message) /\ Paired(agent[a].messages)
      /\ agent[a].messages[Len(agent[a].messages)].uses = blocks /\ blocks # <<>>
  <2>1. blocks \in Seq(Ids) /\ agent[a].messages \in Seq(Message)
    BY <1>0 DEF AgentState
  <2>2. IdsOf(<<>>) = <<>>
    BY DEF IdsOf
  <2>3. blocks \o IdsOf(agent[a].todo) = blocks
    BY <1>0, <2>1, <2>2, ConcatEmptySeq
  <2> QED
    BY <1>0, <2>1, <2>3 DEF Answering
<1>2. messages \in Seq(Message) /\ Paired(messages) /\ Closed(messages)
  BY <1>1, ResultsClose
<1>3. agent'[a] = fail(s, a, "recovery_escalated", FALSE) \/ agent'[a] = Continue(s, a)
  BY DEF send_results, AgentInv
<1> HIDE DEF messages
<1>4. s \in AgentState /\ s.messages = messages
  BY <1>0, <1>2 DEF AgentState
<1> HIDE DEF s
<1>5. CASE agent'[a] = fail(s, a, "recovery_escalated", FALSE)
  <2>1. agent'[a].pc = "idle"
    BY <1>4, <1>5, Places
  <2> QED
    BY <2>1 DEF Conversing
<1>6. CASE agent'[a] = Continue(s, a)
  BY <1>2, <1>4, <1>6, ContinueTalks
<1> QED
  BY <1>3, <1>5, <1>6

LEMMA VerdictTalks ==
    ASSUME AgentInv, NEW a \in Agents, Conversing(agent[a]),
           probed(a) \/ verifier_objects(a) \/ not_done(a)
    PROVE  Conversing(agent'[a])
<1>1. /\ agent[a] \in AgentState /\ agent[a].pc \in {"probing", "verify"}
      /\ Paired(agent[a].messages) /\ Closed(agent[a].messages)
  BY AgentFacts DEF probed, verifier_objects, not_done, Conversing
<1>2. CASE agent'[a] = push_back(agent[a], a)
  BY <1>1, <1>2, PushBackTalks
<1>3. CASE probed(a)
  <2>1. CASE agent'[a] = [agent[a] EXCEPT !.pc = "verify"]
    <3>1. agent'[a].pc = "verify" /\ agent'[a].messages = agent[a].messages
      BY <1>1, <2>1 DEF AgentState
    <3> QED
      BY <1>1, <3>1 DEF Conversing
  <2> QED
    BY <1>2, <1>3, <2>1 DEF probed, AgentInv
<1>4. CASE verifier_objects(a)
  BY <1>2, <1>4 DEF verifier_objects, AgentInv
<1>5. CASE not_done(a)
  <2>1. agent[a].pc = "verify"
    BY <1>5 DEF not_done
  <2>2. Judged(a) \in AgentState
    BY <2>1, JudgedOK DEF Bounded
  <2>3. Judged(a).messages = agent[a].messages
    BY <1>1 DEF Judged, AgentState
  <2>4. agent'[a] = push_back(Judged(a), a)
    BY <1>5 DEF not_done, AgentInv
  <2> QED
    BY <1>1, <2>2, <2>3, <2>4, PushBackTalks
<1> QED
  BY <1>3, <1>4, <1>5

LEMMA EndTalks ==
    ASSUME AgentInv, NEW a \in Agents,
           construct(a) \/ budget_exhausted(a) \/ call_fails(a) \/ refused(a) \/ stops(a)
    PROVE  Conversing(agent'[a])
<1>1. agent[a] \in AgentState /\ agent \in [Agents -> AgentState]
  BY AgentFacts DEF AgentInv
<1>2. CASE construct(a)
  <2>1. agent'[a].pc = "idle"
    BY <1>1, <1>2 DEF construct, AgentState
  <2> QED
    BY <2>1 DEF Conversing
<1>3. CASE budget_exhausted(a) \/ refused(a)
  <2>1. \E why, exc : agent'[a] = fail(agent[a], a, why, exc)
    BY <1>1, <1>3 DEF budget_exhausted, refused
  <2>2. agent'[a].pc = "idle"
    BY <1>1, <2>1, Places
  <2> QED
    BY <2>2 DEF Conversing
<1>4. CASE call_fails(a) \/ stops(a)
  <2>1. \E s \in AgentState : \E result : agent'[a] = Ended(s, result)
    <3>1. CASE call_fails(a)
      BY <1>1, <3>1 DEF call_fails
    <3>2. CASE stops(a)
      <4>1. Judged(a) \in AgentState
        BY <3>2, JudgedOK DEF Bounded, stops
      <4>2. \E result : agent'[a] = Ended(Judged(a), result)
        BY <1>1, <3>2 DEF stops
      <4> QED
        BY <4>1, <4>2
    <3> QED
      BY <1>4, <3>1, <3>2
  <2>2. agent'[a].pc = "idle"
    BY <2>1, Places
  <2> QED
    BY <2>2 DEF Conversing
<1> QED
  BY <1>2, <1>3, <1>4

LEMMA ConversationStep ==
    ASSUME AgentInv, Conversation, NoCutoffs, AnsweredHistory, [Next]_vars
    PROVE  Conversation'
<1>1. CASE UNCHANGED vars
  BY <1>1 DEF vars, Conversation
<1>2. ASSUME NEW a \in Agents, construct(a) \/ run(a) \/ Step(a)
      PROVE  Conversation'
  <2>1. Conversing(agent[a])
    BY DEF Conversation
  <2>2. Conversing(agent'[a])
    <3>1. CASE run(a) \/ compaction(a) \/ call_model(a)
      BY <2>1, <3>1, RunTalks, CompactionTalks, CallModelTalks
    <3>2. CASE construct(a) \/ budget_exhausted(a) \/ call_fails(a) \/ refused(a) \/ stops(a)
      BY <3>2, EndTalks
    <3>3. CASE wants_tools(a) \/ candidate(a)
      BY <2>1, <3>3, WantsToolsTalks, CandidateTalks
    <3>4. CASE tool_succeeds(a) \/ tool_fails(a) \/ retry(a)
      BY <2>1, <3>4, ToolTalks
    <3>5. CASE send_results(a)
      BY <2>1, <3>5, SendResultsTalks
    <3>6. CASE probed(a) \/ verifier_objects(a) \/ not_done(a)
      BY <2>1, <3>6, VerdictTalks
    <3> QED
      BY <1>2, <3>1, <3>2, <3>3, <3>4, <3>5, <3>6 DEF Step
  <2>3. \A b \in Agents \ {a} : agent'[b] = agent[b]
    BY <1>2, OthersStay
  <2>4. \A b \in Agents : Conversing(agent'[b])
    <3> SUFFICES ASSUME NEW b \in Agents PROVE Conversing(agent'[b])
      OBVIOUS
    <3>1. CASE b = a
      BY <2>2, <3>1
    <3>2. CASE b # a
      <4>1. agent'[b] = agent[b]
        BY <2>3, <3>2
      <4> QED
        BY <4>1, Zenon DEF Conversation
    <3> QED
      BY <3>1, <3>2
  <2> QED
    BY <2>4 DEF Conversation
<1> QED
  BY <1>1, <1>2 DEF Next

\* Without replies cut off inside a tool call, every transcript that is sent has each
\* tool call answered by the next message, whatever is compacted, retried, escalated
\* or pushed back in between (context.py:144-211, agent.py:181-333).
THEOREM CallsAlwaysAnswered ==
    ASSUME NoCutoffs, AnsweredHistory
    PROVE  Spec => []CallsAnswered
<1>1. Init => AgentInv /\ Conversation
  <2> SUFFICES ASSUME Init PROVE AgentInv /\ Conversation
    OBVIOUS
  <2>1. \A a \in Agents : agent[a].pc = "new"
    BY DEF Init, Idle
  <2> QED
    BY <2>1, InitOK DEF Conversation, Conversing
<1>2. AgentInv /\ Conversation /\ [Next]_vars => (AgentInv /\ Conversation)'
  BY AgentStep, ConversationStep
<1>3. AgentInv /\ Conversation => CallsAnswered
  <2> SUFFICES ASSUME AgentInv, Conversation, NEW a \in Agents, agent[a].pc = "calling"
               PROVE  Accepted(agent[a].messages)
    BY DEF CallsAnswered
  <2>1. agent[a].messages \in Seq(Message)
    BY AgentFacts DEF AgentState
  <2>2. Paired(agent[a].messages) /\ Closed(agent[a].messages)
    BY DEF Conversation, Conversing
  <2> QED
    BY <2>1, <2>2, PairedIsAccepted
<1> QED
  BY <1>1, <1>2, <1>3, PTL DEF Spec

----------------------------------------------------------------------------
(* What bounds an agent that gets nowhere: it never forgets its task, and   *)
(* it is stopped when its tools keep failing. First, what a step does to    *)
(* the task and to the counters, from the state s of an agent to its state  *)
(* t.                                                                       *)

\* The counters of the policy and of the run are left alone.
Steady(s, t) ==
    /\ t.retries = s.retries /\ t.consecutive = s.consecutive
    /\ t.streak = s.streak /\ t.escalate = s.escalate

\* The transcript is kept, or grows at its end; an agent that stops needs none.
Grows(s, t) ==
    \/ t.pc = "idle"
    \/ t.messages = s.messages
    \/ \E m \in Message : t.messages = Append(s.messages, m)

LEMMA EndedTold ==
    ASSUME NEW s, s \in AgentState, NEW result
    PROVE  Steady(s, Ended(s, result)) /\ Ended(s, result).pc = "idle"
BY DEF Ended, Steady, AgentState

LEMMA FailTold ==
    ASSUME NEW s, s \in AgentState, NEW a, NEW why, NEW exc
    PROVE  Steady(s, fail(s, a, why, exc)) /\ fail(s, a, why, exc).pc = "idle"
BY EndedTold DEF fail

LEMMA ContinueTold ==
    ASSUME NEW s, s \in AgentState, NEW a
    PROVE  /\ Steady(s, Continue(s, a)) /\ Continue(s, a).pc \in {"turn", "idle"}
           /\ Continue(s, a).pc = "turn" => Continue(s, a).messages = s.messages
<1>1. CASE s.turn < MaxTurns[a]
  <2> DEFINE n == [s EXCEPT !.pc = "turn", !.turn = @ + 1]
  <2>1. Steady(s, n) /\ n.pc = "turn" /\ n.messages = s.messages
    BY DEF AgentState, Steady
  <2>2. Continue(s, a) = n
    BY <1>1 DEF Continue
  <2> HIDE DEF n
  <2> QED
    BY <2>1, <2>2
<1>2. CASE ~(s.turn < MaxTurns[a])
  BY <1>2, FailTold DEF Continue
<1> QED
  BY <1>1, <1>2

LEMMA PushBackTold ==
    ASSUME NEW s, s \in AgentState, NEW a
    PROVE  /\ Steady(s, push_back(s, a)) /\ Grows(s, push_back(s, a))
           /\ push_back(s, a).pc \in {"turn", "idle"}
<1> DEFINE m == text_turn("feedback")
           messages == Append(s.messages, m)
           n == [s EXCEPT !.messages = messages]
<1>1. push_back(s, a) = Continue(n, a)
  BY DEF push_back
<1>2. m \in Message
  BY MessageTypes DEF Kind
<1> HIDE DEF m
<1>3. messages \in Seq(Message)
  BY <1>2 DEF AgentState
<1> HIDE DEF messages
<1>4. n \in AgentState /\ n.messages = messages /\ Steady(s, n)
  BY <1>3 DEF AgentState, Steady
<1> HIDE DEF n
<1>5. Steady(n, Continue(n, a)) /\ Continue(n, a).pc \in {"turn", "idle"}
      /\ (Continue(n, a).pc = "turn" => Continue(n, a).messages = messages)
  BY <1>4, ContinueTold
<1> QED
  BY <1>1, <1>2, <1>4, <1>5 DEF Steady, Grows, messages

LEMMA JudgedTold ==
    ASSUME NEW a \in Agents, agent[a] \in AgentState
    PROVE  /\ Judged(a) \in AgentState /\ Steady(agent[a], Judged(a))
           /\ Judged(a).messages = agent[a].messages
<1> DEFINE s == agent[a]
           report == s.artifact.turn
           n == [s EXCEPT !.report = report]
<1>1. report \in Nat
  BY DEF AgentState, Artifact
<1>2. Judged(a) = s \/ Judged(a) = n
  BY DEF Judged
<1> HIDE DEF report, s
<1>3. n \in AgentState /\ Steady(s, n) /\ n.messages = s.messages
  BY <1>1 DEF AgentState, Steady, s
<1> QED
  BY <1>2, <1>3 DEF s, Steady

\* Steps that call no tool leave the counters alone.
LEMMA StepsAside ==
    ASSUME AgentInv, NEW a \in Agents,
           \/ construct(a) \/ compaction(a) \/ call_model(a) \/ budget_exhausted(a)
           \/ call_fails(a) \/ refused(a) \/ candidate(a) \/ probed(a)
           \/ verifier_objects(a) \/ stops(a) \/ not_done(a)
    PROVE  /\ Steady(agent[a], agent'[a])
           /\ agent[a].pc \notin {"idle", "dispatch", "retry"}
           /\ agent'[a].pc \notin {"new", "dispatch", "retry"}
           /\ ~compaction(a) => Grows(agent[a], agent'[a])
<1> DEFINE s == agent[a]
<1>0. s \in AgentState /\ agent \in [Agents -> AgentState]
  BY AgentFacts DEF AgentInv
<1>1. CASE construct(a) \/ call_model(a)
  BY <1>0, <1>1 DEF construct, call_model, Steady, Grows, AgentState
<1>2. CASE compaction(a)
  <2>1. agent' = [agent EXCEPT ![a].messages = compact(@), ![a].pc = "compacted"]
    BY <1>2 DEF compaction
  <2> QED
    BY <1>0, <1>2, <2>1 DEF compaction, Steady, AgentState
<1>3. CASE budget_exhausted(a) \/ refused(a)
  <2>1. \E why, exc : agent'[a] = fail(s, a, why, exc)
    BY <1>0, <1>3 DEF budget_exhausted, refused
  <2>2. Steady(s, agent'[a]) /\ agent'[a].pc = "idle"
    BY <1>0, <2>1, FailTold
  <2> QED
    BY <1>3, <2>2 DEF budget_exhausted, refused, Grows
<1>4. CASE call_fails(a)
  <2>1. \E result : agent'[a] = Ended(s, result)
    BY <1>0, <1>4 DEF call_fails
  <2>2. s.pc \in {"calling", "probing", "turn"}
    BY <1>4 DEF call_fails
  <2>3. Steady(s, agent'[a]) /\ agent'[a].pc = "idle"
    BY <1>0, <2>1, EndedTold
  <2> QED
    BY <2>2, <2>3 DEF Grows
<1>5. CASE candidate(a)
  <2>1. PICK tools \in Cutoffs \cup {<<>>}, holds \in SUBSET Quality :
           agent' = [agent EXCEPT
               ![a].messages = Append(@, assistant_turn(IdsOf(UsesOf(a, tools)))),
               ![a].artifact = [turn |-> agent[a].turn, holds |-> holds],
               ![a].pc = IF SelfCheck[a] THEN "probe" ELSE "verify"]
    BY <1>5 DEF candidate
  <2> DEFINE ids == IdsOf(UsesOf(a, tools))
             m == assistant_turn(ids)
  <2>2. tools \in Seq(Tools)
    <3>1. <<>> \in Seq(Tools)
      OBVIOUS
    <3>2. Cutoffs \cup {<<>>} \subseteq Seq(Tools)
      BY <3>1, AgentAssumption, Zenon
    <3> QED
      BY <3>2
  <2>3. ids \in Seq(Ids)
    BY <2>2, UsesTypes
  <2> HIDE DEF ids
  <2>4. m \in Message
    BY <2>3, MessageTypes
  <2> HIDE DEF m
  <2>5. /\ agent'[a].messages = Append(s.messages, m)
        /\ agent'[a].pc \in {"probe", "verify"} /\ Steady(s, agent'[a])
    BY <1>0, <2>1 DEF AgentState, Steady, m, ids
  <2> QED
    BY <1>5, <2>4, <2>5 DEF candidate, Grows
<1>6. CASE probed(a)
  <2>1. agent'[a] = [s EXCEPT !.pc = "verify"] \/ agent'[a] = push_back(s, a)
    BY <1>0, <1>6 DEF probed
  <2>2. CASE agent'[a] = [s EXCEPT !.pc = "verify"]
    BY <1>0, <1>6, <2>2 DEF probed, AgentState, Steady, Grows
  <2>3. CASE agent'[a] = push_back(s, a)
    BY <1>0, <1>6, <2>3, PushBackTold DEF probed
  <2> QED
    BY <2>1, <2>2, <2>3
<1>7. CASE verifier_objects(a)
  <2>1. agent'[a] = push_back(s, a) /\ s.pc = "verify"
    BY <1>0, <1>7 DEF verifier_objects
  <2> QED
    BY <1>0, <1>7, <2>1, PushBackTold
<1>8. CASE stops(a)
  <2>1. s.pc = "verify" /\ \E result : agent'[a] = Ended(Judged(a), result)
    BY <1>0, <1>8 DEF stops
  <2>2. Steady(s, Judged(a)) /\ Judged(a) \in AgentState
    BY <1>0, JudgedTold
  <2>3. Steady(Judged(a), agent'[a]) /\ agent'[a].pc = "idle"
    BY <2>1, <2>2, EndedTold
  <2> QED
    BY <2>1, <2>2, <2>3 DEF Steady, Grows
<1>9. CASE not_done(a)
  <2>1. s.pc = "verify" /\ agent'[a] = push_back(Judged(a), a)
    BY <1>0, <1>9 DEF not_done
  <2>2. Steady(s, Judged(a)) /\ Judged(a) \in AgentState /\ Judged(a).messages = s.messages
    BY <1>0, JudgedTold
  <2>3. /\ Steady(Judged(a), agent'[a]) /\ Grows(Judged(a), agent'[a])
        /\ agent'[a].pc \in {"turn", "idle"}
    BY <2>1, <2>2, PushBackTold
  <2> QED
    BY <2>1, <2>2, <2>3 DEF Steady, Grows
<1> QED
  BY <1>1, <1>2, <1>3, <1>4, <1>5, <1>6, <1>7, <1>8, <1>9

\* Steps that call a tool add no message, and what they do to the counters.
LEMMA StepsOfTools ==
    ASSUME AgentInv, NEW a \in Agents, tool_succeeds(a) \/ retry(a)
    PROVE  /\ agent'[a].messages = agent[a].messages /\ agent'[a].pc = "dispatch"
           /\ agent[a].pc \in {"dispatch", "retry"}
           /\ agent'[a].retries = agent[a].retries
           /\ agent'[a].escalate = agent[a].escalate
           /\ \/ agent'[a].streak = 0
              \/ /\ agent[a].pc = "retry"
                 /\ agent'[a].streak = agent[a].streak + 1
                 /\ agent'[a].consecutive = agent[a].consecutive
           /\ agent'[a].consecutive \in {0, agent[a].consecutive}
<1> DEFINE s == agent[a]
           t(c, n) == [s EXCEPT !.consecutive = c, !.streak = n]
<1>0. s \in AgentState /\ agent \in [Agents -> AgentState]
      /\ s.streak \in Nat /\ s.consecutive \in Nat
  BY AgentFacts DEF AgentInv, AgentState
<1>1. ASSUME NEW q, q \in AgentState
      PROVE  /\ Answered(q).messages = q.messages /\ Answered(q).pc = "dispatch"
             /\ Steady(q, Answered(q))
  BY <1>1 DEF Answered, AgentState, Steady
<1>2. ASSUME NEW c \in Nat, NEW n \in Nat
      PROVE  /\ t(c, n) \in AgentState /\ t(c, n).messages = s.messages
             /\ t(c, n).retries = s.retries /\ t(c, n).escalate = s.escalate
             /\ t(c, n).consecutive = c /\ t(c, n).streak = n
  BY <1>0 DEF AgentState
<1>3. CASE tool_succeeds(a)
  <2>1. agent'[a] = Answered(t(0, 0)) /\ s.pc = "dispatch"
    BY <1>0, <1>3 DEF tool_succeeds, on_success
  <2> HIDE DEF t, s
  <2> QED
    BY <1>1, <1>2, <2>1 DEF Steady, s
<1>4. CASE retry(a)
  <2>1. PICK outcome \in ErrorClasses \cup {"ok"} : agent'[a] = Answered(Retried(s, outcome))
    BY <1>0, <1>4 DEF retry
  <2>2. s.pc = "retry"
    BY <1>4 DEF retry
  <2>3. CASE outcome = "ok"
    <3>1. agent'[a] = Answered(t(0, 0))
      BY <1>0, <2>1, <2>3 DEF Retried, on_success
    <3> HIDE DEF t, s
    <3>2. /\ t(0, 0) \in AgentState /\ t(0, 0).messages = s.messages
          /\ t(0, 0).retries = s.retries /\ t(0, 0).escalate = s.escalate
          /\ t(0, 0).consecutive = 0 /\ t(0, 0).streak = 0
      BY <1>2
    <3>3. /\ agent'[a].messages = s.messages /\ agent'[a].pc = "dispatch"
          /\ agent'[a].retries = s.retries /\ agent'[a].escalate = s.escalate
          /\ agent'[a].consecutive = 0 /\ agent'[a].streak = 0
      BY <1>1, <3>1, <3>2 DEF Steady
    <3> QED
      BY <2>2, <3>3 DEF s
  <2>4. CASE outcome # "ok"
    <3> DEFINE n == s.streak + 1
               q == [s EXCEPT !.streak = n]
    <3>1. agent'[a] = Answered(q) /\ n \in Nat
      BY <1>0, <2>1, <2>4 DEF Retried
    <3> HIDE DEF n, s, t
    <3>2. /\ q \in AgentState /\ q.messages = s.messages /\ q.retries = s.retries
          /\ q.escalate = s.escalate /\ q.consecutive = s.consecutive /\ q.streak = n
      BY <1>0, <3>1 DEF AgentState
    <3> HIDE DEF q
    <3> QED
      BY <1>1, <2>2, <3>1, <3>2 DEF Steady, s, n
  <2> QED
    BY <2>3, <2>4
<1> QED
  BY <1>3, <1>4

\* A failed call counts; the policy grants a retry within its two limits, and
\* beyond the second it escalates.
LEMMA StepsOfFailure ==
    ASSUME AgentInv, NEW a \in Agents, tool_fails(a)
    PROVE  /\ agent'[a].messages = agent[a].messages
           /\ agent[a].pc = "dispatch"
           /\ agent'[a].streak = agent[a].streak + 1
           /\ agent'[a].consecutive = agent[a].consecutive + 1
           /\ \/ /\ agent'[a].pc = "dispatch"
                 /\ agent'[a].retries = agent[a].retries
                 /\ \/ agent'[a].escalate
                    \/ /\ agent'[a].escalate = agent[a].escalate
                       /\ agent[a].consecutive + 1 <= MaxConsecutive
              \/ /\ agent'[a].pc = "retry"
                 /\ agent'[a].escalate = agent[a].escalate
                 /\ agent[a].consecutive + 1 <= MaxConsecutive
                 /\ \E tool \in Tools :
                      /\ agent[a].retries[tool] < MaxRetries
                      /\ agent'[a].retries = [agent[a].retries EXCEPT ![tool] = @ + 1]
<1> DEFINE s == agent[a]
           tool == Head(s.todo).tool
           action(class) == decide(s, tool, class)
           next(class) == [Decided(s, tool, action(class)) EXCEPT !.streak = @ + 1]
<1>0. s \in AgentState /\ agent \in [Agents -> AgentState]
      /\ s.streak \in Nat /\ s.consecutive \in Nat /\ s.retries \in [Tools -> Nat]
      /\ s.pc = "dispatch" /\ s.todo # <<>> /\ MaxConsecutive \in Nat
  BY AgentFacts, AgentAssumption DEF AgentInv, AgentState, tool_fails
<1>1. PICK class \in ErrorClasses :
         agent'[a] =
               CASE action(class) = "retry"    -> [next(class) EXCEPT !.pc = "retry"]
                 [] action(class) = "escalate" -> Answered([next(class) EXCEPT !.escalate = TRUE])
                 [] OTHER                      -> Answered(next(class))
  BY <1>0 DEF tool_fails
<1>2. tool \in Tools
  <2>1. s.todo \in Seq(Use) /\ s.todo # <<>>
    BY <1>0 DEF AgentState
  <2>2. Head(s.todo) \in Use
    BY <2>1
  <2> QED
    BY <2>2 DEF Use
<1> DEFINE act == action(class)
           consecutive == s.consecutive + 1
           streak == s.streak + 1
           retries == IF act = "retry" THEN [s.retries EXCEPT ![tool] = @ + 1] ELSE s.retries
           q == [s EXCEPT !.consecutive = consecutive, !.retries = retries, !.streak = streak]
<1>3. /\ act \in {"retry", "escalate", "observe"}
      /\ act # "escalate" => consecutive <= MaxConsecutive
      /\ act = "retry" => s.retries[tool] < MaxRetries
  BY <1>0 DEF decide
<1>4. next(class) = q
  <2> DEFINE own == IF act = "retry" THEN s.retries[tool] + 1 ELSE s.retries[tool]
  <2>1. Decided(s, tool, act) = [s EXCEPT !.consecutive = consecutive,
                                          !.retries = [s.retries EXCEPT ![tool] = own]]
    BY <1>0 DEF Decided, AgentState
  <2>2. [s.retries EXCEPT ![tool] = own] = retries
    BY <1>0, <1>2
  <2> HIDE DEF act, own, retries, consecutive, s, tool
  <2> DEFINE d == [s EXCEPT !.consecutive = consecutive, !.retries = retries]
  <2>3. Decided(s, tool, act) = d
    BY <2>1, <2>2
  <2>4. d.streak = s.streak
    BY <1>0 DEF AgentState
  <2>5. [d EXCEPT !.streak = streak] = q
    BY <1>0 DEF AgentState
  <2> HIDE DEF d, q
  <2>6. next(class) = [d EXCEPT !.streak = d.streak + 1]
    BY <2>3 DEF act
  <2> QED
    BY <2>4, <2>5, <2>6
<1>5. consecutive \in Nat /\ streak \in Nat /\ retries \in [Tools -> Nat]
  BY <1>0, <1>2
<1>6. agent'[a] = CASE act = "retry"    -> [q EXCEPT !.pc = "retry"]
                    [] act = "escalate" -> Answered([q EXCEPT !.escalate = TRUE])
                    [] OTHER            -> Answered(q)
  BY <1>1, <1>4
<1>7. act = "retry" => retries = [s.retries EXCEPT ![tool] = @ + 1]
  OBVIOUS
<1>8. act # "retry" => retries = s.retries
  OBVIOUS
<1> HIDE DEF next, action, act, consecutive, streak, retries, tool
<1>9. /\ q \in AgentState /\ q.messages = s.messages /\ q.retries = retries
      /\ q.escalate = s.escalate /\ q.consecutive = consecutive /\ q.streak = streak
  BY <1>0, <1>5 DEF AgentState
<1> HIDE DEF q
<1>10. ASSUME NEW r, r \in AgentState
       PROVE  /\ Answered(r).messages = r.messages /\ Answered(r).pc = "dispatch"
              /\ Steady(r, Answered(r))
  BY <1>10 DEF Answered, AgentState, Steady
<1>11. CASE act = "retry"
  <2> DEFINE e == [q EXCEPT !.pc = "retry"]
  <2>1. agent'[a] = e
    BY <1>6, <1>11
  <2>2. e.messages = q.messages /\ Steady(q, e) /\ e.pc = "retry"
    BY <1>9 DEF Steady, AgentState
  <2> HIDE DEF e, s
  <2>3. /\ agent'[a].messages = s.messages /\ agent'[a].streak = streak
        /\ agent'[a].consecutive = consecutive /\ agent'[a].pc = "retry"
        /\ agent'[a].escalate = s.escalate /\ agent'[a].retries = retries
    BY <1>9, <2>1, <2>2 DEF Steady
  <2>4. /\ consecutive <= MaxConsecutive /\ s.retries[tool] < MaxRetries
        /\ retries = [s.retries EXCEPT ![tool] = @ + 1]
    BY <1>3, <1>7, <1>11
  <2> QED
    BY <1>0, <1>2, <2>3, <2>4 DEF s, streak, consecutive
<1>12. CASE act = "escalate"
  <2> DEFINE e == [q EXCEPT !.escalate = TRUE]
  <2>1. agent'[a] = Answered(e)
    BY <1>6, <1>12
  <2>2. /\ e \in AgentState /\ e.messages = q.messages /\ e.retries = q.retries
        /\ e.escalate /\ e.consecutive = q.consecutive /\ e.streak = q.streak
    BY <1>9 DEF AgentState
  <2> HIDE DEF e, s
  <2>3. /\ agent'[a].messages = s.messages /\ agent'[a].streak = streak
        /\ agent'[a].consecutive = consecutive /\ agent'[a].pc = "dispatch"
        /\ agent'[a].escalate /\ agent'[a].retries = s.retries
    BY <1>8, <1>9, <1>10, <1>12, <2>1, <2>2 DEF Steady
  <2> QED
    BY <1>0, <2>3 DEF s, streak, consecutive
<1>13. CASE act = "observe"
  <2>1. agent'[a] = Answered(q)
    BY <1>6, <1>13
  <2> HIDE DEF s
  <2>2. /\ agent'[a].messages = s.messages /\ agent'[a].streak = streak
        /\ agent'[a].consecutive = consecutive /\ agent'[a].pc = "dispatch"
        /\ agent'[a].escalate = s.escalate /\ agent'[a].retries = s.retries
    BY <1>8, <1>9, <1>10, <1>13, <2>1 DEF Steady
  <2> QED
    BY <1>0, <1>3, <1>13, <2>2 DEF s, streak, consecutive
<1> QED
  BY <1>3, <1>11, <1>12, <1>13

\* A run begins with its task, and with no failure in a row.
LEMMA StepsOfRun ==
    ASSUME AgentInv, NEW a \in Agents, run(a)
    PROVE  /\ agent'[a].messages = Append(History, text_turn("task"))
           /\ agent'[a].pc = "turn" /\ agent'[a].streak = 0 /\ ~agent'[a].escalate
           /\ agent'[a].retries = agent[a].retries
           /\ agent'[a].consecutive = agent[a].consecutive
BY DEF run, Idle, AgentInv

LEMMA StepsOfReply ==
    ASSUME AgentInv, NEW a \in Agents, wants_tools(a)
    PROVE  /\ Grows(agent[a], agent'[a])
           /\ agent[a].pc = "calling" /\ agent'[a].pc = "dispatch" /\ ~agent'[a].escalate
           /\ agent'[a].streak = agent[a].streak
           /\ agent'[a].retries = agent[a].retries
           /\ agent'[a].consecutive = agent[a].consecutive
<1>0. agent[a] \in AgentState /\ agent[a].pc = "calling"
  BY AgentFacts DEF wants_tools
<1>1. PICK tools \in Requests :
         agent' = [agent EXCEPT
             ![a].messages = Append(@, assistant_turn(IdsOf(UsesOf(a, tools)))),
             ![a].todo = UsesOf(a, tools), ![a].blocks = <<>>,
             ![a].escalate = FALSE, ![a].pc = "dispatch"]
  BY DEF wants_tools
<1> DEFINE ids == IdsOf(UsesOf(a, tools))
           m == assistant_turn(ids)
<1>2. ids \in Seq(Ids)
  <2>1. tools \in Seq(Tools)
    BY AgentAssumption
  <2> QED
    BY <2>1, UsesTypes
<1>3. /\ agent'[a].messages = Append(agent[a].messages, m)
      /\ agent'[a].pc = "dispatch" /\ ~agent'[a].escalate
      /\ agent'[a].streak = agent[a].streak
      /\ agent'[a].retries = agent[a].retries
      /\ agent'[a].consecutive = agent[a].consecutive
  BY <1>0, <1>1 DEF AgentInv, AgentState
<1> HIDE DEF ids
<1>4. m \in Message
  BY <1>2, MessageTypes
<1> HIDE DEF m
<1> QED
  BY <1>0, <1>3, <1>4 DEF Grows

LEMMA StepsOfResults ==
    ASSUME AgentInv, NEW a \in Agents, send_results(a)
    PROVE  /\ Grows(agent[a], agent'[a]) /\ Steady(agent[a], agent'[a])
           /\ agent[a].pc = "dispatch" /\ agent'[a].pc \in {"turn", "idle"}
           /\ agent'[a].pc = "turn" => ~agent[a].escalate
<1> DEFINE blocks == agent[a].blocks
           m == tool_result_turn(blocks)
           messages == Append(agent[a].messages, m)
           s == [agent[a] EXCEPT !.messages = messages]
<1>0. agent[a] \in AgentState /\ agent[a].pc = "dispatch"
  BY AgentFacts DEF send_results
<1>1. blocks \in Seq(Ids) /\ agent[a].messages \in Seq(Message)
  BY <1>0 DEF AgentState
<1>2. agent'[a] = IF s.escalate THEN fail(s, a, "recovery_escalated", FALSE) ELSE Continue(s, a)
  BY DEF send_results, AgentInv
<1> HIDE DEF blocks
<1>3. m \in Message
  BY <1>1, MessageTypes
<1> HIDE DEF m
<1>4. messages \in Seq(Message)
  BY <1>1, <1>3
<1> HIDE DEF messages
<1>5. s \in AgentState /\ s.messages = messages /\ Steady(agent[a], s)
  BY <1>0, <1>4 DEF AgentState, Steady
<1> HIDE DEF s
<1>6. CASE s.escalate
  <2>1. Steady(s, agent'[a]) /\ agent'[a].pc = "idle"
    BY <1>2, <1>5, <1>6, FailTold
  <2> QED
    BY <1>0, <1>5, <2>1 DEF Steady, Grows
<1>7. CASE ~s.escalate
  <2>1. /\ Steady(s, agent'[a]) /\ agent'[a].pc \in {"turn", "idle"}
        /\ agent'[a].pc = "turn" => agent'[a].messages = s.messages
    BY <1>2, <1>5, <1>7, ContinueTold
  <2>2. Grows(agent[a], agent'[a])
    BY <1>3, <1>5, <2>1 DEF Grows, messages
  <2> QED
    BY <1>0, <1>5, <1>7, <2>1, <2>2 DEF Steady
<1> QED
  BY <1>6, <1>7

\* Every step of an agent but those that are told above one by one.
LEMMA StepKinds ==
    ASSUME NEW a \in Agents, construct(a) \/ run(a) \/ Step(a)
    PROVE  \/ \/ construct(a) \/ compaction(a) \/ call_model(a) \/ budget_exhausted(a)
              \/ call_fails(a) \/ refused(a) \/ candidate(a) \/ probed(a)
              \/ verifier_objects(a) \/ stops(a) \/ not_done(a)
           \/ run(a) \/ wants_tools(a) \/ tool_succeeds(a) \/ retry(a) \/ tool_fails(a)
           \/ send_results(a)
BY DEF Step

----------------------------------------------------------------------------
(* The task.                                                                *)

\* The transcript of a running agent begins with its task.
OnTask(s) ==
    s.pc \notin {"new", "idle"} => s.messages # <<>> /\ s.messages[1].kind = "task"

LEMMA GrowthKeepsTask ==
    ASSUME NEW s, s \in AgentState, NEW t, OnTask(s), s.pc \notin {"new", "idle"}, Grows(s, t)
    PROVE  OnTask(t)
<1>1. s.messages \in Seq(Message) /\ s.messages # <<>> /\ s.messages[1].kind = "task"
  BY DEF AgentState, OnTask
<1>2. CASE t.pc = "idle"
  BY <1>2 DEF OnTask
<1>3. CASE t.messages = s.messages
  BY <1>1, <1>3 DEF OnTask
<1>4. ASSUME NEW m \in Message, t.messages = Append(s.messages, m) PROVE OnTask(t)
  <2>1. Len(s.messages) \in Nat \ {0}
    BY <1>1, EmptySeq
  <2>2. t.messages[1] = s.messages[1] /\ t.messages # <<>>
    BY <1>1, <1>4, <2>1, AppendProperties
  <2> QED
    BY <1>1, <2>2 DEF OnTask
<1> QED
  BY <1>2, <1>3, <1>4 DEF Grows

LEMMA TaskStep ==
    ASSUME AgentInv, \A a \in Agents : OnTask(agent[a]), History = <<>>, [Next]_vars
    PROVE  \A a \in Agents : OnTask(agent'[a])
<1>1. CASE UNCHANGED vars
  BY <1>1 DEF vars
<1>2. ASSUME NEW a \in Agents, construct(a) \/ run(a) \/ Step(a)
      PROVE  \A b \in Agents : OnTask(agent'[b])
  <2> DEFINE s == agent[a]
  <2>1. s \in AgentState /\ OnTask(s)
    BY AgentFacts
  <2>2. CASE construct(a)
    <3>1. agent'[a].pc = "idle"
      BY <2>1, <2>2 DEF construct, AgentInv, AgentState
    <3> QED
      BY <1>2, <3>1, OthersStay DEF OnTask
  <2>3. CASE run(a)
    <3>1. agent'[a].messages = Append(<<>>, text_turn("task"))
      BY <2>3, StepsOfRun
    <3>2. agent'[a].messages = <<text_turn("task")>>
      BY <3>1
    <3>3. OnTask(agent'[a])
      BY <3>2 DEF OnTask, text_turn
    <3> QED
      BY <1>2, <3>3, OthersStay
  <2>4. CASE compaction(a)
    <3>1. s.messages \in Seq(Message) /\ can_compact(s.messages) /\ s.pc = "turn"
          /\ agent'[a].messages = compact(s.messages)
      BY <2>1, <2>4 DEF compaction, AgentInv, AgentState
    <3>2. /\ compact(s.messages)[1] = s.messages[1]
          /\ compact(s.messages) \in Seq(Message)
          /\ Len(compact(s.messages)) = 3 + Len(s.messages) - Cut(s.messages)
      BY <3>1, CompactShape
    <3>3. compact(s.messages) # <<>>
      <4>1. Cut(s.messages) \in 2..Len(s.messages) /\ Len(s.messages) \in Nat
        BY <3>1, CutIsSafe
      <4>2. Len(compact(s.messages)) # 0
        BY <3>2, <4>1
      <4> QED
        BY <4>2, EmptySeq
    <3>4. OnTask(agent'[a])
      BY <2>1, <3>1, <3>2, <3>3 DEF OnTask
    <3> QED
      BY <1>2, <3>4, OthersStay
  <2>5. ASSUME Grows(s, agent'[a]), s.pc \notin {"new", "idle"}
        PROVE  \A b \in Agents : OnTask(agent'[b])
    <3>1. OnTask(agent'[a])
      BY <2>1, <2>5, GrowthKeepsTask
    <3> QED
      BY <1>2, <3>1, OthersStay
  <2>6. CASE tool_succeeds(a) \/ retry(a) \/ tool_fails(a)
    <3>1. agent'[a].messages = s.messages /\ s.pc \in {"dispatch", "retry"}
      BY <2>6, StepsOfTools, StepsOfFailure
    <3> QED
      BY <2>5, <3>1 DEF Grows
  <2>7. CASE wants_tools(a) \/ send_results(a)
    <3>1. Grows(s, agent'[a]) /\ s.pc \in {"calling", "dispatch"}
      BY <2>7, StepsOfReply, StepsOfResults
    <3> QED
      BY <2>5, <3>1
  <2>8. CASE \/ call_model(a) \/ budget_exhausted(a)
             \/ call_fails(a) \/ refused(a) \/ candidate(a) \/ probed(a)
             \/ verifier_objects(a) \/ stops(a) \/ not_done(a)
    <3>1. s.pc \in {"turn", "compacted", "calling", "probe", "probing", "verify"}
      BY <2>8 DEF call_model, budget_exhausted, call_fails, refused, candidate, probed,
                  verifier_objects, stops, not_done
    <3>2. ~compaction(a) => Grows(s, agent'[a])
      BY <2>8, StepsAside
    <3> QED
      BY <2>4, <2>5, <3>1, <3>2
  <2> QED
    BY <1>2, <2>2, <2>3, <2>4, <2>6, <2>7, <2>8, StepKinds
<1> QED
  BY <1>1, <1>2 DEF Next

\* No compaction loses the task of a run that is given no history: its first message
\* is the task, and is kept whatever is folded behind it (context.py:144-186).
THEOREM GoalAlwaysSurvives ==
    ASSUME History = <<>>
    PROVE  Spec => []GoalSurvives
<1> DEFINE Inv == AgentInv /\ \A a \in Agents : OnTask(agent[a])
<1>1. Init => Inv
  BY InitOK DEF Init, Idle, OnTask
<1>2. Inv /\ [Next]_vars => Inv'
  BY AgentStep, TaskStep
<1>3. Inv => GoalSurvives
  <2> SUFFICES ASSUME Inv, NEW a \in Agents, agent[a].pc = "calling"
               PROVE  \E i \in DOMAIN agent[a].messages : agent[a].messages[i].kind = "task"
    BY DEF GoalSurvives
  <2>1. /\ agent[a].messages \in Seq(Message) /\ agent[a].messages # <<>>
        /\ agent[a].messages[1].kind = "task"
    BY AgentFacts DEF AgentState, OnTask
  <2>2. 1 \in DOMAIN agent[a].messages
    BY <2>1, EmptySeq
  <2> QED
    BY <2>1, <2>2
<1> QED
  BY <1>1, <1>2, <1>3, PTL DEF Spec

----------------------------------------------------------------------------
(* The two limits.  `streak` counts what `consecutive` counts, and failed   *)
(* retries besides; each of those was granted, and the grants are never     *)
(* given back, so their number bounds the difference.                       *)

\* The retries the policy has granted so far, one by one.
Granted(retries) == {p \in Tools \X (1..MaxRetries) : p[2] <= retries[p[1]]}

Paced(s) ==
    /\ s.streak + (IF s.pc = "retry" THEN 1 ELSE 0) <= s.consecutive + Cardinality(Granted(s.retries))
    /\ s.pc = "retry" => s.consecutive <= MaxConsecutive
    /\ ~s.escalate => s.streak = 0 \/ s.consecutive <= MaxConsecutive
    /\ s.pc \notin {"idle", "dispatch", "retry"} => ~s.escalate

LEMMA GrantsAreFew ==
    ASSUME NEW retries
    PROVE  /\ IsFiniteSet(Granted(retries)) /\ Cardinality(Granted(retries)) \in Nat
           /\ Cardinality(Granted(retries)) <= MaxRetries * Cardinality(Tools)
<1> DEFINE Grants == Tools \X (1..MaxRetries)
<1>1. IsFiniteSet(Tools) /\ MaxRetries \in Nat
  BY AgentAssumption
<1>2. IsFiniteSet(1..MaxRetries) /\ Cardinality(1..MaxRetries) = MaxRetries
  BY <1>1, FS_Interval
<1>3. IsFiniteSet(Grants) /\ Cardinality(Grants) = Cardinality(Tools) * Cardinality(1..MaxRetries)
  BY <1>1, <1>2, FS_Product
<1>4. Cardinality(Tools) \in Nat
  BY <1>1, FS_CardinalityType
<1>5. Cardinality(Tools) * MaxRetries = MaxRetries * Cardinality(Tools)
  BY <1>1, <1>4
<1>6. Granted(retries) \in SUBSET Grants
  BY DEF Granted
<1> HIDE DEF Grants
<1>7. IsFiniteSet(Granted(retries)) /\ Cardinality(Granted(retries)) <= Cardinality(Grants)
  BY <1>3, <1>6, FS_Subset
<1> QED
  BY <1>2, <1>3, <1>5, <1>7, FS_CardinalityType

LEMMA GrantIsNew ==
    ASSUME NEW retries \in [Tools -> Nat], NEW tool \in Tools, retries[tool] < MaxRetries
    PROVE  Cardinality(Granted([retries EXCEPT ![tool] = @ + 1])) = Cardinality(Granted(retries)) + 1
<1> DEFINE more == [retries EXCEPT ![tool] = @ + 1]
           grant == <<tool, retries[tool] + 1>>
<1>1. MaxRetries \in Nat /\ retries[tool] \in Nat
  BY AgentAssumption
<1>2. grant \in Tools \X (1..MaxRetries) /\ grant \notin Granted(retries)
  BY <1>1 DEF Granted
<1>3. Granted(more) = Granted(retries) \cup {grant}
  <2>1. ASSUME NEW p \in Tools \X (1..MaxRetries)
        PROVE  p \in Granted(more) <=> p \in Granted(retries) \cup {grant}
    <3>1. p[1] \in Tools /\ p[2] \in 1..MaxRetries /\ p = <<p[1], p[2]>>
      OBVIOUS
    <3>2. CASE p[1] # tool
      <4>1. more[p[1]] = retries[p[1]] /\ p # grant
        BY <3>1, <3>2
      <4> QED
        BY <4>1 DEF Granted
    <3>3. CASE p[1] = tool
      <4>1. more[p[1]] = retries[tool] + 1 /\ (p = grant <=> p[2] = retries[tool] + 1)
        BY <3>1, <3>3
      <4>2. p[2] <= retries[tool] + 1 <=> (p[2] <= retries[tool] \/ p[2] = retries[tool] + 1)
        BY <1>1, <3>1
      <4> QED
        BY <3>3, <4>1, <4>2 DEF Granted
    <3> QED
      BY <3>2, <3>3
  <2>2. Granted(more) \subseteq Tools \X (1..MaxRetries)
        /\ Granted(retries) \cup {grant} \subseteq Tools \X (1..MaxRetries)
    BY <1>2 DEF Granted
  <2> HIDE DEF more, grant
  <2> QED
    BY <2>1, <2>2
<1> HIDE DEF more, grant
<1>4. IsFiniteSet(Granted(retries))
  BY GrantsAreFew
<1>5. Cardinality(Granted(more)) = Cardinality(Granted(retries)) + 1
  BY <1>2, <1>3, <1>4, FS_AddElement
<1> QED
  BY <1>5 DEF more

LEMMA PaceStep ==
    ASSUME AgentInv, \A a \in Agents : Paced(agent[a]), [Next]_vars
    PROVE  \A a \in Agents : Paced(agent'[a])
<1>1. CASE UNCHANGED vars
  BY <1>1 DEF vars
<1>2. ASSUME NEW a \in Agents, construct(a) \/ run(a) \/ Step(a)
      PROVE  \A b \in Agents : Paced(agent'[b])
  <2> DEFINE s == agent[a]
             t == agent'[a]
             granted == Cardinality(Granted(s.retries))
  <2>1. /\ Paced(s) /\ granted \in Nat /\ MaxConsecutive \in Nat
        /\ s.streak \in Nat /\ s.consecutive \in Nat /\ s.retries \in [Tools -> Nat]
    BY AgentFacts, AgentAssumption, GrantsAreFew DEF AgentState
  <2>2. SUFFICES Paced(t)
    BY <1>2, OthersStay
  <2>3. CASE \/ construct(a) \/ compaction(a) \/ call_model(a) \/ budget_exhausted(a)
             \/ call_fails(a) \/ refused(a) \/ candidate(a) \/ probed(a)
             \/ verifier_objects(a) \/ stops(a) \/ not_done(a)
    <3>1. /\ Steady(s, t) /\ s.pc \notin {"idle", "dispatch", "retry"}
          /\ t.pc \notin {"new", "dispatch", "retry"}
      BY <2>3, StepsAside
    <3> QED
      BY <2>1, <3>1 DEF Paced, Steady
  <2>4. CASE run(a)
    <3>1. /\ t.pc = "turn" /\ t.streak = 0 /\ ~t.escalate
          /\ t.retries = s.retries /\ t.consecutive = s.consecutive
      BY <2>4, StepsOfRun
    <3> QED
      BY <2>1, <3>1 DEF Paced
  <2>5. CASE wants_tools(a)
    <3>1. /\ s.pc = "calling" /\ t.pc = "dispatch" /\ ~t.escalate
          /\ t.streak = s.streak /\ t.retries = s.retries /\ t.consecutive = s.consecutive
      BY <2>5, StepsOfReply
    <3> QED
      BY <2>1, <3>1 DEF Paced
  <2>6. CASE tool_succeeds(a) \/ retry(a)
    <3>1. /\ t.pc = "dispatch" /\ t.retries = s.retries /\ t.escalate = s.escalate
          /\ \/ t.streak = 0
             \/ s.pc = "retry" /\ t.streak = s.streak + 1 /\ t.consecutive = s.consecutive
          /\ t.consecutive \in {0, s.consecutive}
      BY <2>6, StepsOfTools
    <3> QED
      BY <2>1, <3>1 DEF Paced
  <2>7. CASE tool_fails(a)
    <3>1. /\ s.pc = "dispatch" /\ t.streak = s.streak + 1 /\ t.consecutive = s.consecutive + 1
          /\ \/ /\ t.pc = "dispatch" /\ t.retries = s.retries
                /\ \/ t.escalate
                   \/ t.escalate = s.escalate /\ s.consecutive + 1 <= MaxConsecutive
             \/ /\ t.pc = "retry" /\ t.escalate = s.escalate
                /\ s.consecutive + 1 <= MaxConsecutive
                /\ \E tool \in Tools :
                     /\ s.retries[tool] < MaxRetries
                     /\ t.retries = [s.retries EXCEPT ![tool] = @ + 1]
      BY <2>7, StepsOfFailure
    <3>2. t.pc = "retry" => Cardinality(Granted(t.retries)) = granted + 1
      BY <2>1, <3>1, GrantIsNew
    <3>3. t.pc = "dispatch" => Cardinality(Granted(t.retries)) = granted
      BY <3>1
    <3> HIDE DEF granted
    <3>4. s.streak <= s.consecutive + granted
      BY <2>1, <3>1 DEF Paced, granted
    <3> QED
      BY <2>1, <3>1, <3>2, <3>3, <3>4 DEF Paced
  <2>8. CASE send_results(a)
    <3>1. /\ Steady(s, t) /\ s.pc = "dispatch" /\ t.pc \in {"turn", "idle"}
          /\ t.pc = "turn" => ~s.escalate
      BY <2>8, StepsOfResults
    <3> QED
      BY <2>1, <3>1 DEF Paced, Steady
  <2> QED
    BY <1>2, <2>3, <2>4, <2>5, <2>6, <2>7, <2>8, StepKinds
<1> QED
  BY <1>1, <1>2 DEF Next

\* An agent whose tools keep failing is stopped: the model is never asked again once
\* more calls in a row have failed than the policy counts, plus the retries it grants
\* and does not count (recovery.py:48-81, agent.py:248-291).
THEOREM ThrashingAlwaysStops == Spec => []ThrashingStops
<1> DEFINE Inv == AgentInv /\ \A a \in Agents : Paced(agent[a])
<1>1. Init => Inv
  <2> SUFFICES ASSUME Init PROVE Inv
    OBVIOUS
  <2>1. /\ Idle.pc = "new" /\ Idle.streak = 0 /\ Idle.consecutive = 0 /\ ~Idle.escalate
        /\ Cardinality(Granted(Idle.retries)) \in Nat
    BY GrantsAreFew DEF Idle
  <2>2. Paced(Idle)
    BY <2>1 DEF Paced
  <2> QED
    BY <2>2, InitOK DEF Init
<1>2. Inv /\ [Next]_vars => Inv'
  BY AgentStep, PaceStep
<1>3. Inv => ThrashingStops
  <2> SUFFICES ASSUME Inv, NEW a \in Agents, agent[a].pc = "calling"
               PROVE  agent[a].streak <= MaxConsecutive + MaxRetries * Cardinality(Tools)
    BY DEF ThrashingStops
  <2> DEFINE s == agent[a]
             granted == Cardinality(Granted(s.retries))
             most == MaxRetries * Cardinality(Tools)
  <2>1. /\ s.streak <= s.consecutive + granted
        /\ s.streak = 0 \/ s.consecutive <= MaxConsecutive
    <3>1. Paced(s) /\ s.pc = "calling"
      OBVIOUS
    <3> HIDE DEF s
    <3>2. s.streak + 0 <= s.consecutive + granted /\ s.streak \in Nat
      <4>1. s.streak \in Nat
        BY AgentFacts DEF AgentState, s
      <4> QED
        BY <3>1, <4>1 DEF Paced
    <3> QED
      BY <3>1, <3>2 DEF Paced
  <2>2. s.streak \in Nat /\ s.consecutive \in Nat /\ MaxConsecutive \in Nat
    BY AgentFacts, AgentAssumption DEF AgentState
  <2>3. granted \in Nat /\ granted <= most
    BY GrantsAreFew
  <2>4. most \in Nat
    <3>1. Cardinality(Tools) \in Nat /\ MaxRetries \in Nat
      BY AgentAssumption, FS_CardinalityType
    <3> QED
      BY <3>1
  <2> HIDE DEF s, granted, most
  <2>5. s.streak <= MaxConsecutive + most
    BY <2>1, <2>2, <2>3, <2>4
  <2> QED
    BY <2>5 DEF s, most
<1> QED
  BY <1>1, <1>2, <1>3, PTL DEF Spec
====
