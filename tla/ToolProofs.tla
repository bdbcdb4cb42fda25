---- MODULE ToolProofs ----
(***************************************************************************)
(* Theorems about tool calls (ToolDispatch): no tool runs that a hook of   *)
(* the bus objects to, nothing unclean is kept, and a result that was      *)
(* offloaded is read back whole.                                           *)
(***************************************************************************)
EXTENDS ApplicationProofs, SequenceTheorems

----------------------------------------------------------------------------
(* The bus.                                                                 *)

\* What the bus says after its hook i, given what it says before it.
Says(f, i, tier, phase) ==
    IF i = 0 THEN "allow"
    ELSE IF f[i-1] = "deny" THEN "deny"
    ELSE IF denies(hooks[i], tier, phase) THEN "deny"
    ELSE IF asks(hooks[i], tier) THEN "ask"
    ELSE f[i-1]

\* However long the bus, there is a function that says it hook by hook.
LEMMA BusIsDefined ==
  ASSUME NEW tier, NEW phase, NEW n \in Nat
  PROVE  \E f : f = [i \in 0..n |-> Says(f, i, tier, phase)]
<1> DEFINE Defined(m) == \E f : f = [i \in 0..m |-> Says(f, i, tier, phase)]
           T == {m \in Nat : ~Defined(m)}
<1> SUFFICES ASSUME T # {} PROVE FALSE
  OBVIOUS
<1>1. PICK m \in T : \A y \in T : m <= y
  <2> HIDE DEF T
  <2>1. T \in SUBSET Nat
    BY DEF T
  <2> QED BY <2>1, LeastMember
<1>2. m \in Nat /\ ~Defined(m)
  OBVIOUS
<1>3. CASE m = 0
  <2> DEFINE g == [i \in 0..0 |-> "allow"]
  <2>1. g = [i \in 0..0 |-> Says(g, i, tier, phase)]
    BY DEF Says
  <2> HIDE DEF g
  <2> QED BY <2>1, <1>2, <1>3
<1>4. CASE m # 0
  <2>1. m - 1 \in Nat /\ m - 1 \notin T
    BY <1>1, <1>2, <1>4
  <2>2. PICK f : f = [i \in 0..(m-1) |-> Says(f, i, tier, phase)]
    BY <2>1
  <2> DEFINE g == [i \in 0..m |-> IF i = m THEN Says(f, m, tier, phase) ELSE f[i]]
  <2>3. ASSUME NEW i \in 0..m PROVE g[i] = Says(g, i, tier, phase)
    <3>1. CASE i = 0
      <4>1. f[0] = "allow"
        <5>1. 0 \in 0..(m-1)
          BY <2>1
        <5> QED BY <5>1, <2>2 DEF Says
      <4>2. g[0] = f[0]
        BY <3>1, <1>4
      <4> HIDE DEF g
      <4> QED BY <3>1, <4>1, <4>2 DEF Says
    <3>2. CASE i # 0
      <4>1. i - 1 \in 0..(m-1) /\ g[i-1] = f[i-1]
        BY <3>2, <1>2
      <4>2. g[i] = Says(f, i, tier, phase)
        <5>1. CASE i = m
          BY <5>1
        <5>2. CASE i # m
          <6>1. i \in 0..(m-1)
            BY <5>2, <1>2
          <6> QED BY <6>1, <5>2, <2>2
        <5> QED BY <5>1, <5>2
      <4> HIDE DEF g
      <4> QED BY <4>1, <4>2, <3>2 DEF Says
    <3> QED BY <3>1, <3>2
  <2>4. g = [i \in 0..m |-> Says(g, i, tier, phase)]
    <3>1. g = [i \in 0..m |-> g[i]]
      OBVIOUS
    <3> HIDE DEF g
    <3> QED BY <2>3, <3>1
  <2> HIDE DEF g
  <2> QED BY <2>4, <1>2
<1> QED BY <1>3, <1>4

\* What the bus says at its end is said hook by hook.
LEMMA BusUnfolds ==
  ASSUME NEW tier, NEW phase, Len(hooks) \in Nat
  PROVE  \E f : /\ \A i \in 0..Len(hooks) : f[i] = Says(f, i, tier, phase)
                /\ run_pre_tool(tier, phase) = f[Len(hooks)]
<1> DEFINE v == CHOOSE f : f = [i \in 0..Len(hooks) |-> Says(f, i, tier, phase)]
<1>1. v = [i \in 0..Len(hooks) |-> Says(v, i, tier, phase)]
  BY BusIsDefined
<1>2. run_pre_tool(tier, phase) = v[Len(hooks)]
  BY DEF run_pre_tool, Says
<1> HIDE DEF v
<1>3. \A i \in 0..Len(hooks) : v[i] = Says(v, i, tier, phase)
  BY <1>1
<1> QED BY <1>2, <1>3

\* A denial anywhere on the bus is final; an objection is never forgotten; a bus that
\* objects to nothing allows.
LEMMA BusJudges ==
  ASSUME NEW tier, NEW phase, hooks \in Seq(STRING)
  PROVE  /\ \A i \in DOMAIN hooks :
              /\ denies(hooks[i], tier, phase) => run_pre_tool(tier, phase) = "deny"
              /\ asks(hooks[i], tier) => run_pre_tool(tier, phase) \in {"deny", "ask"}
         /\ (\A i \in DOMAIN hooks : ~denies(hooks[i], tier, phase) /\ ~asks(hooks[i], tier))
              => run_pre_tool(tier, phase) = "allow"
<1>1. Len(hooks) \in Nat /\ DOMAIN hooks = 1..Len(hooks)
  OBVIOUS
<1>2. PICK f : /\ \A i \in 0..Len(hooks) : f[i] = Says(f, i, tier, phase)
               /\ run_pre_tool(tier, phase) = f[Len(hooks)]
  BY <1>1, BusUnfolds
<1> DEFINE D(i) == denies(hooks[i], tier, phase)
           A(i) == asks(hooks[i], tier)
           Right(j) == /\ \A i \in 1..j : (D(i) => f[j] = "deny") /\ (A(i) => f[j] \in {"deny", "ask"})
                       /\ (\A i \in 1..j : ~D(i) /\ ~A(i)) => f[j] = "allow"
           T == {j \in 0..Len(hooks) : ~Right(j)}
<1>3. f[0] = "allow"
  <2>1. 0 \in 0..Len(hooks)
    BY <1>1
  <2> QED BY <2>1, <1>2 DEF Says
<1>4. ASSUME NEW j \in 1..Len(hooks)
      PROVE  f[j] = IF f[j-1] = "deny" THEN "deny" ELSE IF D(j) THEN "deny"
                    ELSE IF A(j) THEN "ask" ELSE f[j-1]
  <2>1. j \in 0..Len(hooks) /\ j # 0
    BY <1>1
  <2>2. f[j] = Says(f, j, tier, phase)
    BY <2>1, <1>2
  <2> QED BY <2>1, <2>2 DEF Says
<1> HIDE DEF D, A
<1>5. T = {}
  <2> SUFFICES ASSUME T # {} PROVE FALSE
    OBVIOUS
  <2>1. PICK j \in T : \A y \in T : j <= y
    <3>1. T \in SUBSET Nat
      BY <1>1
    <3> HIDE DEF T
    <3> QED BY <3>1, LeastMember
  <2>2. j \in 0..Len(hooks) /\ ~Right(j)
    OBVIOUS
  <2>3. j # 0
    BY <2>2, <1>3
  <2>4. j \in 1..Len(hooks) /\ j - 1 \in 0..Len(hooks) /\ j - 1 \notin T
    BY <1>1, <2>1, <2>2, <2>3
  <2>5. Right(j - 1)
    BY <2>4
  <2>6. 1..j = 1..(j-1) \cup {j}
    BY <2>4, <1>1
  <2>7. Right(j)
    <3>1. \A i \in 1..(j-1) : (D(i) => f[j-1] = "deny") /\ (A(i) => f[j-1] \in {"deny", "ask"})
      BY <2>5
    <3>2. (\A i \in 1..(j-1) : ~D(i) /\ ~A(i)) => f[j-1] = "allow"
      BY <2>5
    <3>3. f[j] = IF f[j-1] = "deny" THEN "deny" ELSE IF D(j) THEN "deny"
                 ELSE IF A(j) THEN "ask" ELSE f[j-1]
      BY <1>4, <2>4
    <3> QED BY <2>6, <3>1, <3>2, <3>3
  <2> QED BY <2>2, <2>7
<1>6. Right(Len(hooks))
  BY <1>1, <1>5
<1> QED BY <1>1, <1>2, <1>6 DEF D, A

----------------------------------------------------------------------------
(* Permission.                                                              *)

\* The last call was judged by the bus of this run, and went to a tool that this harness
\* and this agent hold. The parts of a call that ran are what the hooks saw.
PermitInv ==
    /\ hooks \in HookBuses
    /\ last.ran \in BOOLEAN
    /\ registry \subseteq Tools
    /\ OnlyPermittedToolsRun

\* A call runs only if nothing on the bus objects to it.
LEMMA CallIsPermitted ==
  ASSUME NEW tool, NEW phase, NEW approved \in BOOLEAN, NEW result, PermitInv,
         run_tool(tool, phase, approved, result), UNCHANGED <<hooks, registry, allowed>>
  PROVE  PermitInv'
<1> DEFINE tier == IF tool \in registry THEN Tier[tool] ELSE "read_only"
           said == run_pre_tool(tier, phase)
           denied == said = "deny" \/ (said = "ask" /\ ~approved)
           held == tool \in registry /\ Permits(tool)
<1>1. /\ last'.tool = tool /\ last'.phase = phase /\ last'.approved = approved
      /\ last'.ran = (~denied /\ held)
  <2> HIDE DEF said, held
  <2>1. last'.tool = tool /\ last'.phase = phase /\ last'.approved = approved
    BY DEF run_tool
  <2>2. last'.ran = (~denied /\ held)
    BY DEF run_tool, execute, said, held
  <2> QED BY <2>1, <2>2
<1>2. hooks \in Seq(STRING)
  BY ToolAssumption DEF PermitInv
<1>3. ASSUME ~denied, held
      PROVE  \A i \in DOMAIN hooks :
               /\ ~denies(hooks[i], Tier[tool], phase)
               /\ asks(hooks[i], Tier[tool]) => approved
  <2>1. tier = Tier[tool]
    BY <1>3
  <2> HIDE DEF tier
  <2> QED BY <1>2, <1>3, <2>1, BusJudges
<1> HIDE DEF said, denied
<1>4. last'.ran => /\ held
                   /\ \A i \in DOMAIN hooks :
                        /\ ~denies(hooks[i], Tier[tool], phase)
                        /\ asks(hooks[i], Tier[tool]) => approved
  BY <1>1, <1>3
<1> QED BY <1>1, <1>4 DEF PermitInv, OnlyPermittedToolsRun, Permits, denies, asks

\* Whatever hooks an application installs, in whatever order, and however narrow a
\* sub-agent's registry and list: no tool runs that a hook denies, or that a hook asks
\* about and nobody approved.
THEOREM OnlyPermittedToolsEverRun == Spec => []OnlyPermittedToolsRun
<1>1. Init => PermitInv
  BY DEF Init, SessionInit, ToolInit, NoCall, PermitInv, OnlyPermittedToolsRun
<1>2. PermitInv /\ [Next]_vars => PermitInv'
  <2> SUFFICES ASSUME PermitInv, [ToolNext]_toolVars PROVE PermitInv'
    BY ToolSteps
  <2>1. ASSUME NEW tool, NEW phase, NEW approved \in BOOLEAN, call(tool, phase, approved)
        PROVE  PermitInv'
    BY <2>1, CallIsPermitted DEF call
  <2>2. ASSUME NEW phase, NEW hits, search_tools(phase, hits)
        PROVE  PermitInv'
    BY <2>2, CallIsPermitted DEF search_tools
  <2>3. ASSUME NEW names \in SUBSET (registry \ Builtins), NEW list, delegate(names, list)
        PROVE  PermitInv'
    <3>1. registry' \subseteq Tools
      BY <2>3, ToolAssumption DEF PermitInv, delegate, clone
    <3> QED BY <2>3, <3>1 DEF delegate, NoCall, PermitInv, OnlyPermittedToolsRun
  <2>4. ASSUME NEW phase, read_artifact(phase)
        PROVE  PermitInv'
    BY <2>4, CallIsPermitted DEF read_artifact
  <2>5. CASE start_reading \/ UNCHANGED toolVars
    BY <2>5 DEF start_reading, toolVars, PermitInv, OnlyPermittedToolsRun, Permits, denies, asks
  <2> QED
    BY <2>1, <2>2, <2>3, <2>4, <2>5 DEF ToolNext
<1>3. PermitInv => OnlyPermittedToolsRun
  BY DEF PermitInv
<1> QED
  BY <1>1, <1>2, <1>3, PTL DEF Spec

----------------------------------------------------------------------------
(* What is kept.                                                            *)

\* The tokens a text can hold, and those it may hold where it is kept.
Tokens == {Redacted, More} \cup UNION {UNION {Range(r.text) : r \in Returns[t]} : t \in Tools \ Builtins}
Clean == Tokens \ {Secret, Instruction}

\* What is stored is clean, and so is whatever is still to be read; the last call shows
\* no credential, and an instruction only in an error; of what it stored it shows the
\* preview.
LastClean ==
    /\ last.stored \in Seq(Clean)
    /\ last.shown \in Seq(Tokens \ {Secret})
    /\ ~last.error => last.shown \in Seq(Clean)
    /\ last.stored # <<>> => /\ last.shown = SubSeq(last.stored, 1, Preview)
                             /\ Len(last.stored) > OffloadOver

CleanInv ==
    /\ workspace \subseteq Seq(Clean)
    /\ last = NoCall \/ LastClean
    /\ reading.todo \in Seq([body : Seq(Clean), from : Nat])

\* The hooks redact what they are told to and leave the rest where it is.
LEMMA CleanedText ==
  ASSUME NEW S, NEW text \in Seq(S), NEW dirt, Redacted \in S \ dirt
  PROVE  /\ Cleaned(text, dirt) \in Seq(S \ dirt)
         /\ Len(Cleaned(text, dirt)) = Len(text)
         /\ dirt \cap Range(text) = {} => Cleaned(text, dirt) = text
<1>1. Len(text) \in Nat /\ DOMAIN text = 1..Len(text) /\ \A i \in 1..Len(text) : text[i] \in S
  OBVIOUS
<1>2. Cleaned(text, dirt) \in [1..Len(text) -> S \ dirt]
  BY <1>1 DEF Cleaned
<1>3. Cleaned(text, dirt) \in Seq(S \ dirt)
  BY <1>1, <1>2, SeqDef
<1>4. Len(Cleaned(text, dirt)) = Len(text)
  BY <1>1, <1>2, <1>3
<1>5. ASSUME dirt \cap Range(text) = {}
      PROVE  Cleaned(text, dirt) = text
  <2>1. \A i \in DOMAIN text : text[i] \notin dirt
    BY <1>5 DEF Range
  <2> QED BY <1>1, <2>1 DEF Cleaned
<1> QED
  BY <1>3, <1>4, <1>5

\* A call stores and shows what the hooks have cleaned, if what a trusted tool
\* returned holds no instruction.
LEMMA CallKeepsClean ==
  ASSUME NEW tool, NEW phase, NEW approved, NEW result, CleanInv,
         run_tool(tool, phase, approved, result),
         result.text \in Seq(Tokens), result.error \in BOOLEAN,
         tool \in Trusted => result.text \in Seq(Tokens \ {Instruction})
  PROVE  workspace' \subseteq Seq(Clean) /\ LastClean'
<1> DEFINE tier == IF tool \in registry THEN Tier[tool] ELSE "read_only"
           said == run_pre_tool(tier, phase)
           nothing == [text |-> <<>>, error |-> TRUE, ran |-> FALSE]
           out == IF said = "deny" \/ (said = "ask" /\ ~approved) THEN nothing
                  ELSE execute(tool, result)
           text == run_post_tool(tool, out)
           offload == ~out.error /\ Len(text) > OffloadOver
           shown == IF offload THEN SubSeq(text, 1, Preview) ELSE text
           kept == IF offload THEN text ELSE <<>>
<1>1. /\ last' = [tool |-> tool, phase |-> phase, approved |-> approved, ran |-> out.ran,
                  error |-> out.error, shown |-> shown, stored |-> kept]
      /\ workspace' = IF offload THEN workspace \cup {text} ELSE workspace
  BY DEF run_tool
<1>2. /\ out.text \in Seq(Tokens) /\ out.error \in BOOLEAN
      /\ tool \in Trusted => out.text \in Seq(Tokens \ {Instruction})
  <2>1. out \in {nothing, [text |-> result.text, error |-> result.error, ran |-> TRUE]}
    <3>1. execute(tool, result)
            \in {nothing, [text |-> result.text, error |-> result.error, ran |-> TRUE]}
      BY DEF execute
    <3> HIDE DEF said, nothing
    <3> QED BY <3>1
  <2>2. \A S : <<>> \in Seq(S)
    BY EmptySeq
  <2> HIDE DEF out
  <2>3. out = nothing => out.text = <<>> /\ out.error = TRUE
    OBVIOUS
  <2>4. out = [text |-> result.text, error |-> result.error, ran |-> TRUE]
          => out.text = result.text /\ out.error = result.error
    OBVIOUS
  <2> HIDE DEF nothing
  <2> QED BY <2>1, <2>2, <2>3, <2>4
<1> HIDE DEF out
<1>3. Redacted \in Clean /\ Clean = (Tokens \ {Secret}) \ {Instruction}
      /\ Clean = (Tokens \ {Instruction}) \ {Secret} /\ Redacted \in Tokens \ {Instruction}
  BY ToolAssumption DEF Clean, Tokens
<1>4. text \in Seq(Tokens \ {Secret}) /\ (~out.error => text \in Seq(Clean))
  <2>1. CASE tool \in Trusted
    <3>1. text = Cleaned(out.text, {Secret})
      BY <2>1 DEF run_post_tool
    <3>2. text \in Seq(Clean)
      BY <1>2, <1>3, <2>1, <3>1, CleanedText
    <3> QED BY <1>3, <3>2, SeqMonotonic
  <2>2. CASE tool \notin Trusted /\ out.error
    <3>1. text = Cleaned(out.text, {Secret})
      BY <2>2 DEF run_post_tool
    <3> QED BY <1>2, <1>3, <2>2, <3>1, CleanedText
  <2>3. CASE tool \notin Trusted /\ ~out.error
    <3>1. text = Cleaned(out.text, {Secret, Instruction})
      BY <2>3, {Secret} \cup {Instruction} = {Secret, Instruction} DEF run_post_tool
    <3>2. Clean = Tokens \ {Secret, Instruction}
      BY DEF Clean
    <3>3. text \in Seq(Clean)
      BY <1>2, <1>3, <3>1, <3>2, CleanedText
    <3> QED BY <1>3, <3>3, SeqMonotonic
  <2> QED BY <1>2, <2>1, <2>2, <2>3
<1> HIDE DEF text
<1>5. /\ \A S : text \in Seq(S) => SubSeq(text, 1, Preview) \in Seq(S) \/ ~offload
      /\ \A S : <<>> \in Seq(S)
  <2>1. ASSUME NEW S, text \in Seq(S), offload
        PROVE  SubSeq(text, 1, Preview) \in Seq(S)
    <3>1. Len(text) \in Nat /\ Preview \in 1..Len(text)
      BY <2>1, ToolAssumption
    <3> QED BY <2>1, <3>1, SubSeqProperties
  <2> QED BY <2>1, EmptySeq
<1>6. /\ kept \in Seq(Clean) /\ shown \in Seq(Tokens \ {Secret})
      /\ ~out.error => shown \in Seq(Clean)
      /\ kept # <<>> => shown = SubSeq(kept, 1, Preview) /\ Len(kept) > OffloadOver
  BY <1>4, <1>5
<1>7. workspace' \subseteq Seq(Clean)
  BY <1>1, <1>4 DEF CleanInv
<1> HIDE DEF offload, shown, kept
<1> QED
  BY <1>1, <1>6, <1>7 DEF LastClean

\* A page of a clean text is clean.
LEMMA PageIsClean ==
  ASSUME NEW body \in Seq(Clean), NEW from \in Nat
  PROVE  /\ Page(body, from).text \in Seq(Tokens \ {Instruction})
         /\ Page(body, from).text \in Seq(Tokens)
         /\ Page(body, from).end \in Nat
<1> DEFINE end == IF from + PageLimit < Len(body) THEN from + PageLimit ELSE Len(body)
           piece == SubSeq(body, from + 1, end)
           tail == IF end < Len(body) THEN <<More>> ELSE <<>>
           S == Tokens \ {Instruction}
<1>1. Len(body) \in Nat /\ PageLimit \in Nat /\ \A i \in 1..Len(body) : body[i] \in Clean
  BY ToolAssumption
<1>2. end \in 0..Len(body)
  BY <1>1
<1>3. Clean \subseteq S /\ More \in S /\ S \subseteq Tokens
  BY ToolAssumption DEF Clean, Tokens
<1>4. Page(body, from).text = piece \o tail /\ Page(body, from).end = end
  BY DEF Page
<1> HIDE DEF S
<1>5. piece \in Seq(S)
  <2>1. \A i \in (from + 1)..end : body[i] \in S
    BY <1>1, <1>2, <1>3
  <2> HIDE DEF end
  <2> QED BY <1>2, <2>1, SubSeqProperties
<1>6. tail \in Seq(S)
  BY <1>3, EmptySeq
<1> HIDE DEF piece, tail, end
<1>7. piece \o tail \in Seq(S)
  BY <1>5, <1>6, ConcatProperties
<1> QED
  BY <1>2, <1>3, <1>4, <1>7, SeqMonotonic DEF S

\* No step leaves anything unclean.
LEMMA CleanStays ==
  ASSUME CleanInv, [Next]_vars
  PROVE  CleanInv'
<1>0. [ToolNext]_toolVars
  BY ToolSteps
<1>1. ASSUME NEW tool \in Tools, NEW phase, NEW approved, call(tool, phase, approved)
      PROVE  CleanInv'
  <2>1. PICK result \in Returns[tool] : run_tool(tool, phase, approved, result)
    BY <1>1 DEF call
  <2>2. /\ result.text \in Seq(Range(result.text)) /\ result.error \in BOOLEAN
        /\ tool \in Trusted => Instruction \notin Range(result.text)
    BY <1>1, ToolAssumption DEF call
  <2>3. Range(result.text) \subseteq Tokens
    BY <1>1 DEF Tokens, call
  <2>4. /\ result.text \in Seq(Tokens)
        /\ tool \in Trusted => result.text \in Seq(Tokens \ {Instruction})
    BY <2>2, <2>3, SeqMonotonic
  <2>5. workspace' \subseteq Seq(Clean) /\ LastClean'
    BY <2>1, <2>2, <2>4, CallKeepsClean
  <2> QED BY <1>1, <2>5 DEF call, CleanInv
<1>2. ASSUME NEW phase, NEW hits, search_tools(phase, hits)
      PROVE  CleanInv'
  <2> DEFINE result == [text |-> <<>>, error |-> FALSE]
  <2>1. \A S : result.text \in Seq(S)
    BY EmptySeq
  <2>2. run_tool("search_tools", phase, FALSE, result) /\ result.error \in BOOLEAN
    BY <1>2 DEF search_tools
  <2> HIDE DEF result
  <2>3. workspace' \subseteq Seq(Clean) /\ LastClean'
    BY <2>1, <2>2, CallKeepsClean
  <2> QED BY <1>2, <2>3 DEF search_tools, CleanInv
<1>3. ASSUME NEW names, NEW list, delegate(names, list)
      PROVE  CleanInv'
  BY <1>3, EmptySeq DEF delegate, NotReading, CleanInv, LastClean
<1>4. CASE start_reading
  <2>1. last.stored \in Seq(Clean) /\ Preview \in Nat
    BY <1>4, ToolAssumption DEF start_reading, CleanInv, LastClean
  <2>2. reading'.todo = <<[body |-> last.stored, from |-> Preview]>>
    BY <1>4 DEF start_reading
  <2>3. reading'.todo \in Seq([body : Seq(Clean), from : Nat])
    BY <2>1, <2>2
  <2> QED BY <1>4, <2>3 DEF start_reading, CleanInv, LastClean
<1>5. ASSUME NEW phase, read_artifact(phase)
      PROVE  CleanInv'
  <2> DEFINE Item == [body : Seq(Clean), from : Nat]
             top == Last(reading.todo)
             page_ == Page(top.body, top.from)
             result == [text |-> page_.text, error |-> FALSE]
             below == Front(reading.todo)
             rest == IF page_.more THEN Append(below, [top EXCEPT !.from = page_.end]) ELSE below
  <2>1. reading.todo \in Seq(Item) /\ reading.todo # <<>>
    BY <1>5 DEF read_artifact, CleanInv
  <2>2. top \in Item /\ below \in Seq(Item)
    <3> HIDE DEF Item
    <3> QED BY <2>1, SubSeqProperties DEF Last, Front
  <2>3. /\ run_tool("read_artifact", phase, FALSE, result)
        /\ reading'.todo = IF ~last'.ran THEN <<>>
                           ELSE IF last'.stored = <<>> THEN rest
                           ELSE Append(rest, [body |-> last'.stored, from |-> Preview])
    BY <1>5 DEF read_artifact
  <2>4. /\ page_.text \in Seq(Tokens \ {Instruction}) /\ page_.text \in Seq(Tokens)
        /\ page_.end \in Nat
    <3>1. top.body \in Seq(Clean) /\ top.from \in Nat
      BY <2>2
    <3> HIDE DEF top
    <3> QED BY <3>1, PageIsClean
  <2>5. rest \in Seq(Item)
    <3>1. [top EXCEPT !.from = page_.end] \in Item
      <4> HIDE DEF page_, top
      <4> QED BY <2>2, <2>4
    <3> HIDE DEF Item, below, page_, top
    <3> QED BY <2>2, <3>1, AppendProperties
  <2>6. workspace' \subseteq Seq(Clean) /\ LastClean'
    <3>1. result.text = page_.text /\ result.error \in BOOLEAN
      OBVIOUS
    <3> HIDE DEF result, page_
    <3> QED BY <2>3, <2>4, <3>1, CallKeepsClean
  <2>7. [body |-> last'.stored, from |-> Preview] \in Item
    BY <2>6, ToolAssumption DEF LastClean
  <2>8. reading'.todo \in Seq(Item)
    <3> HIDE DEF Item, rest
    <3> QED BY <2>3, <2>5, <2>7, EmptySeq, AppendProperties
  <2> QED BY <2>6, <2>8 DEF CleanInv
<1>6. CASE UNCHANGED toolVars
  BY <1>6 DEF toolVars, CleanInv, LastClean
<1> QED
  BY <1>0, <1>1, <1>2, <1>3, <1>4, <1>5, <1>6 DEF ToolNext
\* Whatever the tools return: no credential reaches the transcript or the workspace, and
\* no instruction from outside does, save in the text of an error. What is read back
\* passes the hooks as the result of a trusted tool, and may, because it was stored clean.
THEOREM NothingUncleanEverKept == Spec => []NothingUncleanKept
<1>1. Init => CleanInv
  BY EmptySeq DEF Init, SessionInit, ToolInit, NotReading, CleanInv, LastClean
<1>2. CleanInv /\ [Next]_vars => CleanInv'
  BY CleanStays
<1>3. CleanInv => NothingUncleanKept
  <2> SUFFICES ASSUME CleanInv PROVE NothingUncleanKept
    OBVIOUS
  <2>1. \A text \in Seq(Clean) : {Secret, Instruction} \cap Range(text) = {}
    BY DEF Range, Clean
  <2>2. \A text \in Seq(Tokens \ {Secret}) : Secret \notin Range(text)
    BY DEF Range
  <2> QED
    BY <2>1, <2>2 DEF CleanInv, LastClean, NothingUncleanKept
<1> QED
  BY <1>1, <1>2, <1>3, PTL DEF Spec

----------------------------------------------------------------------------
(* Reading back.                                                            *)

\* What a body holds behind the place where it will be read on, and what all those
\* still to be read do.
Left(item) == {item.body[j] : j \in (item.from + 1)..Len(item.body)}
Ahead(todo) == UNION {Left(todo[k]) : k \in 1..Len(todo)}
Pending == [body : Seq(Clean), from : Nat]

CanReadBack == "read_artifact" \in registry /\ Permits("read_artifact")

\* What the model set out to read it has seen, or it is ahead.
ReadInv ==
    /\ CleanInv
    /\ hooks \in HookBuses
    /\ reading.goal # <<>> /\ CanReadBack
         => Range(reading.goal) \subseteq reading.seen \cup Ahead(reading.todo)

LEMMA AheadOfAppend ==
  ASSUME NEW todo \in Seq(Pending), NEW item \in Pending
  PROVE  /\ Append(todo, item) \in Seq(Pending)
         /\ Ahead(todo) \cup Left(item) \subseteq Ahead(Append(todo, item))
<1>1. Len(todo) \in Nat
  OBVIOUS
<1>2. /\ Append(todo, item) \in Seq(Pending)
      /\ Len(Append(todo, item)) = Len(todo) + 1
      /\ \A i \in 1..Len(todo) : Append(todo, item)[i] = todo[i]
      /\ Append(todo, item)[Len(todo) + 1] = item
  <2> HIDE DEF Pending
  <2> QED BY AppendProperties
<1>3. \A i \in 1..Len(todo) : Left(todo[i]) \subseteq Ahead(Append(todo, item))
  <2> SUFFICES ASSUME NEW i \in 1..Len(todo)
               PROVE  Left(todo[i]) \subseteq Ahead(Append(todo, item))
    OBVIOUS
  <2>1. i \in 1..Len(Append(todo, item)) /\ Append(todo, item)[i] = todo[i]
    BY <1>1, <1>2
  <2> QED BY <2>1 DEF Ahead
<1>4. Left(item) \subseteq Ahead(Append(todo, item))
  <2>1. Len(todo) + 1 \in 1..Len(Append(todo, item))
    BY <1>1, <1>2
  <2> QED BY <1>2, <2>1 DEF Ahead
<1> QED
  BY <1>2, <1>3, <1>4 DEF Ahead

LEMMA AheadOfLast ==
  ASSUME NEW todo \in Seq(Pending), todo # <<>>
  PROVE  /\ Last(todo) \in Pending /\ Front(todo) \in Seq(Pending)
         /\ Ahead(todo) \subseteq Left(Last(todo)) \cup Ahead(Front(todo))
<1>1. Len(todo) \in Nat \ {0} /\ \A i \in 1..Len(todo) : todo[i] \in Pending
  <2> HIDE DEF Pending
  <2> QED BY EmptySeq
<1>2. /\ Front(todo) \in Seq(Pending) /\ Len(Front(todo)) = Len(todo) - 1
      /\ \A i \in 1..(Len(todo) - 1) : Front(todo)[i] = todo[i]
  <2> HIDE DEF Pending
  <2>1. \A i \in 1..(Len(todo) - 1) : todo[i] \in Pending
    BY <1>1
  <2>2. /\ SubSeq(todo, 1, Len(todo) - 1) \in Seq(Pending)
        /\ Len(SubSeq(todo, 1, Len(todo) - 1)) = Len(todo) - 1
        /\ \A i \in 1..(Len(todo) - 1) : SubSeq(todo, 1, Len(todo) - 1)[i] = todo[i]
    <3> DEFINE n == Len(todo) - 1
    <3>1. n \in Nat /\ 1 \in Int /\ n \in Int /\ \A i \in 1..n : todo[i] \in Pending
      BY <1>1, <2>1
    <3> HIDE DEF n
    <3>2. /\ SubSeq(todo, 1, n) \in Seq(Pending)
          /\ Len(SubSeq(todo, 1, n)) = IF 1 <= n THEN n - 1 + 1 ELSE 0
          /\ \A i \in 1..(n - 1 + 1) : SubSeq(todo, 1, n)[i] = todo[1 + i - 1]
      BY <3>1, SubSeqProperties
    <3>3. n - 1 + 1 = n /\ \A i \in 1..n : 1 + i - 1 = i
      BY <3>1
    <3>4. /\ SubSeq(todo, 1, n) \in Seq(Pending)
          /\ Len(SubSeq(todo, 1, n)) = n
          /\ \A i \in 1..n : SubSeq(todo, 1, n)[i] = todo[i]
      BY <3>1, <3>2, <3>3
    <3> QED BY <3>4 DEF n
  <2> QED BY <2>2 DEF Front
<1>3. ASSUME NEW i \in 1..Len(todo)
      PROVE  Left(todo[i]) \subseteq Left(Last(todo)) \cup Ahead(Front(todo))
  <2>1. CASE i = Len(todo)
    BY <2>1 DEF Last
  <2>2. CASE i # Len(todo)
    <3>1. i \in 1..Len(Front(todo)) /\ Front(todo)[i] = todo[i]
      BY <1>1, <1>2, <2>2
    <3> QED BY <3>1 DEF Ahead
  <2> QED BY <2>1, <2>2
<1>4. Last(todo) \in Pending
  BY <1>1 DEF Last
<1>5. Ahead(todo) \subseteq Left(Last(todo)) \cup Ahead(Front(todo))
  <2> SUFFICES ASSUME NEW t \in Ahead(todo)
               PROVE  t \in Left(Last(todo)) \cup Ahead(Front(todo))
    OBVIOUS
  <2>1. PICK i \in 1..Len(todo) : t \in Left(todo[i])
    BY DEF Ahead
  <2> QED BY <1>3, <2>1
<1> QED
  BY <1>2, <1>4, <1>5

\* A text is its first n tokens and what is left behind them.
LEMMA TextIsSplit ==
  ASSUME NEW S, NEW text \in Seq(S), NEW n \in 1..Len(text)
  PROVE  Range(text) \subseteq Range(SubSeq(text, 1, n)) \cup Left([body |-> text, from |-> n])
<1>1. Len(text) \in Nat /\ DOMAIN text = 1..Len(text) /\ n \in Nat
  OBVIOUS
<1>2. /\ DOMAIN SubSeq(text, 1, n) = 1..n
      /\ \A i \in 1..n : SubSeq(text, 1, n)[i] = text[i]
  BY <1>1
<1>3. Left([body |-> text, from |-> n]) = {text[j] : j \in (n + 1)..Len(text)}
  BY DEF Left
<1>4. \A i \in 1..Len(text) : i \in 1..n \/ i \in (n + 1)..Len(text)
  BY <1>1
<1> QED
  BY <1>1, <1>2, <1>3, <1>4 DEF Range

\* A page and what is left behind it are what was left of its body.
LEMMA PageIsSplit ==
  ASSUME NEW body \in Seq(Clean), NEW from \in Nat
  PROVE  /\ Page(body, from).text \in Seq(Tokens \ {Secret})
         /\ \A t \in Left([body |-> body, from |-> from]) :
              \/ t \in Range(Page(body, from).text)
              \/ /\ Page(body, from).more
                 /\ t \in Left([body |-> body, from |-> Page(body, from).end])
<1> DEFINE end == IF from + PageLimit < Len(body) THEN from + PageLimit ELSE Len(body)
           piece == SubSeq(body, from + 1, end)
           tail == IF end < Len(body) THEN <<More>> ELSE <<>>
           S == Tokens \ {Secret}
<1>1. Len(body) \in Nat /\ PageLimit \in Nat /\ \A i \in 1..Len(body) : body[i] \in Clean
  BY ToolAssumption
<1>2. end \in 0..Len(body)
  BY <1>1
<1>3. Clean \subseteq S /\ More \in S
  BY ToolAssumption DEF Clean, Tokens
<1>4. /\ Page(body, from).text = piece \o tail /\ Page(body, from).end = end
      /\ Page(body, from).more = (end < Len(body))
  BY DEF Page
<1> HIDE DEF S
<1>5. /\ piece \in Seq(S) /\ Len(piece) = IF from + 1 <= end THEN end - from ELSE 0
      /\ \A i \in 1..(end - from) : piece[i] = body[from + i]
  <2>1. \A i \in (from + 1)..end : body[i] \in S
    BY <1>1, <1>2, <1>3
  <2> HIDE DEF end
  <2>2. /\ piece \in Seq(S)
        /\ Len(piece) = IF from + 1 <= end THEN end - (from + 1) + 1 ELSE 0
        /\ \A i \in 1..(end - (from + 1) + 1) : piece[i] = body[from + 1 + i - 1]
    BY <1>2, <2>1, SubSeqProperties
  <2> HIDE DEF piece
  <2> QED BY <1>2, <2>2
<1>6. tail \in Seq(S)
  BY <1>3, EmptySeq
<1> HIDE DEF piece, tail, end
<1>7. /\ piece \o tail \in Seq(S) /\ Len(piece \o tail) = Len(piece) + Len(tail)
      /\ \A i \in 1..(Len(piece) + Len(tail)) :
           (piece \o tail)[i] = IF i <= Len(piece) THEN piece[i] ELSE tail[i - Len(piece)]
      /\ DOMAIN (piece \o tail) = 1..(Len(piece) + Len(tail)) /\ Len(tail) \in Nat
  BY <1>5, <1>6, ConcatProperties
<1>8. ASSUME NEW j \in (from + 1)..end
      PROVE  body[j] \in Range(piece \o tail)
  <2>1. j - from \in 1..(end - from) /\ end - from = Len(piece)
    BY <1>2, <1>5, <1>8
  <2>2. piece[j - from] = body[from + (j - from)]
    BY <1>5, <2>1
  <2>3. from + (j - from) = j
    BY <1>2
  <2>4. j - from \in 1..(Len(piece) + Len(tail)) /\ j - from <= Len(piece)
    BY <1>2, <1>7, <2>1
  <2>5. (piece \o tail)[j - from] = body[j]
    BY <1>7, <2>2, <2>3, <2>4
  <2> QED BY <1>7, <2>4, <2>5 DEF Range
<1>9. \A n : Left([body |-> body, from |-> n]) = {body[j] : j \in (n + 1)..Len(body)}
  BY DEF Left
<1>10. ASSUME NEW j \in (from + 1)..Len(body)
       PROVE  j \in (from + 1)..end \/ (end < Len(body) /\ j \in (end + 1)..Len(body))
  BY <1>1, <1>2
<1>11. ASSUME NEW t \in Left([body |-> body, from |-> from])
       PROVE  \/ t \in Range(piece \o tail)
              \/ end < Len(body) /\ t \in Left([body |-> body, from |-> end])
  <2>1. PICK j \in (from + 1)..Len(body) : t = body[j]
    BY <1>9
  <2>2. CASE j \in (from + 1)..end
    BY <1>8, <2>1, <2>2
  <2>3. CASE end < Len(body) /\ j \in (end + 1)..Len(body)
    BY <1>9, <2>1, <2>3
  <2> QED BY <1>10, <2>2, <2>3
<1>12. Page(body, from).text \in Seq(Tokens \ {Secret})
  BY <1>4, <1>7 DEF S
<1> QED
  BY <1>4, <1>11, <1>12

\* A model that may read an artifact is refused no page: reading is read_only, and no
\* hook objects to that.
LEMMA PageIsRead ==
  ASSUME NEW phase, NEW text \in Seq(Tokens \ {Secret}), hooks \in Seq(STRING), CanReadBack,
         run_tool("read_artifact", phase, FALSE, [text |-> text, error |-> FALSE])
  PROVE  /\ last'.ran
         /\ last'.stored = <<>> => last'.shown = text
         /\ last'.stored # <<>> => /\ last'.stored = text /\ last'.shown = SubSeq(text, 1, Preview)
                                   /\ Preview \in 1..Len(text)
<1>1. "read_artifact" \in registry /\ Permits("read_artifact")
      /\ "read_artifact" \in Trusted /\ Tier["read_artifact"] = "read_only"
  BY ToolAssumption DEF CanReadBack, Builtins
<1>2. run_pre_tool("read_only", phase) = "allow"
  <2>1. \A h : ~denies(h, "read_only", phase) /\ ~asks(h, "read_only")
    BY DEF denies, asks
  <2> QED BY <2>1, BusJudges
<1> DEFINE result == [text |-> text, error |-> FALSE]
           out == [text |-> text, error |-> FALSE, ran |-> TRUE]
           cleaned == run_post_tool("read_artifact", out)
           offload == Len(cleaned) > OffloadOver
<1>3. execute("read_artifact", result) = out
  BY <1>1 DEF execute
<1>4. cleaned = text
  <2>1. cleaned = Cleaned(text, {Secret})
    BY <1>1 DEF run_post_tool
  <2>2. Redacted \in (Tokens \ {Secret}) \ {Secret}
    BY ToolAssumption DEF Tokens
  <2>3. {Secret} \cap Range(text) = {}
    BY DEF Range
  <2> QED BY <2>1, <2>2, <2>3, CleanedText
<1>5. last' = [tool |-> "read_artifact", phase |-> phase, approved |-> FALSE, ran |-> TRUE,
               error |-> FALSE,
               shown |-> IF offload THEN SubSeq(cleaned, 1, Preview) ELSE cleaned,
               stored |-> IF offload THEN cleaned ELSE <<>>]
  <2> DEFINE tier == IF "read_artifact" \in registry THEN Tier["read_artifact"] ELSE "read_only"
             said == run_pre_tool(tier, phase)
             took == IF said = "deny" \/ (said = "ask" /\ ~FALSE)
                     THEN [text |-> <<>>, error |-> TRUE, ran |-> FALSE]
                     ELSE execute("read_artifact", result)
             hooked == run_post_tool("read_artifact", took)
             large == ~took.error /\ Len(hooked) > OffloadOver
  <2>1. last' = [tool |-> "read_artifact", phase |-> phase, approved |-> FALSE, ran |-> took.ran,
                 error |-> took.error,
                 shown |-> IF large THEN SubSeq(hooked, 1, Preview) ELSE hooked,
                 stored |-> IF large THEN hooked ELSE <<>>]
    BY DEF run_tool
  <2>2. tier = "read_only"
    BY <1>1
  <2>3. said = "allow"
    BY <1>2, <2>2
  <2> HIDE DEF said
  <2>4. took = out
    BY <1>3, <2>3
  <2> HIDE DEF took
  <2>5. hooked = cleaned /\ large = offload /\ took.ran = TRUE /\ took.error = FALSE
    BY <2>4
  <2> HIDE DEF hooked, large, cleaned, offload
  <2>6. last' = [tool |-> "read_artifact", phase |-> phase, approved |-> FALSE, ran |-> TRUE,
                 error |-> FALSE,
                 shown |-> IF offload THEN SubSeq(cleaned, 1, Preview) ELSE cleaned,
                 stored |-> IF offload THEN cleaned ELSE <<>>]
    BY <2>1, <2>5
  <2> QED BY <2>6
<1> HIDE DEF cleaned
<1>6. Len(text) \in Nat /\ (text = <<>> => Len(text) = 0)
      /\ (Len(text) > OffloadOver => Preview \in 1..Len(text) /\ text # <<>>)
  BY ToolAssumption
<1> QED
  BY <1>4, <1>5, <1>6

\* A page read is seen, or put ahead.
LEMMA PageKeepsReading ==
  ASSUME ReadInv, NEW phase, read_artifact(phase), CleanInv'
  PROVE  ReadInv'
<1> DEFINE todo == reading.todo
           top == Last(todo)
           p == Page(top.body, top.from)
           below == Front(todo)
           next == [top EXCEPT !.from = p.end]
           rest == IF p.more THEN Append(below, next) ELSE below
           stub == [body |-> last'.stored, from |-> Preview]
<1>1. todo \in Seq(Pending) /\ todo # <<>> /\ hooks \in Seq(STRING)
  BY ToolAssumption DEF read_artifact, ReadInv, CleanInv, Pending
<1>2. top \in Pending /\ below \in Seq(Pending) /\ Ahead(todo) \subseteq Left(top) \cup Ahead(below)
  BY <1>1, AheadOfLast
<1>3. top = [body |-> top.body, from |-> top.from] /\ top.body \in Seq(Clean) /\ top.from \in Nat
  BY <1>2 DEF Pending
<1>4. /\ run_tool("read_artifact", phase, FALSE, [text |-> p.text, error |-> FALSE])
      /\ reading' = [goal |-> reading.goal, seen |-> reading.seen \cup Range(last'.shown),
                     todo |-> IF ~last'.ran THEN <<>>
                              ELSE IF last'.stored = <<>> THEN rest ELSE Append(rest, stub)]
      /\ UNCHANGED <<hooks, registry, allowed>>
  BY DEF read_artifact
<1> HIDE DEF todo, top, below
<1>5. /\ p.text \in Seq(Tokens \ {Secret}) /\ p.end \in Nat
      /\ \A t \in Left(top) :
           t \in Range(p.text) \/ (p.more /\ t \in Left([body |-> top.body, from |-> p.end]))
  BY <1>3, PageIsSplit, PageIsClean
<1>6. LastClean'
  <2> DEFINE result == [text |-> p.text, error |-> FALSE]
  <2>1. result.text \in Seq(Tokens) /\ result.text \in Seq(Tokens \ {Instruction})
        /\ result.error \in BOOLEAN
    BY <1>3, PageIsClean
  <2>2. run_tool("read_artifact", phase, FALSE, result) /\ CleanInv
    BY <1>4 DEF ReadInv
  <2> HIDE DEF result, p
  <2> QED BY <2>1, <2>2, CallKeepsClean
<1>7. stub \in Pending
  BY <1>6, ToolAssumption DEF LastClean, Pending
<1> HIDE DEF p, stub
<1>8. next = [body |-> top.body, from |-> p.end] /\ next \in Pending
  BY <1>3, <1>5 DEF Pending
<1> HIDE DEF next
<1>9. /\ rest \in Seq(Pending) /\ Ahead(below) \subseteq Ahead(rest)
      /\ p.more => Left(next) \subseteq Ahead(rest)
  BY <1>2, <1>8, AheadOfAppend
<1> HIDE DEF rest
<1>10. ASSUME reading.goal # <<>>, CanReadBack
      PROVE  Range(reading.goal) \subseteq reading'.seen \cup Ahead(reading'.todo)
  <2>1. /\ last'.ran
        /\ last'.stored = <<>> => last'.shown = p.text
        /\ last'.stored # <<>> => /\ last'.stored = p.text /\ last'.shown = SubSeq(p.text, 1, Preview)
                                  /\ Preview \in 1..Len(p.text)
    BY <1>1, <1>4, <1>5, <1>10, PageIsRead
  <2>2. Range(p.text) \subseteq reading'.seen \cup Ahead(reading'.todo)
    <3>1. CASE last'.stored = <<>>
      BY <1>4, <2>1, <3>1
    <3>2. CASE last'.stored # <<>>
      <4>1. Range(p.text) \subseteq Range(last'.shown) \cup Left(stub)
        BY <1>5, <2>1, <3>2, TextIsSplit DEF stub
      <4>2. Left(stub) \subseteq Ahead(reading'.todo)
        <5>1. reading'.todo = Append(rest, stub)
          BY <1>4, <2>1, <3>2
        <5> QED BY <1>9, <1>7, <5>1, AheadOfAppend
      <4> QED BY <1>4, <4>1, <4>2
    <3> QED BY <3>1, <3>2
  <2>3. Ahead(rest) \subseteq Ahead(reading'.todo)
    <3>1. reading'.todo = rest \/ reading'.todo = Append(rest, stub)
      BY <1>4, <2>1
    <3> QED BY <1>9, <1>7, <3>1, AheadOfAppend
  <2>4. Range(reading.goal) \subseteq reading.seen \cup Ahead(todo)
    BY <1>10 DEF ReadInv, todo
  <2>5. Left(top) \subseteq Range(p.text) \cup Ahead(rest)
    BY <1>5, <1>8, <1>9
  <2>6. reading.seen \subseteq reading'.seen
    BY <1>4
  <2> QED
    BY <1>2, <1>9, <2>2, <2>3, <2>4, <2>5, <2>6
<1>11. CanReadBack' = CanReadBack /\ reading'.goal = reading.goal /\ hooks' = hooks
  BY <1>4 DEF CanReadBack, Permits
<1> QED
  BY <1>10, <1>11 DEF ReadInv

\* However often a page is itself offloaded: a model that may use read_artifact, and has
\* read a result to its end the way the notes say, has seen all of it.
THEOREM NoGapEverInReading == Spec => []NoGapInReading
<1>1. Init => ReadInv
  <2>1. Init => CleanInv
    BY EmptySeq DEF Init, SessionInit, ToolInit, NotReading, CleanInv
  <2> QED BY <2>1 DEF Init, SessionInit, ToolInit, NotReading, ReadInv
<1>2. ReadInv /\ [Next]_vars => ReadInv'
  <2> SUFFICES ASSUME ReadInv, [Next]_vars PROVE ReadInv'
    OBVIOUS
  <2>1. CleanInv' /\ [ToolNext]_toolVars
    BY ToolSteps, CleanStays DEF ReadInv
  <2>2. CASE UNCHANGED <<hooks, registry, allowed, reading>>
    BY <2>1, <2>2 DEF ReadInv, CanReadBack, Permits
  <2>3. ASSUME NEW names, NEW list, delegate(names, list)
        PROVE  ReadInv'
    BY <2>1, <2>3 DEF delegate, NotReading, ReadInv
  <2>4. CASE start_reading
    <3>1. /\ last.stored \in Seq(Clean)
          /\ last.shown = SubSeq(last.stored, 1, Preview) /\ Len(last.stored) > OffloadOver
      BY <2>4 DEF start_reading, ReadInv, CleanInv, LastClean
    <3>2. Preview \in 1..Len(last.stored)
      BY <3>1, ToolAssumption
    <3>3. Range(last.stored) \subseteq Range(last.shown) \cup Left([body |-> last.stored, from |-> Preview])
      BY <3>1, <3>2, TextIsSplit
    <3>4. /\ reading'.goal = last.stored /\ reading'.seen = Range(last.shown)
          /\ reading'.todo = <<[body |-> last.stored, from |-> Preview]>>
      BY <2>4 DEF start_reading
    <3>5. Ahead(reading'.todo) = Left([body |-> last.stored, from |-> Preview])
      BY <3>4 DEF Ahead
    <3>6. Range(reading'.goal) \subseteq reading'.seen \cup Ahead(reading'.todo)
      BY <3>3, <3>4, <3>5
    <3> QED BY <2>1, <2>4, <3>6 DEF start_reading, ReadInv
  <2>5. ASSUME NEW phase, read_artifact(phase)
        PROVE  ReadInv'
    BY <2>1, <2>5, PageKeepsReading DEF ReadInv
  <2> QED
    BY <2>1, <2>2, <2>3, <2>4, <2>5 DEF ToolNext, toolVars, call, search_tools
<1>3. ReadInv => NoGapInReading
  <2>1. Ahead(<<>>) = {}
    BY DEF Ahead
  <2> QED BY <2>1 DEF ReadInv, NoGapInReading, advertised, CanReadBack
<1> QED
  BY <1>1, <1>2, <1>3, PTL DEF Spec
====
