---- MODULE ToolDispatch ----
(***************************************************************************)
(* One tool call (harness/harness.py, run_tool): the PRE_TOOL hooks judge  *)
(* it (hooks.py), the registry executes it or not (registry.py), the       *)
(* POST_TOOL hooks clean its result, and a result too long for the         *)
(* transcript goes to the workspace and is read back page by page          *)
(* (context.py, workspace.py). Sub-agents hold a narrower registry.        *)
(*                                                                         *)
(* A text is a sequence of tokens: the positions of what a tool returned,  *)
(* a credential, a line that reads like an instruction, a redaction, and   *)
(* the tail by which a page says that there is more.                       *)
(***************************************************************************)
EXTENDS Naturals, Sequences, FiniteSets, SequencesExt

CONSTANTS
    Phases,        \* the phases an agent may be in
    Tier,          \* tool -> tier, for every tool that can be registered
    Trusted,       \* tools whose output comes from inside the firm
    Deferred,      \* tools with defer_loading
    Returns,       \* tool -> what it may return or raise: [text, error]
    HookBuses,     \* sequences of PRE_TOOL hooks an application may install
    ToolLists,     \* the `tools` an agent may be given, AnyTool for None
    AnyTool,
    OffloadOver,   \* settings.offload_over_chars
    Preview,       \* settings.offload_preview_chars
    PageLimit,     \* read_artifact's default limit
    Secret, Instruction, Redacted, More

Tools == DOMAIN Tier
Builtins == {"read_artifact", "search_tools"}

\* A bus is a sequence; a marker is neither a credential nor an instruction; a result
\* is a text. "`trusted=False` marks output that came from outside the firm", so that a
\* result of a trusted tool holds no instruction from outside.
ASSUME ToolAssumption ==
    /\ Builtins \subseteq Tools \cap Trusted
    /\ \A b \in Builtins : Tier[b] = "read_only"
    /\ OffloadOver \in Nat /\ PageLimit \in Nat \ {0} /\ Preview \in 1..OffloadOver
    /\ \A bus \in HookBuses : bus \in Seq(STRING)
    /\ {Redacted, More} \cap {Secret, Instruction} = {}
    /\ \A tool \in Tools \ Builtins : \A result \in Returns[tool] :
         /\ result.text \in Seq(Range(result.text)) /\ result.error \in BOOLEAN
         /\ tool \in Trusted => Instruction \notin Range(result.text)

VARIABLES
    hooks,         \* the bus all harnesses of the run share
    registry,      \* the tools of the harness at work
    allowed,       \* the tool list of the agent at work
    surfaced,      \* deferred tools found by search_tools, shared with children
    workspace,     \* the stored bodies; a handle is the hash of its body
    last,          \* the last call and its outcome
    reading        \* what the model reads: [goal, seen, todo: Seq([body, from])]

toolVars == <<hooks, registry, allowed, surfaced, workspace, last, reading>>

NoCall == [tool |-> "none", ran |-> FALSE]
NotReading == [goal |-> <<>>, seen |-> {}, todo |-> <<>>]
Permits(tool) == allowed = AnyTool \/ tool \in allowed

ToolInit ==
    /\ hooks \in HookBuses /\ registry = Tools /\ allowed \in ToolLists
    /\ surfaced = {} /\ workspace = {} /\ last = NoCall /\ reading = NotReading

----------------------------------------------------------------------------
(* Hooks.                                                                   *)

denies(h, tier, phase) ==
    \/ h = "phase_guard" /\ phase = "verify" /\ tier # "read_only"
    \/ h = "shadow" /\ tier # "read_only"

asks(h, tier) ==
    \/ h = "deny_restricted_without_approval" /\ tier = "restricted"
    \/ h = "ask_before_writing" /\ tier # "read_only"

\* Mutant: the last hook to object decides.
run_pre_tool_last(tier, phase) ==
    LET verdict[i \in 0..Len(hooks)] ==
          IF i = 0 THEN "allow"
          ELSE IF denies(hooks[i], tier, phase) THEN "deny"
          ELSE IF asks(hooks[i], tier) THEN "ask"
          ELSE verdict[i-1]
    IN  verdict[Len(hooks)]

\* The bus in order; a denial is final.
run_pre_tool(tier, phase) ==
    LET verdict[i \in 0..Len(hooks)] ==
          IF i = 0 THEN "allow"
          ELSE IF verdict[i-1] = "deny" THEN "deny"
          ELSE IF denies(hooks[i], tier, phase) THEN "deny"
          ELSE IF asks(hooks[i], tier) THEN "ask"
          ELSE verdict[i-1]
    IN  verdict[Len(hooks)]

Cleaned(text, dirt) == [i \in DOMAIN text |-> IF text[i] \in dirt THEN Redacted ELSE text[i]]

\* Mutant: the hooks see no more than the preview.
run_post_tool_preview(tool, result) ==
    LET dirt == {Secret} \cup (IF tool \in Trusted \/ result.error THEN {} ELSE {Instruction})
    IN  [i \in DOMAIN result.text |->
            IF i <= Preview /\ result.text[i] \in dirt THEN Redacted ELSE result.text[i]]

\* defang_untrusted_content passes errors over, redact_secrets nothing.
run_post_tool(tool, result) ==
    Cleaned(result.text,
            {Secret} \cup (IF tool \in Trusted \/ result.error THEN {} ELSE {Instruction}))

----------------------------------------------------------------------------
(* The call.                                                                *)

\* What the agent's model is shown of the registry (in the phases the tools name).
advertised == {t \in registry : Permits(t) /\ (t \in Deferred => t \in surfaced)}

\* registry.execute refuses what is not registered or not on the agent's list;
\* whether a deferred tool was surfaced it does not ask.
execute(tool, result) ==
    IF tool \in registry /\ Permits(tool)
    THEN [text |-> result.text, error |-> result.error, ran |-> TRUE]
    ELSE [text |-> <<>>, error |-> TRUE, ran |-> FALSE]

run_tool(tool, phase, approved, result) ==
    LET tier == IF tool \in registry THEN Tier[tool] ELSE "read_only"
        verdict == run_pre_tool(tier, phase)
        denied == verdict = "deny" \/ (verdict = "ask" /\ ~approved)
        out == IF denied THEN [text |-> <<>>, error |-> TRUE, ran |-> FALSE]
               ELSE execute(tool, result)
        text == run_post_tool(tool, out)
        offload == ~out.error /\ Len(text) > OffloadOver
    IN  /\ last' = [tool |-> tool, phase |-> phase, approved |-> approved,
                    ran |-> out.ran, error |-> out.error,
                    shown |-> IF offload THEN SubSeq(text, 1, Preview) ELSE text,
                    stored |-> IF offload THEN text ELSE <<>>]
        /\ workspace' = IF offload THEN workspace \cup {text} ELSE workspace

call(tool, phase, approved) ==
    /\ tool \notin Builtins /\ reading.todo = <<>>
    /\ \E result \in Returns[tool] : run_tool(tool, phase, approved, result)
    /\ UNCHANGED <<hooks, registry, allowed, surfaced, reading>>

\* search_tools looks through all the registry and surfaces what it finds.
search_tools(phase, hits) ==
    /\ reading.todo = <<>> /\ hits \subseteq registry
    /\ run_tool("search_tools", phase, FALSE, [text |-> <<>>, error |-> FALSE])
    /\ surfaced' = IF last'.ran THEN surfaced \cup hits ELSE surfaced
    /\ UNCHANGED <<hooks, registry, allowed, reading>>

\* AgentNode: a sub-agent with its own tool list and a cloned registry. clone()
\* without names clones everything.
clone(names) == (IF names = {} THEN registry ELSE names) \cup Builtins

delegate(names, list) ==
    /\ reading.todo = <<>> /\ names \subseteq registry
    /\ registry' = clone(names) /\ allowed' = list
    /\ last' = NoCall /\ reading' = NotReading
    /\ UNCHANGED <<hooks, surfaced, workspace>>

----------------------------------------------------------------------------
(* Reading an offloaded result back, the way its note and its pages say.    *)

\* Mutant: the page says that the next one begins after the limit it was read with,
\* its tail included.
Page_counting_tail(body, from) ==
    LET end == IF from + PageLimit < Len(body) THEN from + PageLimit ELSE Len(body)
    IN  [text |-> SubSeq(body, from + 1, end) \o (IF end < Len(body) THEN <<More>> ELSE <<>>),
         end |-> IF end < Len(body) THEN end + 1 ELSE end, more |-> end < Len(body)]

Page(body, from) ==
    LET end == IF from + PageLimit < Len(body) THEN from + PageLimit ELSE Len(body)
    IN  [text |-> SubSeq(body, from + 1, end) \o (IF end < Len(body) THEN <<More>> ELSE <<>>),
         end |-> end, more |-> end < Len(body)]

\* "First N characters follow; call read_artifact(handle, offset=N) for the rest."
start_reading ==
    /\ last # NoCall /\ last.stored # <<>> /\ reading.todo = <<>>
    /\ reading' = [goal |-> last.stored, seen |-> Range(last.shown),
                   todo |-> <<[body |-> last.stored, from |-> Preview]>>]
    /\ UNCHANGED <<hooks, registry, allowed, surfaced, workspace, last>>

\* A page longer than what may be pasted is itself stored: the model then has a
\* new handle to read before it goes on with the old one.
read_artifact(phase) ==
    /\ reading.todo # <<>>
    /\ LET top == Last(reading.todo)
           page == Page(top.body, top.from)
           below == Front(reading.todo)
           rest == IF page.more THEN Append(below, [top EXCEPT !.from = page.end]) ELSE below
       IN  /\ run_tool("read_artifact", phase, FALSE, [text |-> page.text, error |-> FALSE])
           /\ reading' = [goal |-> reading.goal,
                          seen |-> reading.seen \cup Range(last'.shown),
                          todo |-> IF ~last'.ran THEN <<>>
                                   ELSE IF last'.stored = <<>> THEN rest
                                   ELSE Append(rest, [body |-> last'.stored, from |-> Preview])]
    /\ UNCHANGED <<hooks, registry, allowed, surfaced>>

ToolNext ==
    \/ \E t \in Tools, p \in Phases, a \in BOOLEAN : call(t, p, a)
    \/ \E p \in Phases, hits \in SUBSET Deferred : search_tools(p, hits)
    \/ \E names \in SUBSET (registry \ Builtins), list \in ToolLists : delegate(names, list)
    \/ start_reading
    \/ \E p \in Phases : read_artifact(p)

----------------------------------------------------------------------------
\* A tool runs only if the harness at work holds it, its agent may use it, no
\* hook on the bus denies it, and where a hook asks a human has approved,
\* whatever the order of the hooks. (hooks.py: "First DENY wins; ASK does not
\* override DENY"; "absence of an approver is a denial, never an allow";
\* "A verify-phase agent must not be able to change anything".)
OnlyPermittedToolsRun ==
    last.ran =>
        /\ last.tool \in registry /\ Permits(last.tool)
        /\ \A i \in DOMAIN hooks :
             /\ ~denies(hooks[i], Tier[last.tool], last.phase)
             /\ asks(hooks[i], Tier[last.tool]) => last.approved

\* No credential is in the transcript or in the workspace, and no instruction
\* from outside is, save in the text of an error: the hooks work on a result
\* before it is stored, and what is read back was cleaned when it was stored.
\* (hooks.py: "A key that lands there once is in the run forever".)
NothingUncleanKept ==
    /\ \A body \in workspace : {Secret, Instruction} \cap Range(body) = {}
    /\ last # NoCall =>
         /\ Secret \notin Range(last.shown)
         /\ last.tool \notin Trusted /\ ~last.error => Instruction \notin Range(last.shown)

\* A model that reads an offloaded result the way the notes say misses nothing,
\* even when a page is offloaded again, as a full page with its tail is by
\* default; unless its own tool list leaves read_artifact out.
\* (context.py: "a truncated result never becomes a dead end".)
NoGapInReading ==
    reading.todo = <<>> /\ reading.goal # <<>> /\ "read_artifact" \in advertised
        => Range(reading.goal) \subseteq reading.seen
====
