# A verification development for pyligent-agents

TLA+ models of the library `src/src/pyligent_agents`, of `src/src/evidencecheck`
and of the applications that ship with them, TLC configurations that check them
on small instances, and TLAPS proofs for every instance.
`PROJECT.json` lists the runs, the theorems, the hazards, and for every
definition the lines of code it translates.

## 1. The system

pyligent-agents is a Python library for running language-model agents under
control. From the bottom up:

| part | state it keeps | operations | talks to |
|---|---|---|---|
| graph store (`graph/store.py`) | SQLite: `runs`, `node_runs`, `effects`, `spans` | save/load a run, start/finish a node, claim/record/release an effect | runner |
| graph runner (`graph/runner.py`, `state.py`) | per execution: cursor, statuses, cached checkpoints, blackboard | `start`, `resume`, and the loop behind both | store, nodes |
| graph nodes (`graph/nodes.py`) | none (closures) | `execute`: Step, AgentNode, GateNode, HumanGate, MapNode (threads), ReduceNode | blackboard, harness |
| graph construction (`graph/graph.py`) | nodes, insertion order | `add`, `validate`, `topological`, `layers` | runner |
| agent loop (`loop/agent.py`, `contract.py`, `stop.py`) | transcript, artifact, outcomes, feedback | `run`: call the model, dispatch tools, verify, stop or push back | harness, recovery, verifier |
| recovery policy (`loop/recovery.py`) | retries per tool, consecutive failures | `decide`, `on_success` | agent loop |
| governor (`harness/governor.py`) | calls, spend, usage, deadline, caps | `check` before and `record` after a model call | every harness of a run |
| tool dispatch (`harness/harness.py`, `hooks.py`, `registry.py`) | hook bus, tool specs, surfaced tools | `call_model`, `run_tool`, `child` | governor, ledger, client |
| context and workspace (`harness/context.py`, `workspace.py`) | messages, artifacts | append, compact on a safe cut, offload a long result | client |
| memory (`harness/memory.py`) | notes with bindings to sources | write, recall, inject | agent |
| verification (`verify/`) | none | gate sets, the shared gates, the document verifier | applications, agent loop |
| evidence checks (`src/evidencecheck`) | the text of a page with its locators | flatten a page, judge each field's citation, exit code | reconciliation |
| reconciliation (`reconcile.py`, `cli.py`) | reports per document | compare an extraction with a system of record | evidence checks |
| records (`record/types.py`) | an immutable record and its status | certified, admitted, referred, abstained, to and from an artifact | applications |
| evaluation (`evals/`) | dataset, report, baseline | run every case, score, compare with a baseline | intake |
| start-up (`config.py`, `config_file.py`, `credentials.py`, `runtime.py`) | environment, configuration file | choose a client, parse a file, doctor, setup | everything |
| document intake (`examples/document_intake`) | artifact, gate report | load, extract, assemble, verify, gates, accept or refer | graph, verification |
| collateral (`examples/collateral`) | constraint pack, certificate | derive constraints, certify, compare with the margin system | intake |
| run ledger (`observability/trace.py`) | an append-only list of events | record, error | everything |

Where it is hard:

* **Graph runs survive crashes and are resumed**, possibly by two processes at
  once. Every statement to the store is its own transaction (`isolation_level=None`),
  so a process may die, and another may step in, between any two of them. The
  effects ledger, the checkpoints and the saved blackboard must still agree.
* **Effects happen in the outside world**, which can be told once and asked
  never: claim, act and record are three moments.
* **The governor is shared** by all agents of a run, and by the threads of a
  parallel `MapNode`, without a lock; agents write their caps into it.
* **The agent loop** combines retries, recovery, verification, stop conditions
  and compaction; each bounds the others only indirectly.
* **Verification** must fail closed, and a discrepancy must rest on a citation
  that was itself checked. What a model says is never evidence: it may misread,
  cite what is not there, or answer with keys that belong to the application.
* **Whether a citation is in a document** is decided in four places, each with its
  own idea of which characters count; which of them a decision rests on matters.
* **Tool calls** pass hooks, a registry and a workspace; what a hook denied or
  cleaned must stay denied and clean through sub-agents and through paging.
* **Notes outlive the documents** they were derived from.

What makes each part correct: the store's statements are conditional on the
status they find; the runner acts at most once per key, never enters a finished
node, rebuilds on resume what the first execution saw, and ends; the governor
never lets a run spend more than its cap and the calls in flight; the loop
returns `ok` only for what its verifier and stop condition accepted; compaction
never orphans a tool call and keeps the task; a note is offered only while its
sources are unchanged; gates never pass by crashing; what is loaded, certified or
reported as a discrepancy rests on words that are in the document; a comparison
with a baseline passes only if no more flawed documents were let through.

## 2. What is modelled, and how it maps to the code

### `GraphStore`: the durable store

The three tables as three variables, one operator per SQL statement. A row
that does not exist has status `"none"` (runs, node_runs) or `"free"`
(effects). Faithful details that matter:

* `finish_node` is an `UPDATE`: it does nothing to a node that was never
  started, so a skipped or blocked node leaves no row;
* `start_node` keeps the old output in the row it updates;
* `record_effect` and `release_effect` address *any* claimed row of the key;
* values go through `json.dumps(default=str)` and back: `Json` is any function
  whose results are fixed points, not the identity.

### `GraphRunner`: workers executing one run

`exec[w]` is what process `w` holds in memory: the locals of `_execute` and
`_run_node` and a program counter. The actions are the points at which the code
reads or writes the store or the outside world acts:

| action | code (`runner.py`) |
|---|---|
| `start`, `resume` | 88-103 |
| `read_checkpoints` | 109-113, the only read of the checkpoints |
| `replay_checkpoint`, `pass_over`, `complete` | 120-127, 129-143, 160-168 |
| `enter_unkeyed`, `claim`, `lose_claim`, `lookup` | 177-189; `claim_effect` is two statements, so a refused `INSERT` and the `SELECT` after it are two actions |
| `replay_effect` | 180-188 |
| `start_attempt`, `land`, `succeed`, `raise`, `ask_approval` | 210-237: "started", then the node's own code: its effect happens, it returns, raises or asks |
| `record`, `record_nothing`, `insert`, `release` | 253-254, 222-223, 242-243; the `UPDATE` and the `INSERT` of `record_effect` are separate |
| `finish`, `checkpoint` | 200-201, 224-225, 244-245, 256-260 |
| `compensate`, `block_dependents`, `stop` | 301-316, 267-278, 145-158 |
| `crash` | a killed process, or an exception nothing catches |

Two variables stand for the outside world: `landed[k]`, how often the effect of
key `k` happened, and `undone[n]`, how often node `n` was compensated. They
survive everything. A node's own code does what `Outcomes[n]` allows: `"ok"`
(acts and returns), `"declined"` (raises, did not act), `"timeout"` (raises,
did act), `"approval"` (asks before acting). A `HumanGate` asks until its
decision is on the blackboard. The idempotency key is a function of the
blackboard, as in the code, so a changed blackboard can change the key.

Left out: spans and the in-memory ledger, `RunResult`, attempt numbers and input
hashes in the rows, back-off times, the goal and version of the blackboard.
One `Slots` namespace holds data keys and recorded outputs; `Published` says
which of them an output lands in (`_reinstate`).
Threads of a parallel `MapNode` are inside one node; `Fanout` models them.

### `EffectPromise`: the abstract specification

What ADR 0003 promises of one key: claimed before the effect, the effect once
and under a claim, given up only when it did not happen, recorded for good.
`GraphRunner` is checked and proved to implement it (`KeepsPromise`), with
`row[k] = effects[k].status`, `landed` being itself.

### `Transcript`: the message list and its compaction

A message is its kind, the tool calls it opens and the tool calls it answers.
`compact` and `safe_cut` are the code's, `Accepted` is what the model's API asks
of a transcript that is sent: each call answered once, in order, by the next
message.

### `AgentLoop`: agents that share a governor

`agent[a]` is what agent `a` holds: its `LoopState`, the messages of its context
and its `RecoveryPolicy`, which is created with the agent and lives through all
its runs. `spent` and `cap` are the governor's. A step is what an agent does
between two calls of the model or of a tool, since those are the points at which
another thread can get in or the world can surprise it:

| action | code |
|---|---|
| `construct`, `run` | `agent.py` 124-155 (the cap is overwritten), 159-166 |
| `compaction` | 186-191, `context.py` 144-211 |
| `call_model`, `budget_exhausted`, `call_fails` | `harness.py` 154-174: the check, and the request under way |
| `refused`, `wants_tools`, `candidate` | `agent.py` 198-215, with `governor.record` |
| `tool_succeeds`, `tool_fails`, `retry`, `send_results` | 248-291 with `recovery.py`, 205-209 |
| `probed`, `verifier_objects`, `stops`, `not_done` | 293-323, 216-236 with `stop.py` |
| `fail`, `Continue`, `push_back` | 337-360, the `for` of 182, 325-333: parts of the actions above |

An artifact is the turn it was extracted in and what is true of it: whether the
verifier would approve it, the gates hold of it, it has the key that `Produced` asks
for. The clock is a check that may fail at any time; the size that triggers a
compaction is arbitrary. `streak`, the failed calls in a row, is an observer that no
action reads. Left out: token usage and spend per model, offloading and hooks
(`Fanout` and `ToolDispatch` have them), stop conditions nested deeper than one
operator, exceptions out of an extractor or a gate. The verifier's own work is
inside one step.

`spent_usd += cost` is one step: CPython does not hand over its lock between the
load and the store of it (it may around `usage`: see `Fanout`).

### `Session`: the rest of the library

Each of the six is a module of its own; `Session` puts them together as activities
of which a behaviour is one. They share no state in the code, so nothing is lost
by it, and nothing is claimed of their interaction.

* `Startup` (`credentials.py`, `runtime.py`, `client.py`, `doctor` and `setup` of
  `cli.py`): two credential variables that are unset, blank or set, the SDK, which may
  be missing, and the login profile it may find, the backend setting and the arguments
  of `build_stack`. `told` is the set of statements made to the user, one per line that
  `doctor` and `setup` choose between; then come the client that is built, which may
  fail for want of the SDK, and how its call goes.
* `ConfigFile` (`config_file.py`): lines with an indentation, a key and a value or
  none; a missing file and a line without a colon are `ConfigError`s. `scalar` is
  what `_scalar` makes of a text (any function). `parse` keeps the stack of open
  maps as the code does; the property compares with the meaning of indentation,
  defined without a stack.
* `GraphBuild` (`graph.py`): `add`, `validate` with its five checks in order,
  `_ancestors`, `topological` (Kahn's queue in the code's order) and `layers`,
  against what is above a node: the least set that has its dependencies and those of
  its members. Names are ranks, so renamed graphs are one; a visit of Kahn's queue
  (`visit`) is one round of the `while`, the rounds are a function of their number.
* `Fanout` (`nodes.py` 185-208, `governor.py`, `trace.py`): the children of a
  `MapNode` on a pool, each making one call; a thread can be interrupted where
  Python calls a function. `consume` is the caller's iteration over `pool.map`.
* `ToolDispatch` (`harness.py`, `hooks.py`, `registry.py`, `workspace.py`,
  `context.py` 115-137): `run_tool` from the first hook to the offloaded result,
  `search_tools`, a sub-agent's narrower registry, and reading an offloaded result
  page by page. A text is a sequence of tokens, of which one is a credential, one
  an instruction.
* `Memory` (`memory.py`): notes as files by slug, bound to versions of documents
  that go on changing; `write`, a write cut short by a crash, `forget`, `recall`,
  `inject`. The ranking of recall is an arbitrary choice among its hits.

### `Application`: from a page to a decision

* `Evidence` (`normalize.py`, `checks.py`, `verifier.py`): a document is a set of
  clauses; a citation is a clause and how it was written down (exact, wrapped,
  without invisible characters, with an ellipsis, reworded ...). The four
  predicates that decide whether it is in the document differ in which of these
  they accept. An amount carries its groups of digits and separators, its unit and the
  words beside it, so that `parse_number`'s choice of the decimal mark and what it
  refuses are modelled; numbers are compared as such, with any zeros after them. A date
  is the set of days it can be read as and the numbers it shows. `check_field` first
  asks whether the printed value occurs in the quote, be it inside a longer figure
  (500 in "USD 500,000"): that is the relation `Spells`.
* `EvidenceCheck` (`sources.py`, `cli.py`, `report.py`): the HTML flattener, tag
  by tag, and the command with its exit codes.
* `DomainGates` (`verify/gates.py`, `documents.py`, `cdm.py`): the shared gates,
  those of a Credit Support Annex, an invoice and a KYC pack, and the mapping of an
  annex to CDM. A gate set is a function from gate names to verdicts. Money is in
  cents. The code computes with floats, which differ from that in two places:
  `abs(x - y) <= 0.01` of amounts one cent apart (1.00 and 1.01 are refused, 52.40 and
  52.41 pass) and a gross total that ends in half a cent; the constants `CloseFloats`
  and `RoundedUp` say how they decide, in the instance as Python does. The non-bank
  markers are a relation on the proof of address, since they are looked for as
  substrings ("emi" in "Premier").
* `Intake` (`document_intake/app.py`, `verifier.py`): load, extract, assemble,
  verify, gates, accept or refer. The extractor may misread in twelve ways,
  cite in eight, and forge keys; the verifier may approve of anything.
* `Constraints` (`constraints.py`, `shadow.py`, `app.py`): `build_pack` with the
  provenance of every constraint, `certify`, the shadow comparison. As in the code
  it takes whatever intake extracted, accepted or not.
* `Reconciliation` (`reconcile.py`, `cli.py` 398-553): from export rows to exit
  code and exceptions file, with duplicate keys, unreadable files and documents
  without terms. `numeric` has both ways of reading a number: `parse_number`, and, for
  what that refuses, the first run of digits once the commas are gone (`first_number`:
  "1.234,50 per Transaction" is 1.2345); `currency_of` sees only a code that stands
  alone.
* `Evaluation` (`evals/`, `run_evals.py`): the dataset grows between evaluations,
  cases raise, the scores become a baseline or are compared with it. A metric is in
  ten-thousandths, as a report rounds it. Where floats decide (a rate halfway between
  two of these, a difference of exactly a tolerance) either may happen.
* `Record` (`record/types.py`): transitions in any order, and the way to an
  artifact and back.

`Application` puts these and `Session` together in the same way: twelve
activities, one per behaviour, the other variables at rest. The programs are
separate processes.

## 3. What TLC checks

| run | system | shows |
|---|---|---|
| `GraphSequential` | one process, reserve -> human gate -> guarded issue, up to 4 starts/resumes, values the encoding changes, failures and crashes | type correctness, prefix settled, checkpoint and ledger agree, a pause holds no claim, resume rebuilds the blackboard, the promise, done stays done, every execution ends |
| `GraphRace` | two processes, two keyed nodes that always succeed, 3 starts/resumes | at most once, known to the ledger, the promise |
| `GraphContention` | two processes, nodes that also decline and time out | records are true and final, only what happened is undone |
| `GraphReleasedClaim` | two processes, one node may decline | **violates** at most once |
| `GraphTimeout` | one process, a node may time out | **violates** "what happened is known" |
| `GraphCompensation` | one process, the second node may fail twice | **violates** "undone as often as it happened" |
| `AgentAlone` | one agent, one tool, single and parallel calls that fail in three ways, self-check, `Produced & GatesPass`, compaction at any turn, 4 turns, asked twice | types and retry limits, transcripts accepted, the task kept, ok means done, thrashing stops, every run ends |
| `AgentsTogether` | two agents, budgets of 2 and 3, calls of 1 or 2, one degrading with `Produced \| GatesPass`, one with self-check | ok means done, spending bounded |
| `AgentCutOff` | as `AgentAlone`, with replies cut off inside a tool call | **violates** "every call answered" |
| `AgentsOverwrite` | two agents, the second with the larger budget | **violates** "one budget for the run" |
| `Application` | the twelve activities of `Session` and `Application` | the properties below |
| `ReconcileUncited` | the same | **violates** "a discrepancy is only raised when the citation survives checking" |

`Application` shows, activity by activity:

| property | what could go wrong |
|---|---|
| `DoctorTellsTruth` | the user is told of another backend than the one that runs, that no text leaves, or that calls work, and it is otherwise, in a configuration that is not known for it |
| `FileMeansItsIndentation` | a value lands at another path than its indentation says |
| `VerdictIsRight` | `validate` passes a graph that cannot run, or refuses one for what it is not |
| `MapIsFaithful`, `MapEnds` | answers out of order, threads left behind, an exception lost, a pool that waits for ever |
| `AccountsExact` | money or events lost between threads, tokens invented, a budget overdrawn by more than one call per thread |
| `OnlyPermittedToolsRun` | an approval outweighs a denial; a sub-agent reaches a tool it was not given |
| `NothingUncleanKept` | a credential or a planted instruction past the preview, or read back from the workspace |
| `NoGapInReading` | a page that is offloaded again leaves a gap |
| `ShownIsSound` | a stale, unchecked or damaged note reaches a model, or one that `used` does not name |
| `EvidenceIsJudgedRightly` | visible text lost or hidden text kept, a citation in the wrong cell, a correct field reported, one passed that its citation is not there for or contradicts |
| `AcceptedOnEvidence` | a model's own keys or approval make up for evidence |
| `LoadedIfRight` | a misread or incoherent document is loaded, one that is right to the cent refused, CDM says something else than the annex |
| `CertifiedIsTraced` | a certified pack lacks a row, an election or the agreement's words for it, or a complete extraction is not certified |
| `ReconciledRightly` | the system is accused wrongly, a difference is called agreement, an ambiguous row is used, the exit code is wrong |
| `ReportIsTheRun` | a case is counted under another fate than its own, a crash as an accept; a grown dataset hides a false accept |
| `RecordTells` | transitions or conversions lose a question, a gate report or the evidence |
| `ApplicationTypeOK` | a type is left, a counter passes its bound |

Bounds. `MaxLaunches` (3 or 4) bounds calls of start and resume and with them
everything else; a violation of the promise needs one execution to die or lose
and one to come after, and the fourth launch of the sequential run lets a
resumed run pause, fail and be resumed again. Two workers are the race the code
speaks of. Three nodes give a dependency, a transitive dependent and a gate
between two keyed nodes; two keys are the smallest number at which a claim of
one can be mistaken for another's. `Value` has a value that JSON changes, its
encoding, and a decision. Four turns and `KeepRecent = 1` let a transcript be
compacted twice, with the wanted cut between a tool call and its results, or not.
Limits of one
retry and one failure are passed within three tool calls, and the second run
starts from the counters of the first. Two agents with three calls between them
exceed either budget. No symmetry is used. Deadlock checking is off: when
the launches are used up, or every agent has run its tasks, or a program has
ended, the system may really stop.

The bounds of `Application`. Files of three lines with three depths have a map
inside a map and a return past both; every graph of three nodes with up to two
dependencies each, unknown, repeated and circular ones among them, has a chain, a
diamond without its top, and a requirement two steps away. Three items on two
threads leave one queued when another raises; a cap of 2 is passed by calls of 1 and
2. A result of eight tokens, pages of three and previews of one make a page that is
offloaded again, and a chain of three handles. Four hook buses are the two pairs in
both orders. Notes are under three titles of which two share a file, from two
documents that change once. Pages are pairs of eight blocks: a paragraph, tables
with one and two cells, hidden and nested hidden runs, a void tag, a `body` that
ends what was left open. Annexes have thresholds and transfer amounts below, at and
above each other, zero, and per party; invoices and packs are one in order and those
with one thing wrong, at the boundary of every tolerance (a cent that floats allow
and one they do not, half a cent to round up and down, an age, 180 days, a provider
called Premier, a proof by an online-only bank), and one invoice has a first line of
two cents, so that it can be missed within the tolerance. Extractions are faithful
or misread in one way; a bad citation is on the field the gate is about. Schedules
have up to two rows with every combination of percentage and quote. Exports have up
to three rows, portfolios two documents; their amounts are plain, with a unit apart
or flush, with words, with apostrophes, and in both decimal conventions. The clauses
that are cited show figures whose parts are values too. Two evaluations with up to
three cases are enough for a baseline, a case added, and a check. Of a document's
fields those that are neither required nor looked at by a gate are left out
(`independent_amount`, `supplier`, `purchase_order` and their like).

Fairness. `ExecutionsReturn`, `RunsEnd` and `MapEnds` need it. The runner has
weak fairness of each worker's `Execute`, since a live process goes on executing
its loop and never waits for another (SQLite's own lock wait is inside one
statement); an agent has weak fairness of its `Step`, since its calls return or
raise; a `MapNode` that is running has weak fairness of `FanoutStep`, since a thread
that can go on is scheduled and `pool.map` waits for nothing but its children.
Nobody is obliged to start, resume, crash, construct or run.

### Where the code and its documents disagree

1. **A released claim reads as ours** (`store.py:229`). `claim_effect` answers
   with `get_effect` when its `INSERT` is refused. If the holder releases in
   between, `get_effect` finds nothing and returns `None`, which `_run_node`
   takes for a claim of its own: it acts without one, and another worker can
   claim the key and act too.
2. **A timeout releases its claim** (`runner.py:230-243`), and the attempts
   before it act again under the same claim; `release_effect` says it must not.
3. **An undone node is still done** (`runner.py:307-316`). Compensation leaves
   checkpoint and ledger as they are. The resumed run replays the undone node,
   and either completes on top of it or undoes it again.

4. **A reply cut off inside a tool call stays open** (`agent.py:212`). With
   `stop_reason` `max_tokens` it is a candidate, although its content may hold a
   `tool_use`; when it is pushed back, the next request has a call that nothing
   answers (`docs/HARNESS.md:70`: "a 400 on the very next request").
5. **An agent overwrites the cap it shares** (`agent.py:155`). Each agent writes
   its contract's budget into the run's governor; a sub-agent with a larger one
   raises the cap for all, where `docs/HARNESS.md:244` says one budget for the run.
6. **A discrepancy without a clause** (`reconcile.py:277`). The evidence check says
   once, for no field in particular, that an extraction cites nothing;
   `reconcile` looks for findings of the field, sees none and reports every
   difference as a discrepancy, with an empty clause and exit code 1.
   `reconcile.py:11` says a discrepancy is only raised when the citation survives
   checking.

Further observations on agents, without a run: the self-check takes any reply
that contains "VERIFIED" for approval, "not verified" included (`agent.py:309`);
`RETRY_ONCE` behaves like `ESCALATE`; an exception of the client leaves `run`
even with `DEGRADE`; the policy does not count failed retries, and after it
escalated the other calls of the turn are still made; its counters carry over to
the agent's next run, so that retries can be used up before it starts; with
`history` the first message is not the task, and a compaction can fold the task;
the model call of a compaction is not metered (`context.py:167`); a truncated
text satisfies `ModelSaysDone`; with `|` a result may carry the gate report of an
earlier turn.

Further observations on graphs: `docs/GRAPH.md:134` shows the run that died
inside the effect being replayed from the ledger, where the code stops it as
unresolved; a worker that loses a claim marks the node failed over the winner's
checkpoint, and compensates what the winner did; `resume` does not write
`running`, so a completed run may be executing; a process that dies between
claim and `start_node` leaves a claim that only a human can remove.

Further observations, without a run (each is what the code does and the model
shows, none is ruled out by a property; where a property leaves one out, its
comment says so):

* *Start-up.* Of `anthropic` without a credential doctor's section on data residency
  says that the deterministic backend runs and that no text leaves (`cli.py:598`),
  although the real client is built, as the note it prints beside the backend says and
  the comment at `cli.py:565` asks for; with a login profile the text is then sent. Of
  `scripted` with a credential setup says that calls are billed; where the SDK is
  missing both speak of calls that are never made. `Misstated` lists these, and
  `DoctorTellsTruth` says that there are no others. `detect` passes over a blank
  variable which `build_backend` counts (left out of the property),
  and neither doctor nor setup looks for the SDK's login profile. Lists in a
  configuration file are dropped. A reference key without a value makes the secret
  scan take the next line for its value. An unknown model is priced at a fixed
  (5, 25).
* *Graphs.* A dependency written twice is refused as "not a DAG". `MapNode`'s
  threads can lose tokens in `governor.usage` and give two events one number.
* *Tools.* The registry's comment says that tier and phase are enforced on
  dispatch; `execute` checks neither, nor whether a deferred tool was surfaced.
  `clone()` without names copies every tool. A sub-agent whose list lacks
  `read_artifact` cannot read what was offloaded for it. A full page with its tail
  is by default longer than what may be pasted, and offloaded again.
* *Memory.* `inject` hands `strict` on but asks `usable`, which does not know it.
  A note with several sources of which one was checked counts as fresh. Notes the
  budget cuts off count as used. A note file that does not parse blocks writing to
  its title until it is forgotten.
* *Evidence.* The gates pass a quote of nothing but invisible characters
  (`contains` after `squash`), which `check_field` does not. When no field cites
  anything, `evidence-check` succeeds under `--fail-on critical`. "5.000" is read as
  5.0. A value whose characters occur in the quote is never reported: 500 cited from
  "USD 500,000" passes. An amount with words, or with a unit `parse_number` does not
  know ("US$", "SEK"), is compared with nothing. The digits of a date count as a
  competing number. A stub with an ellipsis is
  reported as fabricated.
* *Intake.* `no_silent_repair` is in no document's gate set. An annex that elects
  per party, or is silent on rounding, is always referred, since the shared fields
  are required although the prompt says to leave them out. A swap of threshold and
  transfer amount is not seen when one of them is zero. The prompt names no field
  for a rounding's conditions nor for its currency: a conditional rounding that is
  otherwise standard counts as Variant 1 and lands without its condition. The
  extraction's own `kind` and `document_id` override the document's; the one decides
  whether CDM is made, the other under which id the document lands. An annex with
  several eligible currencies is always referred. A difference of a cent between lines
  and total passes or not as the digits go. "Premier" is refused for the "emi" in it.
* *Constraints.* An amount for one party drops the shared one for the other. The
  digits of a percentage may be part of another number. The shadow report quotes
  clauses nobody checked, and runs on referred artifacts. A quote that was only
  rewrapped passes the gates and fails here. An independent amount becomes a
  constraint of kind "threshold" (`constraints.py:361`), so that an agreement with one
  and no threshold is certified, though `certify` says that a pack without a threshold
  cannot describe a margin call at all (406).
* *Reconciliation.* Of dates, and of texts with several numbers, only the first
  number is compared: "2024-03-14" and "2024-09-30" agree, and so do "2026-01-01"
  and an amount of 2026. Where `parse_number` refuses a value the commas are
  dropped, be they decimal or not: "1.234,50 per Transaction" is 1.2345 and differs
  from "1,234.50 per Transaction". A code flush with its amount ("EUR250000") is no
  currency, so that it agrees with dollars. An apostrophe between digits is taken
  for a word. Files that cannot be read, and fields that are only unverified, leave
  exit code 0.
* *Evaluation.* A crash on a flawed document counts as a true referral, for the
  wrong reason, where the comment says "on the unsafe side ... so a crashing system
  cannot look safe" (`metrics.py:231`): it lowers the rate of false accepts, which
  `ReportIsTheRun` states as it is; its fields are not counted. A fall of the rate
  of valid citations by less than a ten-thousandth is hidden by the rounding. Citing
  nothing is 100 % evidence validity. Regressions without `--check` exit 0.
  `run_by_kind` does not contain errors.
* *Records.* `types.py:29` calls transitions one-way, and any order is possible. The
  way through an artifact loses status, review, gate report and locators.

## 4. What is proved

Everything here holds for every value of the constants that the named assumptions
allow; TLC evaluates each assumption on the instances it checks.

| module | proves of |
|---|---|
| `GraphRunnerProofs` | `GraphRunner`: types, prefix, ledger, the refinement of `EffectPromise` |
| `GraphSequentialProofs` | `GraphRunner` with one process at a time |
| `AgentLoopProofs` | `Transcript` and `AgentLoop` |
| `ApplicationProofs` | `Startup`, `Memory`, `Record`, `Intake`, `Evaluation`, `Constraints`; the types of `Application` |
| `FanoutProofs`, `ToolProofs`, `GraphBuildProofs` | the modules of these names |
| `ReadingProofs` | `Evidence`, `EvidenceCheck`, `Reconciliation`, `ConfigFile`, `DomainGates`, `Intake` |

`GraphRunnerProofs`, for every graph, store, number of workers and bound:

* `TypeCorrect`. `TypeOK` is not inductive alone; `TypeInv` adds that a worker
  inside a node has a node, one about to use a row has a key, and one that
  settles has the verdict paused or failed.
* `PrefixAlwaysSettled`. `PrefixInv` adds to the property that the node being
  checkpointed is done, so that the cursor moves past it safely.
* `RecordedAlwaysLanded`, `UndoneAlwaysLanded`. `LedgerInv` carries what a
  worker knows from where it stands: between the effect and the record the
  effect of its key happened; a node that is done in a checkpoint, or in the
  memory of any execution, had an effect. It is stable because the outside
  world only moves forward (`WorldMovesOn`).
* `RecordedStaysForever`, an action property: each statement that could touch
  a recorded row asks for a free or a claimed one.

The same module: `EffectsHappenOnce`, `EffectsAreKnown` and the refinement
`RunnerKeepsPromise`, under two conditions, which are what the first two
counterexamples above take away:

* `Honest`: no keyed node raises after its effect happened;
* `Exclusive`: one worker at a time, or no keyed node ever releases its claim.

`HoldInv` says that from claim to record or release a worker owns its key: the
row is claimed, no other worker is in that interval with the same key, and the
effect has happened exactly if it stands after `land`. `claim`, `land`, `record`
and `release` then map to the four steps of the promise and every other step to
a stutter.

`GraphSequentialProofs`, under `OneWorker`: one process executes the run at a time,
and may die anywhere and be followed by another. Without it none of the four holds
(the loser of a claim writes over the winner's checkpoint):

* `DoneIsBacked`, `PausedHoldsNoClaim`, `ReplayRebuilds` and the action property
  `DoneStaysDone`, all from `SeqInv`. It relates memory and store: what the ledger
  says of a worker's key follows from where the worker stands, claimed from `claim` to
  `record` and recorded with its own output after (`OwnsKey`); the
  statuses it holds of finished nodes are those of the rows, what it cached is what
  the rows say, and the node it works on is not done (`Mirrors`); its blackboard has
  what each finished node before the cursor published, unless a later one may have
  written over it (`Rebuilt`); a value read back from the store is a fixed point of
  `Json` (`ReadsBack`). `DoneIsBacked` alone is not inductive: `checkpoint` writes
  what the worker remembers, and only `OwnsKey` says that the ledger agrees.
* `ReplayRebuilds` speaks of the slots that no later node writes: a later node may
  have saved its own value before the process died.

`AgentLoopProofs`, for every number of agents, contracts, tools, turns and runs:

* `AgentTypesCorrect` and `OkAlwaysDone`, from `AgentInv`: what holds of an agent
  depends on where it stands. A candidate is the artifact of this turn, a retry
  has a call to repeat, a result exists only when idle.
* `SpendAlwaysBounded`. The property is not inductive: a call under way will be
  charged later. `Reserved` charges the dearest price for every call under way
  (`InFlight`); `check` makes room for one more, since it lets pass only below
  the cap, and `record` exchanges the reservation for the price.
* `CallsAlwaysAnswered`, under `NoCutoffs` (what the fourth counterexample takes
  away) and `AnsweredHistory`. `Conversing`: the transcript of a running agent is
  paired, and closed except while tools are called, when the results there are
  and the calls left are together the calls of the last message. Its core is
  `CompactKeepsPairs`: by `CutIsSafe` the message before the cut opens nothing,
  so what follows it is not the answer to a folded call.
* `GoalSurvives`, by `OnTask`: the transcript of a running agent begins with its
  task. Every step leaves the transcript or makes it grow at its end (`Grows`),
  except a compaction, which keeps its head.
* `ThrashingStops`. The observer `streak` counts failed calls in a row, the policy
  counts otherwise: a failure it retries does not count, and a success elsewhere
  gives no retry back. `Paced` is what holds between the two: the streak is at most
  the failures counted plus the retries granted (`Granted`, a finite set of pairs
  of a tool and a number, which is why `Tools` is finite in `AgentAssumption`), and
  while the policy has not escalated the count is within its limit.

The assumptions so far are `StoreAssumption`, `RunnerAssumption` (types of the
constants, the order of `topological()`, a gate acts only with its decision),
`SideEffectAssumption` (what `_check_side_effects` refuses), `TranscriptAssumption`
and `AgentAssumption` (types, finitely many agents and tools, `Budget.__post_init__`).

The other modules prove invariants of one component each, and state them of
`Application`. Lemmas `StartupSteps`, `MemorySteps`, ... show that a step of
`Application` is a step of one component or leaves its variables alone, so that an
invariant of a component is one of the whole.

`ApplicationProofs`:

* `DoctorTellsTruth`, by `StartupInv`: what has been said follows from the
  environment, the client from the backend named in it and the outcome from both. The
  property is an equality, of what was said and is untrue with what was said and is
  listed, so that it is proved configuration by configuration.
* `ShownIsSound` is inductive as it stands: every read judges the notes of that
  moment, and `Unshown` shows that nothing else leaves anything in the prompt.
* `RecordTells`, by `RecordInv`: a record has its six fields, those of the artifact it
  was lifted from, and that one reads (`View`) like an original. `LoweredReadsTheSame`
  is the step through `to_artifact`.
* `AcceptedOnEvidence`, by `IntakeInv`: an artifact is judged against its document's
  own text, an approval has citations and all of them found, and nothing touches the
  artifact between gates and landing. Of the domain's own gates it assumes nothing.
* `ApplicationTypesCorrect`, that is `ApplicationTypeOK`, from one invariant for each
  component that has a part in it: nodes are in the order of their names (`OrderInv`);
  what a thread has read and its call costs are numbers (`MapTypes`); no memory is
  loaded at a version still to come (`MemoryTypes`); the parser is fed only what there
  is (`FedInv`); what is reported was exported (`ReportsInv`); an evaluation under way
  is one of those allowed (`CountInv`).
* `ReportIsTheRun`, by `EvalInv`: a report tells what the outcomes were when it was
  made (`Tells`) and a baseline is a report that can be compared (`Comparable`: counts,
  with no more citations valid than there are). `score` is a fold over
  the cases; `ScoreDefined` and the lemmas after it show what it adds up to.
  `EvaluationAssumption`: counts are numbers, and no more citations are valid than
  there are.
* `CertifiedIsTraced`, by `ConstraintsInv`: the pack is what `build_pack` makes of the
  agreement that is still there, a certificate is the verdict on that pack, and a
  shadow report quotes the agreement's fields. The property then follows from the
  five reasons of `certify` and the provenance of each kind of constraint. It asks
  for a transfer amount and for a threshold *or* an independent amount, which is what
  the code asks for (see *Constraints* above). `ConstraintAssumption`: rows are a
  sequence, no field is called "row".

`FanoutProofs`:

* `MapIsFaithful`, by `FanoutInv`: what was yielded is done and in order, an
  exception on the way out has its child, and a pool that was left has no thread.
* `AccountsExact`, by `AccountsInv`. Its parts are needed together: `ThreadsInv` (no
  more children at work than threads; without a pool, those before the child at work
  are done), `MoneyInv` (a call under way is charged at the dearest price, as in
  `SpendAlwaysBounded`), `TokensInv` (nobody has read more tokens than have been
  charged, and with one thread exactly those), `LedgerInv` (as many events as children
  done, whatever their numbers). The sums over children are folds; `Total` of a set
  with one child more is proved to be one price more. `FanoutAssumption`: the items
  are 1..n, prices are finitely many numbers and one is positive.

`ToolProofs`:

* `OnlyPermittedToolsRun`: the verdict of a bus is a fold over its hooks; `Says`
  follows it hook by hook, and a denial, once said, stays.
* `NothingUncleanKept`, by `CleanInv`: what is stored is clean and so is all that is
  still to be read. A page is a part of a clean text, and to clean a clean text leaves
  it clean.
* `NoGapInReading`, by `ReadInv`: what the model set out to read it has seen, or it is
  ahead in the pages still to be read. The step that matters is a page that is
  offloaded again: its own rest goes on top of the rest of the text, and what the
  preview shows and the two rests are together what was ahead.
* `ToolAssumption`: texts are sequences, the offload threshold is no less than the
  preview, and a trusted tool returns no instruction from outside (that is what
  being trusted means in `hooks.py`).

`GraphBuildProofs`:

* `VerdictIsRight`, both ways, for any nodes. `BuildInv` keeps with each verdict the
  conditions `validate` found; the rest is about the algorithms.
  `AncestorsAreAbove`: the worklist finds a new node in each round until there is
  none, so that as many rounds as there are nodes find all that is above, and nothing
  else. `QueueInv`, kept by every visit of Kahn's queue (`QueueGoes`): a node's
  in-degree is the length of its list of dependencies less the dependencies visited;
  what is out comes after all it depends on, each node once; nothing that could be
  queued is left behind unless it names a dependency twice. `OrderIsWhole`: if the
  queue runs dry early, each node left depends on one left; but of a node with the
  fewest left above it that other one would have fewer still, unless there is a circle
  (`NoSourceNoTree`). `DepthGrows`: a node is
  deeper than all it depends on, hence than all above it, so a layer's nodes do not
  wait for each other. `BuildAssumption`: names are positive numbers.

`ReadingProofs`, where a reference definition looks back over the whole input and the
code goes through it once:

* `ReconciledRightly`, by `ReconcileInv`: each report is what `Report` makes of the
  document and the terms held for it, from the export and the portfolio that were
  read, and exceptions and exit code are what `finish` makes of the reports. That a
  report is right then rests on what is read of an amount. `ReadAsMeant`: of one that
  is not doubtful `decimals_read` finds the decimals it is meant to have.
  `FirstIsMeant`: of one with commas between its thousands and a point before its
  decimals the first number in the text is the whole. From these `SameAgree` and
  `AgreeSame`: what is one term agrees, and what agrees is one term, unless one of the
  two is `Unclear`, is flush with its currency, or is a date. `WhatContradicts` says
  when a clause contradicts what is cited from it.
* `EvidenceIsJudgedRightly`, in two halves. `FlatInv`, kept by every tag and run of
  characters (`TextStays`): the counters of the flattener are what the marks so far
  come to (the depth, counted from the last reset; the table, the row since the last
  table, the cell since the last row), and the parts are the visible runs with their
  cells (`TextOf`). `CheckedInv`: what was reported was judged on the whole text. Then
  `TextIsPage`, and `NothingCompetes` and `WhatContradicts`, with what is read of an
  amount, give `ReportRight`.
* `FileMeansItsIndentation`, by `ConfigInv`, that is, from `parse` alone. After i lines
  the stack is the open maps from the outside in (`StackOf`: each entry is the line that
  opened it, with its path), and the map holds what no later line has overwritten
  (`MapOf`). `StackNext` and `MapNext` carry both over one line; the core is
  `StackAfter`: what `still_open` leaves are the maps that enclose the line, so that
  the stack's path is the one defined without a stack.
* `LoadedIfRight`, by `LoadInv` (with `IntakeInv`): what stands in the artifact is
  the extractor's reading of the document that was loaded, the gates report nothing
  exactly if all of them pass of it (`AllPass`), and what landed follows from that
  report. The rest says what the gates make of a reading. `FaithfulPasses`: of a
  faithful and well cited one they pass only if the document coheres and always if
  it does so beyond doubt, since an annex has all required fields exactly if its
  amounts are shared, a currency is eligible and it says how to round
  (`AnnexFields`), its gates then come to the conditions of `Coherent`
  (`ShapeGates`), an invoice's to its sums and dates (`InvoiceGates`; `GrossIsNear`
  bounds what rounding does to the gross total, whichever way the floats go), and a
  pack's to its papers (`KycGates`). `MisreadIsSeen`, misreading by misreading: a
  digit in a price moves the sum of the lines by ten cents or more
  (`DigitChangesNet`), a missed line by what it is worth (`MissedLineIsMissing`),
  haircuts taken for percentages turn the one that must be 95 or more into 5 or less
  (`Percentages`), and Threshold and MTA swapped pass both ways round only if the
  two are equal or one is zero. `ShapeCdm` is what an annex lands as. The proof
  brought to light that a missed line of two cents or less passes as well, which
  `Unseen` lists.
* The assumptions. `CheckAssumption`: pages are markup in which nothing closes that
  is not open and no cell opens in a cell (`WellFormed`; a hidden element may be
  left open; a clause that runs over the edge of a cell is left out), quotes have
  their shape, a date can be read as some day, and values are `Legible` with what
  each clause states. `ReconcileAssumption`: the export is a sequence, the values on
  both sides are legible, a unit that is flush with its amount is none that
  `parse_number` takes off, and two values that are no numbers and say the same are
  of one kind. `ConfigAssumption`: lines have their three fields, and a key without
  a value is no list item. `Legible` says that amounts are written as numbers are
  (groups of three, or the decimals last); it says nothing of what the code reads.
  What may be thousands or decimals ("5.000") is `Doubtful`, and the properties
  leave it out by that name. `IntakeAssumption`: annexes elect natural amounts and
  percentages, what invoices and packs state are numbers, and no line of an invoice
  is of no quantity. Whether a document is one to be loaded is not assumed but
  defined, in the document's own terms (`Consistent`, `Payable`, `PackInOrder`). Of
  the floats nothing is assumed: the theorem holds for any `CloseFloats` and any
  `RoundedUp`.

Recursion. An induction theorem that takes a predicate as a parameter cannot be used
with the provers at hand; what is used instead is `LeastMember` (a set of numbers
has a least one) and from it `FromOneToTheNext` (a set that has 0 and with each
number the next has all) and `Iterates` (a function on a set can be iterated). A
function defined by recursion is a CHOOSE, of which one shows first that there is
such a function (`Rounds`, `QueueRuns`, `DepthDefined`, `ScoreDefined`,
`ParsePasses`) and then, by induction on the set of arguments at which it is right,
what it computes.

Only model-checked:

* `ExecutionsReturn`, `RunsEnd` and `MapEnds`: liveness under fairness is out of the
  prover's reach. Every other property of a passing run is a theorem.

## 5. Plan

1. *(done)* `GraphStore`, `GraphRunner`, `EffectPromise` and their proofs.
2. *(done)* `Transcript`, `AgentLoop` and their proofs.
3. *(done)* The modules of `Session` and `Application`, one run over all of them.
4. *(done)* Proofs of the sequential properties of `GraphRunner`, of the limits of an
   agent, and of eight further properties of `Application`.
5. *(done)* `FileMeansItsIndentation`, `EvidenceIsJudgedRightly`, `ReconciledRightly`
   and `LoadedIfRight`, and the lemmas about what is read that they rest on.

## Not modelled, and why

* The SQLite spans, list queries and the migration of old ledger files; the run
  ledger's rendering; the validation pack, scaffolding and the remaining commands: they
  read or print what other parts keep.
* The network client beyond one call that answers or raises.
* Regular expressions, similarity of names, the search for one text in another and
  tokenising, which appear as relations and sets of tokens; PDF loading (external
  libraries). Of values: amounts below zero and in accounting brackets, percentages,
  truth values, names of several words, a month that is also a name, and figures too
  long for a float to tell apart (more than fifteen digits, or nine decimals).
* In an invoice fractions of a cent and of a unit; in an extraction the fields no gate
  looks at; a forged `kind` of "csa" on another document, which `to_cdm` then refuses.
* The benchmark, the labelled cases, the tour of the examples and the tests: they
  call the library and assert.
* The optimiser behind the constraint packs, which is not in the repository.
