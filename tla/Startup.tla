---- MODULE Startup ----
(***************************************************************************)
(* Before the first model call: the environment (config.py,                *)
(* credentials.py), what `pyligent-agents doctor` and `setup` tell the     *)
(* user (cli.py), and the client that build_stack gives the run            *)
(* (runtime.py, harness/client.py).                                        *)
(*                                                                         *)
(* The SDK, which may not be installed, resolves a credential of its own   *)
(* besides the two variables, the profile of `ant auth login`. A variable  *)
(* is unset, blank or set.                                                 *)
(***************************************************************************)

Variable == {"unset", "blank", "set"}
Environments == [key : Variable, token : Variable, profile : BOOLEAN, sdk : BOOLEAN,
                 backend : {"auto", "scripted", "anthropic", "other"}]

\* What the caller of build_stack may pass; "unnamed" is None.
Arguments == [policy : BOOLEAN, backend : {"unnamed", "auto", "scripted", "anthropic"}]
Unasked == [policy |-> FALSE, backend |-> "unnamed"]

VARIABLES
    environ,      \* os.environ, the SDK and its profile
    told,         \* what doctor and setup have said
    arguments,    \* the arguments of build_stack
    client,       \* the stack's client
    outcome       \* how its construction or its call went

startupVars == <<environ, told, arguments, client, outcome>>

StartupInit ==
    /\ environ \in Environments
    /\ told = {} /\ arguments = Unasked /\ client = "none" /\ outcome = "none"

----------------------------------------------------------------------------
(* credentials.py, cli.py                                                   *)

\* detect: blank counts as unset.
present == "set" \in {environ.key, environ.token}

\* Mutant: without a credential every backend is said to fall back.
backend_note_by_credential == IF present THEN "credential" ELSE "falls_back"

\* The note beside the backend.
backend_note ==
    IF present THEN "credential"
    ELSE IF environ.backend = "anthropic" THEN "calls_will_fail" ELSE "falls_back"

\* The section on data residency goes by the credential alone: it says of an
\* explicit `anthropic` without one that the deterministic backend runs.
residency ==
    IF environ.backend = "scripted" \/ ~present
    THEN {"deterministic_backend_runs", "text_stays"} ELSE {"calls_are_sent", "text_leaves"}

doctor ==
    /\ client = "none"
    /\ told' = told \cup {backend_note, IF environ.sdk THEN "sdk_installed" ELSE "sdk_missing"}
                    \cup residency
    /\ UNCHANGED <<environ, arguments, client, outcome>>

setup ==
    /\ client = "none"
    /\ told' = told \cup {IF present THEN "calls_are_billed"
                          ELSE IF environ.backend = "anthropic" THEN "first_call_will_fail"
                          ELSE "runs_in_process"}
    /\ UNCHANGED <<environ, arguments, client, outcome>>

----------------------------------------------------------------------------
(* runtime.py, harness/client.py                                            *)

\* A blank variable is a non-empty string; any unknown name means `auto`.
build_backend(backend) ==
    IF backend = "scripted" THEN "scripted"
    ELSE IF backend = "anthropic" \/ "unset" # environ.key \/ "unset" # environ.token
    THEN "anthropic" ELSE "scripted"

\* `policy` wins over the argument, the argument over the environment. AnthropicLLM
\* raises where the SDK is missing; the caller may then try again.
build_stack(args) ==
    /\ client = "none"
    /\ LET built == IF args.policy THEN "scripted"
                    ELSE build_backend(IF args.backend = "unnamed" THEN environ.backend
                                       ELSE args.backend)
           raises == built = "anthropic" /\ ~environ.sdk
       IN  /\ client' = IF raises THEN "none" ELSE built
           /\ outcome' = IF raises THEN "no_sdk" ELSE "none"
    /\ arguments' = args
    /\ UNCHANGED <<environ, told>>

\* AnthropicLLM.complete: with nothing to authenticate by, the SDK raises before
\* a request is made; what it makes of a blank value is its own affair.
Outcomes ==
    IF client = "scripted" THEN {"in_process"}
    ELSE (IF "blank" \in {environ.key, environ.token} THEN {"sent", "failed"} ELSE {})
         \cup {IF present \/ environ.profile THEN "sent" ELSE "failed"}

complete(how) ==
    /\ client # "none" /\ outcome = "none" /\ how \in Outcomes
    /\ outcome' = how
    /\ UNCHANGED <<environ, told, arguments, client>>

StartupNext ==
    \/ doctor
    \/ setup
    \/ \E args \in Arguments : build_stack(args)
    \/ \E how \in {"in_process", "sent", "failed"} : complete(how)

----------------------------------------------------------------------------
\* The statements that are untrue of a stack whose outcome is known.
Untrue ==
    CASE outcome = "in_process" -> {"calls_will_fail", "first_call_will_fail", "calls_are_sent",
                                    "text_leaves", "calls_are_billed"}
      [] outcome = "sent"       -> {"falls_back", "deterministic_backend_runs", "text_stays",
                                    "runs_in_process", "calls_will_fail", "first_call_will_fail"}
      [] outcome = "failed"     -> {"falls_back", "deterministic_backend_runs", "calls_are_sent",
                                    "text_leaves", "runs_in_process", "calls_are_billed"}
      [] outcome = "no_sdk"     -> {"falls_back", "deterministic_backend_runs", "calls_are_sent",
                                    "text_leaves", "runs_in_process", "calls_are_billed",
                                    "sdk_installed"}
      [] OTHER                  -> {}

\* What the code gets wrong, configuration by configuration.
Misstated ==
    LET Explicit == environ.backend = "anthropic" /\ ~present
        Real == environ.backend # "scripted" /\ present
    IN  UNION {IF Explicit THEN {"deterministic_backend_runs"} ELSE {},
               IF Explicit /\ environ.profile /\ environ.sdk
               THEN {"text_stays", "calls_will_fail", "first_call_will_fail"} ELSE {},
               IF Real /\ ~environ.sdk THEN {"calls_are_sent", "text_leaves", "calls_are_billed"}
               ELSE {},
               IF environ.backend = "scripted" /\ present THEN {"calls_are_billed"} ELSE {}}

\* Of a stack that is built from the environment they looked at, doctor and setup get
\* exactly this wrong, and all else they say is so. Of `anthropic` without a
\* credential doctor says that the deterministic backend runs, though the real client
\* is built (and says beside it that the calls will fail); where the SDK then has a
\* login profile, which neither looks for, the text that stays, in calls that fail,
\* is sent. Where the SDK is missing nothing is sent or billed (doctor says beside it
\* that it is missing); of `scripted` with a credential setup says that calls are
\* billed. A blank variable, which detect() passes over and build_backend counts, is
\* left out. (cli.py: "an explicit `anthropic` does not" fall back; "Reporting
\* \"scripted\" for both told people they were safe when they were not.")
DoctorTellsTruth ==
    /\ "blank" \notin {environ.key, environ.token}
    /\ arguments = Unasked /\ outcome # "none"
    => told \cap Untrue = told \cap Misstated
====
