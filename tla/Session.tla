---- MODULE Session ----
(***************************************************************************)
(* What the library does besides running a graph and its agents            *)
(* (GraphRunner, AgentLoop): an application starts up, authors a graph,    *)
(* fans a node out over items, lets an agent call tools, keeps notes       *)
(* between runs. These components share no state in the code beyond what   *)
(* their own modules say, so a behaviour is one of them at work, the       *)
(* others at rest.                                                         *)
(***************************************************************************)
EXTENDS Startup, ConfigFile, GraphBuild, Fanout, ToolDispatch, Memory

VARIABLE activity

SessionActivities == {"startup", "configuring", "authoring", "mapping", "tools", "memory"}

sessionVars == <<startupVars, configVars, buildVars, fanoutVars, toolVars, memoryVars>>

\* The environment, the hooks and the tool list are chosen where they matter.
SessionInit ==
    /\ StartupInit /\ ConfigInit /\ BuildInit /\ FanoutInit /\ ToolInit /\ MemoryInit
    /\ activity # "startup" => environ = CHOOSE e \in Environments : TRUE
    /\ activity # "tools" => /\ hooks = CHOOSE h \in HookBuses : TRUE
                             /\ allowed = AnyTool

SessionNext ==
    \/ /\ activity = "startup" /\ StartupNext
       /\ UNCHANGED <<configVars, buildVars, fanoutVars, toolVars, memoryVars>>
    \/ /\ activity = "configuring" /\ ConfigNext
       /\ UNCHANGED <<startupVars, buildVars, fanoutVars, toolVars, memoryVars>>
    \/ /\ activity = "authoring" /\ BuildNext
       /\ UNCHANGED <<startupVars, configVars, fanoutVars, toolVars, memoryVars>>
    \/ /\ activity = "mapping" /\ FanoutNext
       /\ UNCHANGED <<startupVars, configVars, buildVars, toolVars, memoryVars>>
    \/ /\ activity = "tools" /\ ToolNext
       /\ UNCHANGED <<startupVars, configVars, buildVars, fanoutVars, memoryVars>>
    \/ /\ activity = "memory" /\ MemoryNext
       /\ UNCHANGED <<startupVars, configVars, buildVars, fanoutVars, toolVars>>
====
