------------------------------- MODULE Settings -------------------------------
(***************************************************************************)
(* The model choice of one account and those who use it: the settings that *)
(* the slash commands, the web panel, the model tool and the Telegram menu *)
(* write (core/services/agent_runtime.go, commands/model.go,               *)
(* commands/model_tool.go, panel/agent.go), and a turn that reads the      *)
(* choice and calls the provider with it (core/turns/run.go,               *)
(* llm/openaicompat/model.go, the catalogue of bootstrap/app_wiring.go).   *)
(*                                                                         *)
(* A state update is atomic (it retries on a version conflict); whatever   *)
(* reads the state twice, or reads and then writes, takes two steps.       *)
(***************************************************************************)
EXTENDS Naturals, FiniteSets

CONSTANTS Aliases,      \* names a model can have in config.yaml
          Default,      \* the alias in config.yaml from the start
          Reasoners,    \* the aliases whose model has effort levels
          Readers,      \* the aliases whose model reads images
          Levels,       \* effort levels
          Adders,       \* model-tool calls that add an alias
          MaxTurns,     \* bound: turns
          MaxRestarts,  \* bound: restarts of the daemon
          None

\* The configuration has its own alias, and the bounds are numbers.
SettingsAssumption ==
    Default \in Aliases /\ MaxTurns \in Nat /\ MaxRestarts \in Nat

VARIABLES chosen,    \* state.Agent.SelectedModel, None when empty
          level,     \* state.Agent.ReasoningEffort, None when empty
          setting,   \* an effort checked by SelectReasoningEffort, not yet written
          onDisk,    \* [alias -> the adder that wrote it, Default, or None]
          loaded,    \* the aliases this process was started with
          adds,      \* [Adders -> [at, alias]]
          call,      \* the turn and its request: [at, alias, effort, image, tries]
          cached,    \* whether the turn path has the provider's listing
          turns, restarts

settings == <<chosen, level, setting>>
files == <<onDisk, loaded, adds>>
turning == <<call, cached, turns>>
vars == <<settings, files, turning, restarts>>

Supported(a) == IF a \in Reasoners THEN Levels ELSE {}

SelectedModel == IF chosen \in loaded THEN chosen ELSE Default
ReasoningEffort == IF level \in Supported(SelectedModel) THEN level ELSE None

Idle == [at |-> "idle", alias |-> None, effort |-> None, image |-> FALSE, tries |-> 0]

Init ==
    /\ chosen = None /\ level = None /\ setting = None
    /\ onDisk = [a \in Aliases |-> IF a = Default THEN Default ELSE None]
    /\ loaded = {Default}
    /\ adds = [x \in Adders |-> [at |-> "new", alias |-> None]]
    /\ call = Idle /\ cached = FALSE /\ turns = 0
    /\ restarts = 0

(***************************** writing a setting ***************************)
SelectModel(a) ==
    /\ a = None \/ a \in loaded
    /\ chosen' = a
    /\ UNCHANGED <<level, setting>>

\* An empty effort is always accepted; a level must be the selected model's.
CheckEffort(e) ==
    /\ setting = None
    /\ e \in Supported(SelectedModel)
    /\ setting' = e
    /\ UNCHANGED <<chosen, level, files, turning, restarts>>

WriteEffort ==
    /\ setting # None
    /\ level' = setting
    /\ setting' = None
    /\ UNCHANGED <<chosen, files, turning, restarts>>

ResetEffort ==
    /\ level # None
    /\ level' = None
    /\ UNCHANGED <<chosen, setting, files, turning, restarts>>

PickModel ==
    /\ \E a \in Aliases \cup {None}: a # chosen /\ SelectModel(a)
    /\ UNCHANGED <<files, turning, restarts>>

(******************************* adding an alias ***************************)
\* The document is read, the name must be free in it, and the model must be
\* one the provider lists.
CheckAdd(x, a) ==
    /\ adds[x].at = "new"
    /\ onDisk[a] = None
    /\ adds' = [adds EXCEPT ![x] = [at |-> "checked", alias |-> a]]
    /\ UNCHANGED <<settings, onDisk, loaded, turning, restarts>>

\* Listing the provider's models fails: nothing is written.
CatalogFails(x) ==
    /\ adds[x].at = "checked"
    /\ adds' = [adds EXCEPT ![x].at = "failed"]
    /\ UNCHANGED <<settings, onDisk, loaded, turning, restarts>>

\* SetModelAlias puts the alias into the document, whatever it holds by now.
SetModelAlias(x) ==
    /\ adds[x].at = "checked"
    /\ onDisk' = [onDisk EXCEPT ![adds[x].alias] = x]
    /\ adds' = [adds EXCEPT ![x].at = "added"]
    /\ UNCHANGED <<settings, loaded, turning, restarts>>

RemoveModelAlias(a) ==
    /\ a # Default /\ onDisk[a] # None
    /\ onDisk' = [onDisk EXCEPT ![a] = None]
    /\ UNCHANGED <<settings, loaded, adds, turning, restarts>>

\* A restart drops the turn and every unfinished call, and loads
\* the aliases the file has.
Restart ==
    /\ restarts < MaxRestarts
    /\ restarts' = restarts + 1
    /\ loaded' = {a \in Aliases: onDisk[a] # None}
    /\ setting' = None
    /\ adds' = [x \in Adders |-> IF adds[x].at = "checked" THEN [adds[x] EXCEPT !.at = "failed"] ELSE adds[x]]
    /\ call' = Idle /\ cached' = FALSE
    /\ UNCHANGED <<chosen, level, onDisk, turns>>

(********************************* the turn ********************************)
BeginTurn ==
    /\ call.at = "idle" /\ turns < MaxTurns
    /\ turns' = turns + 1
    /\ \E image \in BOOLEAN:
          call' = [Idle EXCEPT !.at = "chosen", !.alias = SelectedModel, !.image = image]
    /\ UNCHANGED <<settings, files, cached, restarts>>

\* A listing is asked for once and kept; one that fails is not.
ListModels ==
    /\ call.at = "chosen" /\ ~cached
    /\ \/ cached' = TRUE /\ UNCHANGED call
       \/ cached' = FALSE /\ call' = [call EXCEPT !.at = "unlisted"]
    /\ UNCHANGED <<settings, files, turns, restarts>>

\* Without a listing nothing is known, and the image goes along.
Refuses == call.image /\ cached /\ call.alias \notin Readers

SupportsPart ==
    /\ (call.at = "chosen" /\ cached) \/ call.at = "unlisted"
    /\ call' = [call EXCEPT !.at = IF Refuses THEN "refused" ELSE "checked"]
    /\ UNCHANGED <<settings, files, cached, turns, restarts>>

Effort == ReasoningEffort

ReadEffort ==
    /\ call.at = "checked"
    /\ call' = [call EXCEPT !.at = "ready", !.effort = Effort]
    /\ UNCHANGED <<settings, files, cached, turns, restarts>>

\* The request carries the image as a part of its message; a part that cannot
\* be written ends the turn.
BuildRequest ==
    /\ call.at = "ready"
    /\ \/ call' = [call EXCEPT !.at = "calling"]
       \/ call.image /\ call' = [call EXCEPT !.at = "failed"]
    /\ UNCHANGED <<settings, files, cached, turns, restarts>>

\* An answer is a message, or is none: no choices, or a tool call whose
\* arguments are no JSON.
Answer ==
    /\ call.at = "calling"
    /\ \E at \in {"answered", "failed"}: call' = [call EXCEPT !.at = at]
    /\ UNCHANGED <<settings, files, cached, turns, restarts>>

\* A request that fails for good, or once too often, is an error; one that
\* may fail because of its image says so.
Refused ==
    /\ call.at = "calling"
    /\ \E at \in {"failed", "refused"}:
          /\ at = "refused" => call.image
          /\ call' = [call EXCEPT !.at = at]
    /\ UNCHANGED <<settings, files, cached, turns, restarts>>

\* A network error, a timeout, a limit or an outage is tried again, three
\* times in all.
LastTry == call.tries = 2

Fails ==
    /\ call.at = "calling"
    /\ call' = [call EXCEPT !.at = IF LastTry THEN "failed" ELSE "waiting"]
    /\ UNCHANGED <<settings, files, cached, turns, restarts>>

TryAgain ==
    /\ call.at = "waiting"
    /\ call' = [call EXCEPT !.at = "calling", !.tries = @ + 1]
    /\ UNCHANGED <<settings, files, cached, turns, restarts>>

\* /stop cancels the request, also between two tries.
Stop ==
    /\ call.at \in {"calling", "waiting"}
    /\ call' = [call EXCEPT !.at = "failed"]
    /\ UNCHANGED <<settings, files, cached, turns, restarts>>

EndTurn ==
    /\ call.at \in {"answered", "failed", "refused"}
    /\ call' = Idle
    /\ UNCHANGED <<settings, files, cached, turns, restarts>>

TurnSteps == ListModels \/ SupportsPart \/ ReadEffort \/ BuildRequest
             \/ Answer \/ Refused \/ Fails \/ TryAgain \/ EndTurn

Next ==
    \/ PickModel \/ WriteEffort \/ ResetEffort \/ \E e \in Levels: CheckEffort(e)
    \/ \E x \in Adders, a \in Aliases: CheckAdd(x, a)
    \/ \E x \in Adders: CatalogFails(x) \/ SetModelAlias(x)
    \/ \E a \in Aliases: RemoveModelAlias(a)
    \/ Restart
    \/ BeginTurn \/ TurnSteps \/ Stop

Spec == Init /\ [][Next]_vars

-----------------------------------------------------------------------------
TypeOK ==
    /\ {chosen} \subseteq Aliases \cup {None} /\ {level, setting} \subseteq Levels \cup {None}
    /\ loaded \subseteq Aliases
    /\ call.tries \in 0..2 /\ turns \in 0..MaxTurns /\ restarts \in 0..MaxRestarts

\* An image never goes to a model that is known not to read it (run.go,
\* SupportsPart).
NotDropped == call.at = "calling" /\ call.image /\ cached => call.alias \in Readers
=============================================================================
