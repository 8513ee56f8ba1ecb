------------------------------- MODULE MCCode -------------------------------
(***************************************************************************)
(* What works on code and on skills, each component by itself in one run: a *)
(* behaviour is one of the component that focus names, and the variables of *)
(* the others stay as they are (None, or AgentRuns before its first run).  *)
(* The components share no state; AgentRuns is extended and the others are *)
(* instantiated under their own names, renamed where two would be the same.*)
(***************************************************************************)
EXTENDS AgentRuns, TLC

CONSTANTS
    Texts, Curly, Straight, Long, Breaks, EditCalls, Files, Checks,
    PageBytes, MaxCalls, MaxLegs, None,
    Skills, Servers, Hashes, MaxChanges,
    Versions, MaxWork, MaxCrashes,
    Checkouts, Calls, WorkspacesMaxCalls, MaxRestarts

VARIABLES
    focus,   \* the component that this behaviour is about
    base, tree, results, reading, leg, notes, codingAsked, told, used,
    phase, request,
    content, record, installed, installsOp, trusted, touched, before,
    damaged, edits, ops,
    flat, dir, skillsStage, old, work, due, choice, hasty, done,
    skillsCrashes,
    row, messages, disk, made, turn, calls, reaper, deleting, started,
    restarts

C == INSTANCE CodingTurn
       WITH asked <- codingAsked
I == INSTANCE Installs
       WITH op <- installsOp
K == INSTANCE SkillFiles
       WITH stage <- skillsStage, crashes <- skillsCrashes
W == INSTANCE Workspaces
       WITH MaxCalls <- WorkspacesMaxCalls

\* An edit has an old text: an empty one is createFile's, for a new file.
ASSUME CodingAssumption ==
    /\ Files \subseteq Seq(C!Lines)
    /\ EditCalls \subseteq Seq([old : Seq(Texts) \ {<<>>}, new : Seq(Texts)])
    /\ PageBytes \in Nat /\ MaxCalls \in Nat /\ MaxLegs \in Nat \ {0}
ASSUME InstallsAssumption ==
    /\ Hashes \subseteq Nat /\ 0 \in Hashes
    /\ Skills \cap Servers = {}
    /\ None \notin [hash : Hashes, marked : BOOLEAN, on : BOOLEAN]
ASSUME SkillsAssumption ==
    /\ None \notin Versions \cup {0}
    /\ None \notin K!Copies
    /\ None \notin [kind : {"bundle", "delete", "list"},
                    pc : {"stage", "aside", "place", "drop", "restore",
                          "delete", "recover"},
                    from : {"dir", "flat", "none"},
                    copy : K!Copies \cup {None}, was : K!Copies \cup {None}]

runsVars == <<state, created, stage, cloned, generation, lapsed, token,
              enabled, current, pc, job, duty, todo, held, erred, cancels,
              signalled, op, asked, branch, pulls, announced, crashes,
              faults>>
codingVars == <<base, tree, results, reading, leg, notes, codingAsked, told,
                used, phase, request>>
installsVars == <<content, record, installed, installsOp, trusted, touched,
                  before, damaged, edits, ops>>
skillsVars == <<flat, dir, skillsStage, old, work, due, choice, hasty, done,
                skillsCrashes>>
workspacesVars == <<row, messages, disk, made, turn, calls, reaper,
                    deleting, started, restarts>>

RunsAtRest ==
    /\ Init
NoCoding ==
    /\ base = None /\ tree = None /\ results = None /\ reading = None
    /\ leg = None /\ notes = None /\ codingAsked = None /\ told = None
    /\ used = None /\ phase = None /\ request = None
NoInstalls ==
    /\ content = None /\ record = None /\ installed = None
    /\ installsOp = None /\ trusted = None /\ touched = None
    /\ before = None /\ damaged = None /\ edits = None /\ ops = None
NoSkills ==
    /\ flat = None /\ dir = None /\ skillsStage = None /\ old = None
    /\ work = None /\ due = None /\ choice = None /\ hasty = None
    /\ done = None /\ skillsCrashes = None
NoWorkspaces ==
    /\ row = None /\ messages = None /\ disk = None /\ made = None
    /\ turn = None /\ calls = None /\ reaper = None /\ deleting = None
    /\ started = None /\ restarts = None

SumInit ==
    \/ /\ focus = "runs" /\ Init
       /\ NoCoding /\ NoInstalls /\ NoSkills /\ NoWorkspaces
    \/ /\ focus = "coding" /\ C!Init
       /\ RunsAtRest /\ NoInstalls /\ NoSkills /\ NoWorkspaces
    \/ /\ focus = "installs" /\ I!Init
       /\ RunsAtRest /\ NoCoding /\ NoSkills /\ NoWorkspaces
    \/ /\ focus = "skills" /\ K!Init
       /\ RunsAtRest /\ NoCoding /\ NoInstalls /\ NoWorkspaces
    \/ /\ focus = "workspaces" /\ W!Init
       /\ RunsAtRest /\ NoCoding /\ NoInstalls /\ NoSkills

RunsStep ==
    /\ focus = "runs" /\ Next
    /\ UNCHANGED <<focus, codingVars, installsVars, skillsVars,
                   workspacesVars>>
CodingStep ==
    /\ focus = "coding" /\ C!Next
    /\ UNCHANGED <<focus, runsVars, installsVars, skillsVars,
                   workspacesVars>>
InstallsStep ==
    /\ focus = "installs" /\ I!Next
    /\ UNCHANGED <<focus, runsVars, codingVars, skillsVars, workspacesVars>>
SkillsStep ==
    /\ focus = "skills" /\ K!Next
    /\ UNCHANGED <<focus, runsVars, codingVars, installsVars,
                   workspacesVars>>
WorkspacesStep ==
    /\ focus = "workspaces" /\ W!Next
    /\ UNCHANGED <<focus, runsVars, codingVars, installsVars, skillsVars>>

SumNext ==
    \/ RunsStep
    \/ CodingStep
    \/ InstallsStep
    \/ SkillsStep
    \/ WorkspacesStep

sumVars == <<focus, runsVars, codingVars, installsVars, skillsVars,
             workspacesVars>>

SumSpec == SumInit /\ [][SumNext]_sumVars

RunSymmetry == Permutations(Runs)

\* One of: a new token, the end of a mandate, a death of the daemon, an error
\* of the worker.
OneUpset ==
    focus = "runs" =>
        token.generation + Cardinality(lapsed) + crashes + faults <= 2

\* The files that a coding turn may find, and the edits it may ask for.
Line(t, e) == [text |-> t, eol |-> e]
SomeFiles ==
    {<<Line("a", "lf"), Line("quoted", "lf"), Line("broken", "crlf")>>,
     <<Line("a", "crlf"), Line("b", "crlf"), Line("b", "crlf"), Line("long", "crlf")>>}
Swap(from, to) == [old |-> from, new |-> to]
SomeEdits ==
    {<<Swap(<<"a">>, <<"b", "a">>)>>, <<Swap(<<"plain">>, <<>>)>>,
     <<Swap(<<"a", "plain">>, <<"b">>)>>, <<Swap(<<"b", "long">>, <<"a">>)>>,
     <<Swap(<<"plain">>, <<"b">>), Swap(<<"a">>, <<"a", "a">>)>>,
     <<Swap(<<"a">>, <<>>), Swap(<<"broken">>, <<"plain">>)>>}

\* Every variable of the component at hand keeps its type.
SumTypeOK ==
    /\ focus = "runs" => TypeOK
    /\ focus = "coding" => C!TypeOK
    /\ focus = "installs" => I!TypeOK
    /\ focus = "skills" => K!TypeOK
    /\ focus = "workspaces" => W!TypeOK

-----------------------------------------------------------------------------
\* The edits of one call land where their old text was when it began, a
\* read that is followed to its end shows every line, the findings of a
\* leg reach the next one, and the pull request holds the workspace
\* (edit.go, codetools.go, worker.go, publish.go).
CodingSafe ==
    /\ [](focus = "coding" => /\ C!RequestIsTheWorkspace
                              /\ C!FindingsReachTheNextLeg
                              /\ C!ReadThrough)
    /\ C!EditsLandWhereTheyMatched

\* What the owner has edited or deleted of an installed item stays so, a
\* server runs only where the owner has switched it on, and an operation
\* that fails puts back what it changed (marketplace service.go).
InstallsSafe ==
    focus = "installs" => /\ I!OwnersWorkKept
                          /\ I!TrustIsTheOwners
                          /\ I!RollbackRestores

\* A reader never gets a skill of which a file is missing, and what an
\* interrupted replacement leaves is repaired to the old skill or the new
\* one (skills store.go, placeBundle and recoverBundles).
SkillsSafe == focus = "skills" => K!NeverHalfWritten /\ K!Recovered

\* The checkout a thread is bound to is on the disk, whatever closes,
\* opens, reaps or crashes (workspace_sessions.go).
BindingIsThere == focus = "workspaces" => W!BindingIsThere

=============================================================================
