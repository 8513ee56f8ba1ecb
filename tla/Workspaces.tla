----------------------------- MODULE Workspaces -----------------------------
(***************************************************************************)
(* A thread of the web chat and the checkout attached to it                *)
(* (core/services/repo/workspace_sessions.go, storage/sqlite/threads.go    *)
(* and messages.go, subprocess/localprocess, panel/chat.go): the calls of  *)
(* one step of a turn run together, the reaper runs every minute, and the  *)
(* owner renames and deletes the thread from the panel meanwhile.          *)
(***************************************************************************)
EXTENDS Naturals, FiniteSets

CONSTANTS
    None,
    Checkouts,     \* directories, each made once
    Calls,         \* calls of workspace_open and workspace_close in a step
    MaxCalls,      \* bound on the calls
    MaxRestarts    \* bound on crashes and restarts

VARIABLES
    row,        \* the thread: its checkout, its title, whether it is idle; or None
    messages,   \* of the thread: none, the owner's, or the exchange
    disk,       \* checkouts that are there
    made,       \* checkouts that were ever made
    turn,       \* of the thread: "none", "accepted", "running", "replied"
    calls,      \* call -> where it is, the checkout it saw, the one it made
    reaper,     \* the reaper, as a call that only closes
    deleting,   \* what the delete handler knows: "no", "checked"
    started, restarts

workspaceVars ==
    <<row, messages, disk, made, turn, calls, reaper, deleting, started, restarts>>

Idle == [pc |-> "idle", then |-> None, saw |-> None, path |-> None]

Init ==
    /\ row = None /\ messages = "none" /\ disk = {} /\ made = {} /\ turn = "none"
    /\ calls = [c \in Calls |-> Idle] /\ reaper = Idle /\ deleting = "no"
    /\ started = 0 /\ restarts = 0

New == [workspace |-> None, title |-> "none", idle |-> FALSE]
Bound == row # None /\ row.workspace # None

-----------------------------------------------------------------------------
(* The panel                                                               *)

CreateThread ==
    /\ row = None /\ turn = "none" /\ made = {}
    /\ row' = New
    /\ UNCHANGED <<messages, disk, made, turn, calls, reaper, deleting, started, restarts>>

(* The thread is looked up when the message is accepted.                   *)
Send ==
    /\ turn = "none" /\ row # None
    /\ turn' = "accepted"
    /\ UNCHANGED <<row, messages, disk, made, calls, reaper, deleting, started, restarts>>

RenameThread ==
    /\ row # None /\ row' = [row EXCEPT !.title = "owner"]
    /\ UNCHANGED <<messages, disk, made, turn, calls, reaper, deleting, started, restarts>>

(* A thread with a workspace is refused.                                   *)
CheckDelete ==
    /\ deleting = "no" /\ row # None /\ row.workspace = None
    /\ deleting' = "checked"
    /\ UNCHANGED <<row, messages, disk, made, turn, calls, reaper, started, restarts>>

(* One transaction, which does not look at the workspace.                  *)
DeleteThread ==
    /\ deleting = "checked"
    /\ row' = None /\ messages' = "none" /\ deleting' = "no"
    /\ UNCHANGED <<disk, made, turn, calls, reaper, started, restarts>>

-----------------------------------------------------------------------------
(* The turn                                                                *)

(* WriteMessage: the thread is not idle, if there is one.                  *)
Written(what) ==
    /\ messages' = what
    /\ row' = IF row = None THEN None ELSE [row EXCEPT !.idle = FALSE]

BeginTurn ==
    /\ turn = "accepted" /\ turn' = "running"
    /\ Written("owner")
    /\ UNCHANGED <<disk, made, calls, reaper, deleting, started, restarts>>

Untitled == row.title = "none"

(* The exchange is recorded, and titles a thread that has no title.        *)
EndTurn ==
    /\ turn = "running" /\ \A c \in Calls : calls[c].pc = "idle"
    /\ turn' = "none" /\ messages' = "exchange"
    /\ row' = IF row = None THEN None
              ELSE [row EXCEPT !.idle = FALSE, !.title = IF Untitled THEN "exchange" ELSE @]
    /\ UNCHANGED <<disk, made, calls, reaper, deleting, started, restarts>>

Clock ==
    /\ row # None /\ row' = [row EXCEPT !.idle = TRUE]
    /\ UNCHANGED <<messages, disk, made, turn, calls, reaper, deleting, started, restarts>>

-----------------------------------------------------------------------------
(* closeThread, of a call or of the reaper                                 *)

(* Faulty: the directory goes first.                                       *)
DestroysFirst == <<"destroy", "detach">>

(* The record goes before the directory.                                   *)
Steps == <<"detach", "destroy">>

After(p) == IF p.pc = Steps[1] THEN Steps[2] ELSE p.then

Back(p) == IF After(p) = "idle" THEN Idle ELSE [p EXCEPT !.pc = After(p)]

(* GetThread: nothing to close, or the checkout it has now.                *)
Reads(p) ==
    IF Bound THEN [p EXCEPT !.pc = Steps[1], !.saw = row.workspace]
    ELSE IF p.then = "idle" THEN Idle ELSE [p EXCEPT !.pc = p.then]

Detached == IF row = None THEN None ELSE [row EXCEPT !.workspace = None]

(* The steps of a close, with what becomes of the caller.                  *)
CloseStep(p, q) ==
    /\ \/ p.pc = "read" /\ q = Reads(p) /\ UNCHANGED <<row, disk>>
       \/ p.pc = "detach" /\ row' = Detached /\ q = Back(p) /\ UNCHANGED disk
       \/ p.pc = "destroy" /\ disk' = disk \ {p.saw} /\ q = Back(p) /\ UNCHANGED row
    /\ UNCHANGED <<messages, made, turn, deleting, started, restarts>>

StartCall(c) ==
    /\ turn = "running" /\ calls[c].pc = "idle" /\ started < MaxCalls
    /\ \E then \in {"create", "idle"} :
         calls' = [calls EXCEPT ![c] = [Idle EXCEPT !.pc = "read", !.then = then]]
    /\ started' = started + 1
    /\ UNCHANGED <<row, messages, disk, made, turn, reaper, deleting, restarts>>

CallCloses(c) ==
    /\ \E q \in {Idle, Reads(calls[c]), Back(calls[c])} :
         CloseStep(calls[c], q) /\ calls' = [calls EXCEPT ![c] = q]
    /\ UNCHANGED reaper

(* CleanupIdle lists the threads, and closes each as it is by then.        *)
StartReap ==
    /\ reaper.pc = "idle" /\ Bound /\ row.idle
    /\ reaper' = [Idle EXCEPT !.pc = "read", !.then = "idle"]
    /\ UNCHANGED <<row, messages, disk, made, turn, calls, deleting, started, restarts>>

Reap ==
    /\ \E q \in {Idle, Reads(reaper), Back(reaper)} : CloseStep(reaper, q) /\ reaper' = q
    /\ UNCHANGED calls

-----------------------------------------------------------------------------
(* Open, after its close                                                   *)

(* Create and Clone; a clone that fails takes the directory with it.       *)
Clone(c) ==
    /\ calls[c].pc = "create"
    /\ \/ \E w \in Checkouts \ made :
            /\ made' = made \cup {w} /\ disk' = disk \cup {w}
            /\ calls' = [calls EXCEPT ![c].pc = "attach", ![c].path = w]
       \/ calls' = [calls EXCEPT ![c] = Idle] /\ UNCHANGED <<made, disk>>
    /\ UNCHANGED <<row, messages, turn, reaper, deleting, started, restarts>>

(* AttachWorkspace makes the row if there is none.                         *)
Attach(c) ==
    /\ calls[c].pc = "attach"
    /\ \/ /\ row' = [(IF row = None THEN New ELSE row) EXCEPT
                        !.workspace = calls[c].path, !.idle = FALSE]
          /\ UNCHANGED disk
       \/ disk' = disk \ {calls[c].path} /\ UNCHANGED row
    /\ calls' = [calls EXCEPT ![c] = Idle]
    /\ UNCHANGED <<messages, made, turn, reaper, deleting, started, restarts>>

-----------------------------------------------------------------------------
(* Restarts                                                                *)

(* Recover keeps the binding whose directory is there.                     *)
Verified(there) == row.workspace \in there

(* A process that ends anywhere, on a volume that may not survive it.      *)
Restart ==
    /\ restarts < MaxRestarts /\ restarts' = restarts + 1
    /\ \E there \in {disk, {}} :
         /\ disk' = there
         /\ row' = IF Bound /\ ~Verified(there) THEN Detached ELSE row
    /\ turn' = "none" /\ calls' = [c \in Calls |-> Idle] /\ reaper' = Idle /\ deleting' = "no"
    /\ UNCHANGED <<messages, made, started>>

-----------------------------------------------------------------------------
Next ==
    \/ CreateThread \/ Send \/ RenameThread \/ CheckDelete \/ DeleteThread
    \/ BeginTurn \/ EndTurn \/ Clock
    \/ \E c \in Calls : StartCall(c) \/ CallCloses(c) \/ Clone(c) \/ Attach(c)
    \/ StartReap \/ Reap \/ Restart

Spec == Init /\ [][Next]_workspaceVars

-----------------------------------------------------------------------------
(* Types of the workspaces.                                                *)
TypeOK ==
    /\ disk \subseteq made /\ made \subseteq Checkouts
    /\ Bound => row.workspace \in made
    /\ turn \in {"none", "accepted", "running"} /\ deleting \in {"no", "checked"}

(* A tool never resolves onto a path that is gone: the checkout a thread   *)
(* is bound to is on the disk, whatever closes, opens, reaps, crashes.     *)
BindingIsThere == Bound => row.workspace \in disk
=============================================================================
