------------------------------ MODULE Approvals ------------------------------
(***************************************************************************)
(* The approval gate of one account: a tool call that needs the owner's    *)
(* consent becomes an approval record (internal/core/services/             *)
(* approval_gate.go, approval_service.go), a tap on a surface decides it   *)
(* and runs it (internal/core/turns/approval.go).  Every change of the     *)
(* account's state is a Load of its version and, later, a compare-and-set  *)
(* Update (internal/storage/sqlite/state.go); anything may come between.   *)
(*                                                                         *)
(* An approval is named by the call that asked for it.  Its payload never  *)
(* changes, so the digest check of Authorize always succeeds here.         *)
(***************************************************************************)
EXTENDS Integers, FiniteSets

CONSTANTS
    Calls,      \* calls of gated tools
    Taps,       \* approve and reject taps, on any surface
    Setters,    \* changes of the approval mode
    MaxConnections, \* bound on reconnects of the shared integration
    MaxCrashes  \* bound on crashes of the daemon

ASSUME ApprovalsAssumption ==
    /\ Calls \cap Taps = {} /\ Calls \cap Setters = {} /\ Taps \cap Setters = {}
    /\ MaxConnections \in Nat /\ MaxCrashes \in Nat

Writers == Calls \cup Taps \cup Setters

VARIABLES
    current,    \* writers whose loaded State.Version is still the store's
    status,     \* Approval.Status of each call's record, "absent" before
    bound,      \* Approval.IntegrationGeneration
    mode,       \* State.ApprovalMode
    closed,     \* approvals whose ExpiresAt has passed
    connection, \* the integration's generation
    mutating,   \* calls that the tool's rule gates in normal mode
    pc,         \* where each call, tap and mode change is
    target,     \* the approval a tap decides
    verdict,    \* ApprovalDecision.Approved of a tap
    readGeneration, \* the generation a tap read in Authorize
    ran,        \* times the tool of an approved call has been executed
    crashes

stateVars == <<current, status, bound, mode>>
worldVars == <<closed, connection, mutating, crashes>>
tapVars == <<target, verdict, readGeneration>>
vars == <<stateVars, worldVars, tapVars, pc, ran>>

Modes == {"strict", "normal", "auto"}

Init ==
    /\ current = {}
    /\ status = [c \in Calls |-> "absent"]
    /\ bound = [c \in Calls |-> 0]
    /\ mode \in Modes
    /\ closed = {}
    /\ connection = 0
    /\ mutating \in SUBSET Calls
    /\ pc = [p \in Writers |-> "idle"]
    /\ target \in [Taps -> Calls]
    /\ verdict \in [Taps -> BOOLEAN]
    /\ readGeneration = [t \in Taps |-> 0]
    /\ ran = [c \in Calls |-> 0]
    /\ crashes = 0

Goes(p, from, to) ==
    /\ pc[p] = from
    /\ pc' = [pc EXCEPT ![p] = to]

(* StateStore.Load, of which Update uses the version. *)
Loads(p) == current' = current \cup {p}

(***************************************************************************)
(* StateStore.Update: one transaction, whose mutation sees the current     *)
(* state.  It increments the version, so every version loaded before is    *)
(* out of date.                                                            *)
(***************************************************************************)
Commits(p) ==
    /\ p \in current
    /\ current' = {}

(* ErrStateVersionConflict, at any of the three updates of p. *)
Conflict(p, at) ==
    /\ p \notin current
    /\ Goes(p, at, "failed")
    /\ UNCHANGED <<stateVars, worldVars, tapVars, ran>>

(* The mutation returned an error, so nothing is written. *)
Refused(p, at) ==
    /\ p \in current
    /\ Goes(p, at, "failed")
    /\ UNCHANGED <<stateVars, worldVars, tapVars, ran>>

-----------------------------------------------------------------------------
(* approvalGatedTool.Execute and Request *)

RunsInline(c) == mode = "auto" \/ (mode = "normal" /\ c \notin mutating)

ReadMode(c) ==
    /\ Goes(c, "idle", IF RunsInline(c) THEN "inline" ELSE "asking")
    /\ UNCHANGED <<stateVars, worldVars, tapVars, ran>>

(* Request stamps the generation of the moment and loads the state. *)
LoadForRequest(c) ==
    /\ Goes(c, "asking", "requesting")
    /\ bound' = [bound EXCEPT ![c] = connection]
    /\ Loads(c)
    /\ UNCHANGED <<status, mode, worldVars, tapVars, ran>>

(* "awaiting_approval" is what the model reads. *)
Request(c) ==
    /\ Goes(c, "requesting", "awaiting")
    /\ Commits(c)
    /\ status' = [status EXCEPT ![c] = "pending"]
    /\ UNCHANGED <<bound, mode, worldVars, tapVars, ran>>

-----------------------------------------------------------------------------
(* Service.Approval: Decide, then ExecuteApproved *)

LoadForDecide(t) ==
    /\ Goes(t, "idle", "deciding")
    /\ status[target[t]] # "absent"
    /\ Loads(t)
    /\ UNCHANGED <<status, bound, mode, worldVars, tapVars, ran>>

MayDecide(t) == status[target[t]] = "pending"

(* The window has closed: the mark is committed, ErrExpired returned. *)
DecideExpired(t) ==
    /\ MayDecide(t)
    /\ target[t] \in closed
    /\ Goes(t, "deciding", "expired")
    /\ Commits(t)
    /\ status' = [status EXCEPT ![target[t]] = "expired"]
    /\ UNCHANGED <<bound, mode, worldVars, tapVars, ran>>

Decide(t) ==
    /\ MayDecide(t)
    /\ target[t] \notin closed
    /\ Goes(t, "deciding", IF verdict[t] THEN "approved" ELSE "rejected")
    /\ Commits(t)
    /\ status' = [status EXCEPT ![target[t]] =
                    IF verdict[t] THEN "approved" ELSE "rejected"]
    /\ UNCHANGED <<bound, mode, worldVars, tapVars, ran>>

DecideRefused(t) == ~MayDecide(t) /\ Refused(t, "deciding")

(* Authorize: the generation is read, then the state is loaded. *)
LoadForAuthorize(t) ==
    /\ Goes(t, "approved", "authorizing")
    /\ readGeneration' = [readGeneration EXCEPT ![t] = connection]
    /\ Loads(t)
    /\ UNCHANGED <<status, bound, mode, worldVars, target, verdict, ran>>

MayConsume(t) == status[target[t]] = "approved"

(* A refusal that changes the record is committed and returned afterwards. *)
AuthorizeRetires(t) ==
    /\ MayConsume(t)
    /\ target[t] \in closed \/ bound[target[t]] # readGeneration[t]
    /\ Goes(t, "authorizing", "retired")
    /\ Commits(t)
    /\ status' = [status EXCEPT ![target[t]] =
                    IF target[t] \in closed THEN "expired" ELSE "invalidated"]
    /\ UNCHANGED <<bound, mode, worldVars, tapVars, ran>>

(* Defect: the approval is checked and not consumed. *)
AuthorizeKeeps(t) ==
    /\ MayConsume(t)
    /\ target[t] \notin closed
    /\ bound[target[t]] = readGeneration[t]
    /\ Goes(t, "authorizing", "authorized")
    /\ Commits(t)
    /\ UNCHANGED <<status, bound, mode, worldVars, tapVars, ran>>

Authorize(t) ==
    /\ MayConsume(t)
    /\ target[t] \notin closed
    /\ bound[target[t]] = readGeneration[t]
    /\ Goes(t, "authorizing", "authorized")
    /\ Commits(t)
    /\ status' = [status EXCEPT ![target[t]] = "used"]
    /\ UNCHANGED <<bound, mode, worldVars, tapVars, ran>>

(* The tool is looked up after Authorize; the catalog may have lost it. *)
ToolIsGone(t) ==
    /\ Goes(t, "authorized", "failed")
    /\ UNCHANGED <<stateVars, worldVars, tapVars, ran>>

(* The unwrapped tool runs, and the owner is told what came of it. *)
ExecuteApproved(t) ==
    /\ Goes(t, "authorized", "ran")
    /\ ran' = [ran EXCEPT ![target[t]] = @ + 1]
    /\ UNCHANGED <<stateVars, worldVars, tapVars>>

-----------------------------------------------------------------------------
(* SetMode, and everything else that happens to the account *)

LoadForSetMode(s) ==
    /\ Goes(s, "idle", "setting")
    /\ Loads(s)
    /\ UNCHANGED <<status, bound, mode, worldVars, tapVars, ran>>

(* Defect: the mode is not validated. *)
SetAnyMode(s) ==
    /\ Goes(s, "setting", "set")
    /\ Commits(s)
    /\ mode' \in Modes \cup {"never"}
    /\ UNCHANGED <<status, bound, worldVars, tapVars, ran>>

SetMode(s) ==
    /\ Goes(s, "setting", "set")
    /\ Commits(s)
    /\ mode' \in Modes
    /\ UNCHANGED <<status, bound, worldVars, tapVars, ran>>

WindowCloses(c) ==
    /\ status[c] \in {"pending", "approved"}
    /\ c \notin closed
    /\ closed' = closed \cup {c}
    /\ UNCHANGED <<stateVars, connection, mutating, crashes, tapVars, pc, ran>>

(* CompleteLogin or Logout of the shared grant. *)
Reconnect ==
    /\ connection < MaxConnections
    /\ connection' = connection + 1
    /\ UNCHANGED <<stateVars, closed, mutating, crashes, tapVars, pc, ran>>

Resting == {"idle", "inline", "awaiting", "failed", "expired", "rejected",
            "retired", "ran", "set", "lost"}

(* The daemon dies: what was committed stays, who was under way is gone. *)
Crash ==
    /\ crashes < MaxCrashes
    /\ crashes' = crashes + 1
    /\ pc' = [p \in Writers |-> IF pc[p] \in Resting THEN pc[p] ELSE "lost"]
    /\ UNCHANGED <<stateVars, closed, connection, mutating, tapVars, ran>>

Next ==
    \/ \E c \in Calls : ReadMode(c) \/ LoadForRequest(c) \/ Request(c)
                        \/ Conflict(c, "requesting") \/ WindowCloses(c)
    \/ \E t \in Taps :
        \/ LoadForDecide(t) \/ DecideExpired(t) \/ Decide(t)
        \/ DecideRefused(t) \/ Conflict(t, "deciding")
        \/ LoadForAuthorize(t) \/ AuthorizeRetires(t) \/ Authorize(t)
        \/ Conflict(t, "authorizing")
        \/ ToolIsGone(t) \/ ExecuteApproved(t)
    \/ \E s \in Setters : LoadForSetMode(s) \/ SetMode(s)
                          \/ Conflict(s, "setting")
    \/ Reconnect
    \/ Crash

Spec == Init /\ [][Next]_vars

-----------------------------------------------------------------------------
(* Properties *)

Statuses == {"absent", "pending", "approved", "rejected", "expired",
             "invalidated", "used"}

Places == Resting \cup {"asking", "requesting", "deciding", "approved",
                        "authorizing", "authorized", "setting"}

(* The types of the account's state and of the operations on it. *)
TypeOK ==
    /\ current \subseteq Writers
    /\ status \in [Calls -> Statuses]
    /\ bound \in [Calls -> Nat]
    /\ mode \in Modes
    /\ closed \subseteq Calls
    /\ connection \in Nat
    /\ mutating \subseteq Calls
    /\ pc \in [Writers -> Places]
    /\ target \in [Taps -> Calls]
    /\ verdict \in [Taps -> BOOLEAN]
    /\ readGeneration \in [Taps -> Nat]
    /\ ran \in [Calls -> Nat]
    /\ crashes \in Nat

(***************************************************************************)
(* "Your decision executes it once": however many taps race on however     *)
(* many surfaces, with crashes between any two steps, the tool of an       *)
(* approval runs at most once, and only when it was consumed.              *)
(***************************************************************************)
RunsAtMostOnce ==
    \A c \in Calls : ran[c] <= 1 /\ (ran[c] = 1 => status[c] = "used")

(***************************************************************************)
(* A verdict is final: the record of a call moves only forward, whoever    *)
(* else writes the account's state, and never disappears.  In particular   *)
(* an approval that was rejected, expired or invalidated is never used.    *)
(***************************************************************************)
Follows(old) ==
    CASE old = "absent" -> {"absent", "pending"}
      [] old = "pending" -> {"pending", "approved", "rejected", "expired"}
      [] old = "approved" -> {"approved", "used", "expired", "invalidated"}
      [] OTHER -> {old}

VerdictsAreFinal == [][\A c \in Calls : status'[c] \in Follows(status[c])]_vars

(***************************************************************************)
(* Nothing runs without the owner: behind every consumed approval there is *)
(* an approve tap that decided it, and a call that ran inline never has an *)
(* approval that could run it again.                                       *)
(***************************************************************************)
OnlyTheOwnerApproves ==
    \A c \in Calls :
        /\ status[c] = "used" =>
              \E t \in Taps : /\ target[t] = c
                              /\ verdict[t]
                              /\ pc[t] \in {"authorized", "ran", "failed", "lost"}
        /\ pc[c] = "inline" => status[c] = "absent" /\ ran[c] = 0

(***************************************************************************)
(* A tap that was told the approval is no longer valid leaves it so: the   *)
(* record is retired for good, and cannot be pending (the count of waiting *)
(* approvals "could only ever grow") or usable again.                      *)
(***************************************************************************)
RefusalRetires ==
    \A t \in Taps :
        pc[t] \in {"expired", "retired"} =>
            status[target[t]] \in {"expired", "invalidated"}

(***************************************************************************)
(* An approval from before a reconnect that its tap could have seen is     *)
(* refused: what runs was asked for under the connection that Authorize    *)
(* read.                                                                   *)
(***************************************************************************)
RunsUnderItsConnection ==
    \A t \in Taps : pc[t] \in {"authorized", "ran"} =>
        /\ readGeneration[t] = bound[target[t]]
        /\ status[target[t]] = "used"

(***************************************************************************)
(* "Nothing approved against the old identity runs against the new one":   *)
(* the connection at the moment of execution is the approval's.            *)
(***************************************************************************)
NeverRunsOnNewIdentity ==
    [][\A c \in Calls : ran'[c] # ran[c] => bound[c] = connection]_vars

(***************************************************************************)
(* An approved call runs at most once, after the owner's tap and under the *)
(* connection that Authorize read; a refusal retires it, and a verdict is  *)
(* final (services/approval_service.go, approval_gate.go).                 *)
(***************************************************************************)
ApprovalsSafe ==
    /\ [](RunsAtMostOnce /\ OnlyTheOwnerApproves /\ RefusalRetires
           /\ RunsUnderItsConnection)
    /\ VerdictsAreFinal
=============================================================================
