------------------------------ MODULE Installs ------------------------------
(***************************************************************************)
(* One marketplace item (extensions/marketplace): its install record, the  *)
(* skills and MCP servers it has written, and the owner, who edits,        *)
(* deletes and enables them by other ways at any moment.                   *)
(*                                                                         *)
(* Service.mu makes operations exclusive among themselves only.  Reading   *)
(* or writing one skill, one server's entry or the record is one step.     *)
(***************************************************************************)
EXTENDS Integers, Sequences, FiniteSets

CONSTANTS
    Skills,     \* names of skills the item may bring
    Servers,    \* names of MCP servers it may bring
    Hashes,     \* contents upstream, as hashes; 0 is what the owner wrote
    MaxChanges, \* bound on the owner's changes and the service's operations
    None

VARIABLES
    content,    \* what a name holds: its hash, marker and switch, or None
    record,     \* hash recorded for each name, if it is in the record
    installed,  \* the install has a row
    op,         \* the operation that holds Service.mu, or None
    trusted,    \* the URL the owner enabled each server at, or None
    touched,    \* names the owner changed since the operation began
    before,     \* content when it began
    damaged,    \* a rollback step failed, or the daemon died in an operation
    edits, ops

vars == <<content, record, installed, op, trusted, touched, before, damaged,
          edits, ops>>

Targets == Skills \cup Servers
Upstream == Hashes \ {0}
Deleted == -1       \* tombstoneHash
Absent == -2        \* no entry in the record

Holds(hash, marked, on) == [hash |-> hash, marked |-> marked, on |-> on]
Recorded == [t \in Targets |-> Absent]

Init ==
    /\ content \in [Targets -> {None, Holds(0, FALSE, FALSE)}]
    /\ record = Recorded /\ installed = FALSE
    /\ op = None
    /\ trusted = [t \in Targets |-> None]
    /\ touched = {} /\ before = content /\ damaged = FALSE
    /\ edits = 0 /\ ops = 0

Owned(t) == record[t] \notin {Absent, Deleted}

-----------------------------------------------------------------------------
(* The owner, through the panel, a tool or the file system. *)

OwnerPuts(t, c) ==
    /\ edits + ops < MaxChanges
    /\ edits' = edits + 1
    /\ c # content[t]
    /\ content' = [content EXCEPT ![t] = c]
    /\ touched' = touched \cup {t}
    /\ trusted' = [trusted EXCEPT ![t] =
                    IF c # None /\ c.on THEN c.hash ELSE None]
    /\ UNCHANGED <<record, installed, op, before, damaged, ops>>

OwnerWrites(t) == OwnerPuts(t, Holds(0, content[t] # None /\ content[t].marked,
                                     content[t] # None /\ content[t].on))
OwnerDeletes(t) == OwnerPuts(t, None)
OwnerSwitches(t) ==
    content[t] # None /\ OwnerPuts(t, [content[t] EXCEPT !.on = ~@])

-----------------------------------------------------------------------------
(* Reviewing and starting *)

Starts(kind, plan, replace) ==
    /\ op = None /\ edits + ops < MaxChanges
    /\ ops' = ops + 1
    /\ op' = [kind |-> kind, plan |-> plan, replace |-> replace,
              pc |-> "reading", states |-> [t \in Targets |-> "none"],
              todo |-> Targets, files |-> Recorded, at |-> None, undo |-> <<>>]
    /\ touched' = {} /\ before' = content
    /\ UNCHANGED <<content, record, installed, trusted, damaged, edits>>

(* What buildPlan lets through: a skill's name that is taken is a          *)
(* conflict, a server's name that is taken is skipped.                     *)
Clear(plan) == \A t \in DOMAIN plan : content[t] # None => Owned(t)

Plans == UNION {[S -> Upstream] : S \in SUBSET Targets}

Install(plan) == ~installed /\ Clear(plan) /\ Starts("install", plan, {})

Update(plan, replace) ==
    /\ installed /\ Clear(plan)
    /\ Starts("update", plan, replace)

Remove(delete) == installed /\ Starts("remove", <<>>, delete)

(* fileStates: how each name compares with the record.  A server that is   *)
(* enabled counts as edited.                                               *)
StateOf(t) ==
    IF record[t] = Absent THEN "none"
    ELSE IF record[t] = Deleted
    THEN IF content[t] = None THEN "gone" ELSE "taken"
    ELSE IF content[t] = None THEN "missing"
    ELSE IF content[t].hash # record[t] \/ (t \in Servers /\ content[t].on)
    THEN "edited" ELSE "same"

ReadStates ==
    /\ op # None /\ op.pc = "reading"
    /\ op' = [op EXCEPT !.pc = "next",
                        !.states = [t \in Targets |-> StateOf(t)]]
    /\ UNCHANGED <<content, record, installed, trusted, touched, before,
                   damaged, edits, ops>>

-----------------------------------------------------------------------------
(* What becomes of one name: an act, and its entry in the new record. *)

Act(act, file) == [act |-> act, file |-> file]

Kept(t) == op.states[t] = "edited" /\ t \notin op.replace

Planned(t) ==
    LET new == op.plan[t]
        found == op.states[t] IN
    IF found \in {"gone", "missing"} THEN Act("none", Deleted)
    ELSE IF found = "taken" THEN Act("none", Absent)
    ELSE IF found = "none" THEN Act(IF t \in Skills THEN "write" ELSE "add", new)
    ELSE IF t \in Skills
    THEN IF Kept(t) THEN Act("none", record[t]) ELSE Act("write", new)
    ELSE IF found = "edited" THEN Act("none", record[t])
    ELSE Act(IF record[t] # new THEN "unplug" ELSE "none", new)

Dropped(t) ==
    IF op.states[t] \in {"none", "gone", "taken", "missing"} THEN Act("none", Absent)
    ELSE IF t \in Skills THEN Act(IF Kept(t) THEN "release" ELSE "delete", Absent)
    ELSE IF op.kind = "remove" THEN Act(IF Kept(t) THEN "none" ELSE "remove", Absent)
    ELSE IF op.states[t] = "edited" THEN Act("none", record[t])
    ELSE Act("remove", Absent)

(* Defect: an update brings back what the owner has deleted. *)
PlannedAgain(t) ==
    IF op.states[t] \in {"gone", "missing"} /\ t \in Skills
    THEN Act("write", op.plan[t]) ELSE Planned(t)

VerdictAgain(t) ==
    IF t \in DOMAIN op.plan THEN PlannedAgain(t) ELSE Dropped(t)

Verdict(t) == IF t \in DOMAIN op.plan THEN Planned(t) ELSE Dropped(t)

(* The next name; one that is to change is snapshotted.  Removal goes by    *)
(* the record's order, servers first; the others do the skills first.       *)
NextTarget ==
    /\ op # None /\ op.pc = "next"
    /\ \E t \in op.todo :
        /\ LET first == IF op.kind = "remove" THEN Servers ELSE Skills IN
            op.todo \cap first # {} => t \in first
        /\ LET v == Verdict(t) IN
            op' = [op EXCEPT !.todo = @ \ {t}, !.at = t,
                    !.files[t] = v.file,
                    !.pc = IF v.act = "none" THEN "next" ELSE v.act,
                    !.undo = IF v.act = "none" THEN @
                             ELSE <<[t |-> t, was |-> content[t]]>> \o @]
    /\ UNCHANGED <<content, record, installed, trusted, touched, before,
                   damaged, edits, ops>>

Puts(c, pc) ==
    /\ content' = [content EXCEPT ![op.at] = c]
    /\ op' = [op EXCEPT !.pc = pc]
    /\ UNCHANGED <<record, installed, trusted, touched, before, damaged,
                   edits, ops>>

At(pc) == op # None /\ op.pc = pc

(* WriteBundle keeps the disabled flag, and replaces only what is owned. *)
WriteSkill ==
    /\ At("write")
    /\ content[op.at] = None \/ Owned(op.at)
    /\ Puts(Holds(op.plan[op.at], TRUE,
                  content[op.at] = None \/ content[op.at].on), "next")

(* releaseSkill clears the marker. *)
ReleaseSkill ==
    /\ At("release") /\ content[op.at] # None
    /\ Puts([content[op.at] EXCEPT !.marked = FALSE], "next")

DeleteSkill == At("delete") /\ Puts(None, "next")

AddServer ==
    /\ At("add") /\ content[op.at] = None
    /\ Puts(Holds(op.plan[op.at], FALSE, FALSE), "next")

RemoveServer ==
    /\ At("remove") /\ content[op.at] # None
    /\ Puts(None, "next")

(* A server at a new URL is removed and added again, disabled. *)
UnplugServer ==
    /\ At("unplug") /\ content[op.at] # None
    /\ Puts(None, "add")

-----------------------------------------------------------------------------
(* The end: the record is stored, or everything is undone, newest first. *)

Finish ==
    /\ At("next") /\ op.todo = {}
    /\ record' = op.files
    /\ installed' = (op.kind # "remove")
    /\ op' = None
    /\ UNCHANGED <<content, trusted, touched, before, damaged, edits, ops>>

(* Any call may fail, the store's included. *)
Fails ==
    /\ op # None /\ op.pc # "undoing"
    /\ op' = [op EXCEPT !.pc = "undoing"]
    /\ UNCHANGED <<content, record, installed, trusted, touched, before,
                   damaged, edits, ops>>

(* A server comes back disabled. *)
Restored(t, was) ==
    IF was = None \/ t \in Skills THEN was ELSE [was EXCEPT !.on = FALSE]

Undo ==
    /\ At("undoing") /\ op.undo # <<>>
    /\ LET step == Head(op.undo) IN
        \/ /\ content' = [content EXCEPT ![step.t] = Restored(step.t, step.was)]
           /\ UNCHANGED damaged
        \/ /\ damaged' = TRUE
           /\ \/ UNCHANGED content
              \/ step.t \in Servers /\ content' = [content EXCEPT ![step.t] = None]
    /\ op' = [op EXCEPT !.undo = Tail(@)]
    /\ UNCHANGED <<record, installed, trusted, touched, before, edits, ops>>

RolledBack ==
    /\ At("undoing") /\ op.undo = <<>>
    /\ op' = None
    /\ UNCHANGED <<content, record, installed, trusted, touched, before,
                   damaged, edits, ops>>

(* SetDisabled walks the record without a journal, and may stop anywhere;  *)
(* enabling leaves servers off.                                            *)
SetDisabled(off) ==
    /\ op = None /\ installed /\ edits + ops < MaxChanges
    /\ ops' = ops + 1
    /\ \E done \in SUBSET {t \in Targets : Owned(t) /\ content[t] # None} :
        content' = [t \in Targets |->
            IF t \in done /\ (t \in Skills \/ off)
            THEN [content[t] EXCEPT !.on = ~off] ELSE content[t]]
    /\ UNCHANGED <<record, installed, op, trusted, touched, before, damaged,
                   edits>>

(* The daemon dies. *)
Crash ==
    /\ op # None
    /\ op' = None
    /\ damaged' = TRUE
    /\ UNCHANGED <<content, record, installed, trusted, touched, before,
                   edits, ops>>

Owner == \E t \in Targets : OwnerWrites(t) \/ OwnerDeletes(t) \/ OwnerSwitches(t)

Steps ==
    \/ ReadStates \/ NextTarget \/ WriteSkill \/ ReleaseSkill \/ DeleteSkill
    \/ AddServer \/ RemoveServer \/ UnplugServer
    \/ Finish \/ Fails \/ Undo \/ RolledBack \/ Crash

Next ==
    \/ Owner
    \/ \E plan \in Plans : Install(plan)
    \/ \E plan \in Plans, replace \in SUBSET Skills : Update(plan, replace)
    \/ \E delete \in SUBSET Targets : Remove(delete)
    \/ \E off \in BOOLEAN : SetDisabled(off)
    \/ Steps

Spec == Init /\ [][Next]_vars

-----------------------------------------------------------------------------
(* Properties *)

Contents == {None} \cup
    [hash : Hashes, marked : BOOLEAN, on : BOOLEAN]

(* Every variable has its type, and only an install has a record. *)
TypeOK ==
    /\ content \in [Targets -> Contents]
    /\ record \in [Targets -> Upstream \cup {Deleted, Absent}]
    /\ ~installed => record = Recorded
    /\ op # None => op.todo \subseteq Targets /\ op.at \in Targets \cup {None}
    /\ trusted \in [Targets -> Hashes \cup {None}]
    /\ touched \subseteq Targets /\ before \in [Targets -> Contents]

(* "Enabling a server is a trust decision": a server runs only at the URL  *)
(* at which the owner has switched it on, whatever installs, updates,      *)
(* failures, rollbacks and crashes come in between.                        *)
TrustIsTheOwners ==
    \A t \in Servers :
        content[t] # None /\ content[t].on => trusted[t] = content[t].hash

(* An operation that fails leaves nothing behind: when a rollback ends,    *)
(* and none of its steps failed, every name the owner has not changed in   *)
(* the meantime holds what it held, with its marker and its switch; only   *)
(* a server may come back switched off.                                    *)
RollbackRestores ==
    At("undoing") /\ op.undo = <<>> /\ ~damaged =>
        \A t \in Targets \ touched :
            \/ content[t] = before[t]
            \/ /\ t \in Servers
               /\ content[t] = [before[t] EXCEPT !.on = FALSE]

(* What the owner has edited and not named, and what the owner has         *)
(* deleted, stays so through an update or a removal; an edited skill only  *)
(* loses its marker.  (Unless the owner changes it while it runs.)         *)
OwnersWorkKept ==
    op # None /\ ~damaged =>
        \A t \in Skills \ touched :
            /\ before[t] # None /\ before[t].hash = 0 /\ t \notin op.replace =>
                content[t] # None /\ content[t].hash = 0
            /\ record[t] \notin {Absent} /\ before[t] = None =>
                content[t] = None
=============================================================================
