----------------------------- MODULE SkillFiles -----------------------------
(***************************************************************************)
(* The files of one skill (skills/store.go): a flat file or a directory,   *)
(* replaced by staging a copy, moving the old one aside and renaming; a    *)
(* daemon that dies on the way; and the listing that repairs what is left. *)
(*                                                                         *)
(* Store.mu lets one operation run at a time, so what another one sees is  *)
(* the files between operations; a crash sees them at every step.  A       *)
(* single file is replaced atomically (fsutil/atomicfile).                 *)
(***************************************************************************)
EXTENDS Naturals, FiniteSets

CONSTANTS
    Versions,   \* contents the owner or an install may write
    MaxWork,    \* bound on operations
    MaxCrashes, \* bound on deaths of the daemon
    None

VARIABLES
    flat,       \* skills/<name>.md
    dir,        \* skills/<name>/
    stage,      \* .stage-<name>-<hex>, of this operation or left behind
    old,        \* the copies moved aside, .old-<name>-<hex>
    work,       \* the operation that holds Store.mu, or None
    due,        \* what a listing may show, as the operations were told
    choice,     \* the skill is off, as the owner last said
    hasty,      \* an operation ran after a crash and before a listing
    done, crashes

files == <<flat, dir, stage, old>>
vars == <<flat, dir, stage, old, work, due, choice, hasty, done, crashes>>

(* v is the content of the SKILL file, or None if there is none; whole     *)
(* says that every file of the bundle is there.                            *)
Copy(v, off, whole) == [v |-> v, off |-> off, whole |-> whole]
Pieces(c) == {Copy(v, c.off, FALSE) : v \in {None, c.v}}

HasSkill == dir # None /\ dir.v # None

(* locate: a name in both layouts, and a directory without a SKILL file,   *)
(* are refused.                                                            *)
Located ==
    IF HasSkill THEN IF flat = None THEN "dir" ELSE "error"
    ELSE IF flat # None THEN "flat"
    ELSE IF dir # None THEN "error" ELSE "none"

Current == IF Located = "dir" THEN dir ELSE IF Located = "flat" THEN flat ELSE None

Init ==
    /\ flat \in {None} \cup {Copy(0, off, TRUE) : off \in BOOLEAN}
    /\ dir \in {None} \cup {Copy(0, off, TRUE) : off \in BOOLEAN}
    /\ None \in {flat, dir}
    /\ stage = None /\ old = {} /\ work = None
    /\ due = {Current}
    /\ choice = (Current # None /\ Current.off)
    /\ hasty = FALSE /\ done = 0 /\ crashes = 0

Leftovers == stage # None \/ old # {}

Begins(w) ==
    /\ work = None /\ done < MaxWork
    /\ done' = done + 1
    /\ work' = w
    /\ UNCHANGED crashes

At(pc) == work # None /\ work.pc = pc
Goes(pc) == work' = [work EXCEPT !.pc = pc]
Ends == work' = None
Known == UNCHANGED <<choice, hasty, done, crashes>>

-----------------------------------------------------------------------------
(* One file: Write and SetDisabled *)

PutFile(c) ==
    IF Located = "dir" THEN dir' = c /\ UNCHANGED <<flat, stage, old>>
    ELSE flat' = c /\ UNCHANGED <<dir, stage, old>>

Write(v) ==
    /\ Located # "error"
    /\ Begins(None)
    /\ LET c == IF Current = None THEN Copy(v, FALSE, TRUE)
                ELSE [Current EXCEPT !.v = v] IN
        PutFile(c) /\ due' = {c}
    /\ choice' = (choice /\ Current # None)
    /\ hasty' = (hasty \/ Leftovers)

SetDisabled(off) ==
    /\ Current # None
    /\ Begins(None)
    /\ PutFile([Current EXCEPT !.off = off])
    /\ due' = {[Current EXCEPT !.off = off]}
    /\ choice' = off
    /\ hasty' = (hasty \/ Leftovers)

-----------------------------------------------------------------------------
(* WriteBundle *)

(* A skill that is there is replaced only on request, and only if its      *)
(* file can be read; its switch is kept.                                   *)
WriteBundle(v, replace) ==
    /\ Located # "error"
    /\ Current # None => replace
    /\ LET off == Current # None /\ Current.off IN
        /\ Begins([kind |-> "bundle", pc |-> "stage", from |-> Located,
                   copy |-> Copy(v, off, TRUE), was |-> Current])
        /\ due' = due \cup {Copy(v, off, TRUE)}
        /\ stage' \in Pieces(Copy(v, off, TRUE))
        /\ choice' = off
    /\ hasty' = (hasty \/ Leftovers)
    /\ UNCHANGED <<flat, dir, old>>

StageTree ==
    /\ At("stage")
    /\ stage' = work.copy
    /\ Goes(IF work.from = "none" THEN "place" ELSE "aside")
    /\ UNCHANGED <<flat, dir, old, due>> /\ Known

(* The directory cannot be written, or the old skill not be moved. *)
StageFails ==
    /\ At("stage") \/ At("aside")
    /\ stage' = None
    /\ due' = {work.was}
    /\ Ends
    /\ UNCHANGED <<flat, dir, old>> /\ Known

MoveAside ==
    /\ At("aside")
    /\ old' = old \cup {[at |-> work.from, copy |-> Current]}
    /\ IF work.from = "dir" THEN dir' = None /\ UNCHANGED flat
       ELSE flat' = None /\ UNCHANGED dir
    /\ Goes("place")
    /\ UNCHANGED <<stage, due>> /\ Known

(* Defect: the new copy is placed file by file. *)
PlaceInPieces ==
    /\ At("place") /\ dir = None
    /\ \/ dir' \in Pieces(stage) /\ UNCHANGED <<stage, work>>
       \/ dir' = stage /\ stage' = None /\ Goes("drop")
    /\ UNCHANGED <<flat, old, due>> /\ Known

Place ==
    /\ At("place") /\ dir = None
    /\ dir' = stage /\ stage' = None
    /\ Goes("drop")
    /\ UNCHANGED <<flat, old, due>> /\ Known

PlaceFails ==
    /\ At("place")
    /\ stage' = None
    /\ Goes("restore")
    /\ UNCHANGED <<flat, dir, old, due>> /\ Known

Mine == [at |-> work.from, copy |-> work.was]

(* The old skill goes back; if even that fails it is kept where it is. *)
Restore ==
    /\ At("restore")
    /\ \/ /\ work.from # "none"
          /\ old' = old \ {Mine}
          /\ IF work.from = "dir" THEN dir' = work.was /\ UNCHANGED flat
             ELSE flat' = work.was /\ UNCHANGED dir
          /\ UNCHANGED hasty
       \/ /\ UNCHANGED <<flat, dir, old, hasty>>
    /\ due' = {work.was}
    /\ Ends
    /\ UNCHANGED <<stage, choice, done, crashes>>

(* os.RemoveAll of the copy moved aside; its error is ignored. *)
DropOld ==
    /\ At("drop")
    /\ IF work.from = "none" THEN UNCHANGED old
       ELSE \/ old' = old \ {Mine}
            \/ \E piece \in Pieces(work.was) \cup {work.was} :
                old' = (old \ {Mine}) \cup {[at |-> work.from, copy |-> piece]}
    /\ due' = {work.copy}
    /\ Ends
    /\ UNCHANGED <<flat, dir, stage>> /\ Known

-----------------------------------------------------------------------------
(* Delete removes both layouts, the directory file by file. *)

Delete ==
    /\ flat # None \/ dir # None
    /\ Begins([kind |-> "delete", pc |-> "delete", from |-> "none",
               copy |-> None, was |-> Current])
    /\ flat' = None
    /\ due' = due \cup {None} \cup (IF dir = None THEN {} ELSE Pieces(dir) \cup {dir})
    /\ hasty' = (hasty \/ Leftovers)
    /\ UNCHANGED <<dir, stage, old, choice>>

DeleteDir ==
    /\ At("delete")
    /\ \/ /\ dir # None /\ dir.whole
          /\ dir' \in Pieces(dir) /\ UNCHANGED <<work, due, choice>>
       \/ dir' = None /\ due' = {None} /\ choice' = FALSE /\ Ends
    /\ UNCHANGED <<flat, stage, old, hasty, done, crashes>>

-----------------------------------------------------------------------------
(* The daemon dies; the next listing recovers. *)

Crash ==
    /\ work # None /\ crashes < MaxCrashes
    /\ crashes' = crashes + 1
    /\ Ends
    /\ UNCHANGED files /\ UNCHANGED <<due, choice, hasty, done>>

List ==
    /\ work = None /\ Leftovers /\ done < MaxWork
    /\ work' = [kind |-> "list", pc |-> "recover", from |-> "none",
                copy |-> None, was |-> None]
    /\ UNCHANGED files /\ UNCHANGED <<due, choice, hasty, done, crashes>>

RecoverStage ==
    /\ At("recover") /\ stage # None
    /\ stage' = None
    /\ UNCHANGED <<flat, dir, old, work, due>> /\ Known

(* A copy moved aside goes if the skill is there, and comes back if not. *)
RecoverOld ==
    /\ At("recover")
    /\ \E o \in old :
        /\ old' = old \ {o}
        /\ IF flat # None \/ dir # None THEN UNCHANGED <<flat, dir>>
           ELSE IF o.at = "dir" THEN dir' = o.copy /\ UNCHANGED flat
           ELSE flat' = o.copy /\ UNCHANGED dir
    /\ UNCHANGED <<stage, work, due>> /\ Known

Listed ==
    /\ At("recover") /\ ~Leftovers
    /\ Ends
    /\ due' = {Current}
    /\ UNCHANGED files /\ Known

Next ==
    \/ \E v \in Versions : Write(v)
    \/ \E off \in BOOLEAN : SetDisabled(off)
    \/ \E v \in Versions, replace \in BOOLEAN : WriteBundle(v, replace)
    \/ StageTree \/ StageFails \/ MoveAside \/ Place \/ PlaceFails
    \/ Restore \/ DropOld \/ Delete \/ DeleteDir
    \/ Crash \/ List \/ RecoverStage \/ RecoverOld \/ Listed

Spec == Init /\ [][Next]_vars

-----------------------------------------------------------------------------
(* Properties *)

Copies == [v : Versions \cup {0, None}, off : BOOLEAN, whole : BOOLEAN]

(* Every variable has its type. *)
TypeOK ==
    /\ {flat, dir, stage} \subseteq Copies \cup {None}
    /\ old \subseteq [at : {"flat", "dir"}, copy : Copies]
    /\ due \subseteq Copies \cup {None} /\ due # {}

(* Whatever is interrupted, and wherever: when the leftovers have been     *)
(* repaired the skill is one that an operation was told to make or to      *)
(* replace, whole and with the switch the owner chose; it is never torn    *)
(* and never lost.  (For as long as nobody writes or deletes between a     *)
(* crash and the next listing.)                                            *)
Recovered ==
    At("recover") /\ ~Leftovers /\ ~hasty =>
        /\ Current \in due
        /\ Current # None => Current.off = choice

(* A reader, which may come between any two operations and before the      *)
(* listing that repairs, never gets a bundle of which a file is missing,   *)
(* unless its deletion was interrupted.                                    *)
NeverHalfWritten ==
    work = None /\ ~hasty /\ Current # None /\ Current \notin due => Current.whole
=============================================================================
