---------------------------- MODULE HomeMigration ----------------------------
(***************************************************************************)
(* What a boot does to a home from before accounts existed: the files of   *)
(* the old stores are imported, the rows get an owner, and the private     *)
(* documents move to that owner's directory (home/accounts.go,             *)
(* storage/sqlite/legacy.go and accounts_migration.go, and the wiring in   *)
(* bootstrap that runs them before any store is handed out).               *)
(*                                                                         *)
(* The daemon may die at every step, and the owner may edit config.yaml    *)
(* between two boots.  A database transaction and a rename are atomic.     *)
(***************************************************************************)
EXTENDS Naturals, FiniteSets

CONSTANTS
    Ids,        \* account ids
    Docs,       \* the private documents
    MaxBoots, MaxEdits, MaxWrites,
    None

VARIABLES
    conf,       \* config.yaml: accounts mode or not, the ids, the legacy owner
    atRoot,     \* documents in the root of the home, the oldest layout
    memories,   \* memories/, or None if there is no such directory
    archives,   \* the directories renamed out of the way
    private,    \* accounts/<id>/memories
    staging,    \* accounts/<id>/memories.tmp
    jsonFile,   \* state.json: "there", "archived" or None
    imported,   \* the row of the imports table
    rows,       \* private rows: who wrote one and whose it is
    recorded,   \* schema_meta's legacy_account
    phase,      \* schema_meta's legacy_documents_phase
    pc,         \* where the boot is: "down" .. "up"
    from,       \* the recorded account as the boot read it
    original, written, boots, hand, writes

homeVars == <<conf, atRoot, memories, archives, private, staging, jsonFile,
              imported, rows, recorded, phase, pc, from, original, written, boots, hand, writes>>

Unowned == "unowned"
NoDocs == [d \in Docs |-> None]
Has(dir, d) == dir # None /\ dir[d] # None
Holds(dir) == \E d \in Docs : Has(dir, d)

(* Contents: "old" is what a document held before accounts; an account's   *)
(* id is what that account wrote last.                                     *)
Dirs == [Docs -> {None, "old"} \cup Ids]

Shapes ==
    {[accounts |-> FALSE, ids |-> {i}, owner |-> i] : i \in Ids} \cup
    {c \in [accounts : {TRUE}, ids : SUBSET Ids \ {{}}, owner : Ids \cup {None}] :
        c.owner \in c.ids \cup {None}}

Init ==
    /\ conf \in Shapes
    /\ original \in SUBSET Docs
    /\ \E flat \in SUBSET original :
         /\ atRoot = [d \in Docs |-> IF d \in flat THEN "old" ELSE None]
         /\ memories = IF original \ flat = {} THEN None
                       ELSE [d \in Docs |-> IF d \in original \ flat THEN "old" ELSE None]
    /\ archives = {} /\ private = [i \in Ids |-> None] /\ staging = [i \in Ids |-> None]
    /\ jsonFile \in {None, "there"} /\ imported = FALSE
    /\ rows \in {{}, {[by |-> Unowned, owner |-> Unowned]}}
    /\ recorded = None /\ phase = None
    /\ pc = "down" /\ from = None
    /\ written = {} /\ boots = 0 /\ hand = 0 /\ writes = 0

Bounds == UNCHANGED <<original, written, boots, hand, writes>>
Files == UNCHANGED <<atRoot, memories, archives, private, staging>>
Database == UNCHANGED <<jsonFile, imported, rows, recorded, phase>>

-----------------------------------------------------------------------------
(* The owner and the running daemon *)

(* config.yaml is edited by hand while the daemon is down.                 *)
EditConfig(shape) ==
    /\ pc = "down" /\ hand < MaxEdits
    /\ conf' = shape /\ hand' = hand + 1
    /\ Files /\ Database /\ UNCHANGED <<pc, from, original, written, boots, writes>>

(* A turn of account i writes a document and leaves a row.                 *)
Serve(i, d) ==
    /\ pc = "up" /\ i \in conf.ids /\ writes < MaxWrites
    /\ private' = [private EXCEPT ![i] = [(IF @ = None THEN NoDocs ELSE @) EXCEPT ![d] = i]]
    /\ rows' = rows \cup {[by |-> i, owner |-> i]}
    /\ written' = (written \
                    {<<d, IF private[i] = None THEN None ELSE private[i][d]>>})
                  \cup {<<d, i>>}
    /\ writes' = writes + 1
    /\ UNCHANGED <<conf, atRoot, memories, archives, staging, jsonFile, imported,
                   recorded, phase, pc, from, original, boots, hand>>

(* The daemon stops, dies, or refuses to boot.                             *)
Stop ==
    /\ pc # "down"
    /\ pc' = "down" /\ from' = None
    /\ Files /\ Database /\ Bounds /\ UNCHANGED conf

Boot ==
    /\ pc = "down" /\ boots < MaxBoots
    /\ boots' = boots + 1 /\ pc' = "relocate"
    /\ Files /\ Database /\ UNCHANGED <<conf, from, original, written, hand, writes>>

-----------------------------------------------------------------------------
(* Layout.Migrate: a file in the root moves to memories/ unless there is   *)
(* one already; ImportLegacy: one transaction, then the archive            *)

Relocate(d) ==
    /\ pc = "relocate" /\ atRoot[d] # None /\ ~Has(memories, d)
    /\ memories' = [(IF memories = None THEN NoDocs ELSE memories) EXCEPT ![d] = atRoot[d]]
    /\ atRoot' = [atRoot EXCEPT ![d] = None]
    /\ UNCHANGED <<conf, archives, private, staging, pc, from>> /\ Database /\ Bounds

Relocated ==
    /\ pc = "relocate" /\ \A d \in Docs : atRoot[d] = None \/ Has(memories, d)
    /\ pc' = "import"
    /\ Files /\ Database /\ Bounds /\ UNCHANGED <<conf, from>>

(* What state.json, cron/ and auth.json hold is written without an owner.  *)
ImportedRows == IF jsonFile = "there" THEN {[by |-> Unowned, owner |-> Unowned]} ELSE {}

ImportOnce ==
    /\ pc = "import"
    /\ imported' = TRUE
    /\ rows' = IF imported THEN rows ELSE rows \cup ImportedRows
    /\ pc' = "archive"
    /\ Files /\ Bounds /\ UNCHANGED <<conf, from, jsonFile, recorded, phase>>

Archive ==
    /\ pc = "archive"
    /\ jsonFile' = IF jsonFile = "there" THEN "archived" ELSE jsonFile
    /\ pc' = "assign"
    /\ Files /\ Bounds /\ UNCHANGED <<conf, from, imported, rows, recorded, phase>>

-----------------------------------------------------------------------------
(* assignLegacyRecords: refuse, or one transaction (MigrateAccounts), and  *)
(* then the directory of an owner that has a new name                      *)

HasUnownedRecords == \E r \in rows : r.owner = Unowned

(* Nobody is named: fine only if nothing waits for an owner and the        *)
(* account that got the history is still configured.                       *)
AssignNothing ==
    /\ pc = "assign" /\ conf.owner = None
    /\ ~HasUnownedRecords /\ (recorded = None \/ recorded \in conf.ids)
    /\ pc' = "serve"
    /\ Files /\ Database /\ Bounds /\ UNCHANGED <<conf, from>>

(* The recorded owner is a live account in its own right: refused (Stop).  *)
MayTakeOver == recorded \in {None, conf.owner} \/ recorded \notin conf.ids

(* With the legacy owner's rows go those of the name it had before; the    *)
(* mapping is recorded when something moved.                               *)
(* Faulty: only the unowned rows move when the owner has a new name.      *)
MigrateUnowned ==
    /\ rows' = {[r EXCEPT !.owner = IF @ = Unowned THEN conf.owner ELSE @] : r \in rows}
    /\ recorded' = IF rows # {} THEN conf.owner ELSE recorded

MigrateAccounts ==
    LET sources == {Unowned} \cup ({recorded} \ {None, conf.owner})
        moved == {r \in rows : r.owner \in sources}
    IN /\ rows' = (rows \ moved) \cup {[r EXCEPT !.owner = conf.owner] : r \in moved}
       /\ recorded' = IF moved # {} \/ recorded # None THEN conf.owner ELSE recorded

AssignRecords ==
    /\ pc = "assign" /\ conf.owner # None /\ MayTakeOver
    /\ MigrateAccounts
    /\ from' = recorded
    /\ pc' = IF recorded \in {None, conf.owner} THEN "documents" ELSE "rename"
    /\ Files /\ Bounds /\ UNCHANGED <<conf, jsonFile, imported, phase>>

(* RenameAccount: never over a directory that exists (the boot fails).     *)
RenameAccount ==
    /\ pc = "rename"
    /\ \/ private[from] = None /\ UNCHANGED private
       \/ /\ private[from] # None /\ private[conf.owner] = None
          /\ private' = [private EXCEPT ![from] = None, ![conf.owner] = private[from]]
    /\ pc' = "documents"
    /\ UNCHANGED <<conf, atRoot, memories, archives, staging, from>> /\ Database /\ Bounds

-----------------------------------------------------------------------------
(* MigrateAccountDocuments: each phase is recorded after its step          *)

Target == private[conf.owner]
Recording(p) == phase' = p /\ UNCHANGED <<jsonFile, imported, rows, recorded>>

DocumentsDone ==
    /\ pc = "documents" /\ (phase = "complete" \/ ~Holds(memories))
    /\ IF phase = "copied" THEN Recording("complete") ELSE Database
    /\ pc' = "serve"
    /\ Files /\ Bounds /\ UNCHANGED <<conf, from>>

StartCopy ==
    /\ pc = "documents" /\ phase \notin {"copied", "complete"} /\ Holds(memories)
    /\ Recording("copying")
    /\ staging' = [staging EXCEPT ![conf.owner] = None]
    /\ pc' = "copy"
    /\ UNCHANGED <<conf, atRoot, memories, archives, private, from>> /\ Bounds

(* Documents are staged one by one, and one rename publishes them.         *)
Stage(d) ==
    /\ pc = "copy" /\ Target = None
    /\ Has(memories, d) /\ ~Has(staging[conf.owner], d)
    /\ staging' = [staging EXCEPT ![conf.owner] =
                     [(IF @ = None THEN NoDocs ELSE @) EXCEPT ![d] = memories[d]]]
    /\ UNCHANGED <<conf, atRoot, memories, archives, private, pc, from>> /\ Database /\ Bounds

Publish ==
    /\ pc = "copy" /\ Target = None
    /\ \A d \in Docs : Has(memories, d) => Has(staging[conf.owner], d)
    /\ private' = [private EXCEPT ![conf.owner] = staging[conf.owner]]
    /\ staging' = [staging EXCEPT ![conf.owner] = None]
    /\ pc' = "copied"
    /\ UNCHANGED <<conf, atRoot, memories, archives, from>> /\ Database /\ Bounds

(* reconcileExisting: what is missing is copied in; a document that        *)
(* differs is somebody's, and the boot is refused (Stop).                  *)
Missing(d) == ~Has(Target, d)

CopyIn(d) ==
    /\ pc = "copy" /\ Target # None /\ Has(memories, d) /\ Missing(d)
    /\ private' = [private EXCEPT ![conf.owner][d] = memories[d]]
    /\ UNCHANGED <<conf, atRoot, memories, archives, staging, pc, from>> /\ Database /\ Bounds

Reconciled ==
    /\ pc = "copy" /\ Target # None
    /\ \A d \in Docs : Has(memories, d) => Target[d] = memories[d]
    /\ pc' = "copied"
    /\ Files /\ Database /\ Bounds /\ UNCHANGED <<conf, from>>

Copied ==
    /\ pc = "copied"
    /\ Recording("copied") /\ pc' = "documents"
    /\ Files /\ Bounds /\ UNCHANGED <<conf, from>>

(* archiveDirectory: the originals are renamed, never removed.             *)
ArchiveOriginals == archives' = archives \cup {memories}

ArchiveDirectory ==
    /\ pc = "documents" /\ phase = "copied" /\ Holds(memories)
    /\ ArchiveOriginals /\ memories' = None
    /\ pc' = "complete"
    /\ UNCHANGED <<conf, atRoot, private, staging, from>> /\ Database /\ Bounds

Complete ==
    /\ pc = "complete"
    /\ Recording("complete") /\ pc' = "serve"
    /\ Files /\ Bounds /\ UNCHANGED <<conf, from>>

(* openStores returns, and the daemon serves.                              *)
HandOut ==
    /\ pc = "serve"
    /\ pc' = "up" /\ from' = None
    /\ Files /\ Database /\ Bounds /\ UNCHANGED conf

Next ==
    \/ \E shape \in Shapes : EditConfig(shape)
    \/ \E i \in Ids, d \in Docs : Serve(i, d)
    \/ Stop \/ Boot
    \/ \E d \in Docs : Relocate(d) \/ Stage(d) \/ CopyIn(d)
    \/ Relocated \/ ImportOnce \/ Archive
    \/ AssignNothing \/ AssignRecords \/ RenameAccount
    \/ DocumentsDone \/ StartCopy \/ Publish \/ Reconciled \/ Copied
    \/ ArchiveDirectory \/ Complete \/ HandOut

Spec == Init /\ [][Next]_homeVars

-----------------------------------------------------------------------------
(* Types of the state of one home.                                         *)
TypeOK ==
    /\ conf \in Shapes /\ atRoot \in Dirs
    /\ memories \in Dirs \cup {None} /\ archives \subseteq Dirs
    /\ private \in [Ids -> Dirs \cup {None}] /\ staging \in [Ids -> Dirs \cup {None}]
    /\ jsonFile \in {None, "there", "archived"} /\ imported \in BOOLEAN
    /\ rows \subseteq [by : Ids \cup {Unowned}, owner : Ids \cup {Unowned}]
    /\ recorded \in Ids \cup {None} /\ phase \in {None, "copying", "copied", "complete"}

(* Whatever step the daemon dies at, an original document is never removed *)
(* and the home says "copied" only when every account document that was    *)
(* there has a home of its own: what memories.migrated is kept for.        *)
OriginalsKept ==
    \A d \in original :
        /\ atRoot[d] = "old" \/ (memories # None /\ memories[d] = "old")
              \/ \E a \in archives : a[d] = "old"
        /\ (\E a \in archives : a[d] # None) => \E i \in Ids : Has(private[i], d)

(* A daemon that serves shows the old history to an account that exists:   *)
(* no row of it is unowned, and none belongs to an account that is not     *)
(* configured, however the shape of the config changed between the boots.  *)
HistoryIsSomebodys ==
    pc = "up" => \A r \in rows : r.by = Unowned => r.owner \in conf.ids

(* What an account wrote in its documents is never replaced by an original *)
(* or by another account's: a step of a boot changes no document that is   *)
(* there, it moves the directory as a whole or copies into a gap.          *)
LiveDocumentsKept ==
    \A w \in written : \E j \in Ids : Has(private[j], w[1]) /\ private[j][w[1]] = w[2]
=============================================================================
