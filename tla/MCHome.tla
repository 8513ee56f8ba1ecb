------------------------------- MODULE MCHome -------------------------------
(***************************************************************************)
(* What Eggy keeps, each component by itself in one run: approvals, the    *)
(* configuration and its home, accounts, the ledger, the documents and the *)
(* traces.  A behaviour is one of the component that focus names; the      *)
(* variables of the others stay as they are (None, or Approvals before its *)
(* first request).                                                         *)
(***************************************************************************)
EXTENDS Approvals, TLC

CONSTANTS
    Ids, Senders, Aliases, Default, Providers, Tools, ConfigWriters,
    MaxWrites, None,
    Boots, Day, MaxEdits,
    HomeIds, Docs, MaxBoots, HomeMaxEdits, HomeMaxWrites,
    Accounts, MaxRuns, MaxOwnerSteps, MaxLogins,
    AccountsIds, AccountsSenders, Reqs, MaxStarts,
    Entries, Kinds, Categories, Colors, MaxBatch, MaxEntryWrites,
    DocumentsEntries, DocumentsWriters, MaxEntries, DocumentsMaxEdits,
    Owners, MaxTurns, MaxSteps, Keep, MaxAged

VARIABLES
    focus,   \* the component that this behaviour is about
    file, env, lock, job, text, setter, writes,
    doc, artifacts, headless, keys, boot, bootRan, accepted, creations,
    docEdits,
    conf, atRoot, memories, archives, private, staging, jsonFile, imported,
    rows, recorded, phase, homePc, from, original, written, boots, hand,
    homeWrites,
    document, configCopy, database, databaseCopy, logins, run, daemon,
    source, upgraded, issued, runs, ownerSteps,
    member, auth, session, webLink, idLink, req, people, starts,
    ledger, given, stated, colors, today, call, answer, page, entryWrites,
    content, documentsLock, calls, made, applied,
    last, who, stage, sequence, unwritten, tracesRows, spans, aged, torn

F == INSTANCE ConfigFile
       WITH Writers <- ConfigWriters
B == INSTANCE ConfigBoot
       WITH ran <- bootRan
H == INSTANCE HomeMigration
       WITH Ids <- HomeIds, MaxEdits <- HomeMaxEdits,
            MaxWrites <- HomeMaxWrites, pc <- homePc, writes <- homeWrites
X == INSTANCE Cutover
P == INSTANCE Accounts
       WITH Ids <- AccountsIds, Senders <- AccountsSenders
M == INSTANCE Finance
D == INSTANCE Documents
       WITH Entries <- DocumentsEntries, Writers <- DocumentsWriters,
            MaxEdits <- DocumentsMaxEdits, lock <- documentsLock
T == INSTANCE Traces
       WITH rows <- tracesRows

-----------------------------------------------------------------------------
(* What the proofs ask of the constants: None is none of the values that   *)
(* stand beside it, and the bounds are numbers.                            *)
ASSUME ConfigAssumption ==
    /\ None \notin ConfigWriters
    /\ Default \in Aliases
    /\ Providers # {}
    /\ MaxWrites \in Nat
ASSUME BootAssumption ==
    /\ Day \in Nat \ {0} /\ MaxEdits \in Nat
    /\ None \notin B!ConfigDocs \cup {"here", "/data"}
    /\ None \notin [start : 0 .. Day - 1, end : 0 .. Day]
ASSUME HomeAssumption ==
    /\ MaxBoots \in Nat /\ HomeMaxEdits \in Nat /\ HomeMaxWrites \in Nat
    /\ None \notin HomeIds \cup {"old", "there", "archived", "copying",
                                 "copied", "complete"}
    /\ None \notin [Docs -> {None, "old"} \cup HomeIds]
    /\ "unowned" \notin HomeIds
ASSUME CutoverAssumption ==
    /\ MaxRuns \in Nat /\ MaxOwnerSteps \in Nat /\ MaxLogins \in Nat
    /\ None \notin Accounts \cup {"partial", "before", "after"}
    /\ None \notin X!Documents \cup X!Markers
    /\ None \notin [pc : {"config", "marker", "resume", "copyConfig",
                          "copyDatabase", "vacuum", "verify", "database",
                          "seed", "ready", "done"},
                    account : Accounts, digest : X!Documents]
    /\ None \notin [version : {9, 10}, marker : X!Markers \cup {None},
                    rows : SUBSET Accounts]
ASSUME AccountsAssumption ==
    /\ None \notin AccountsIds \cup AccountsSenders \cup Nat
    /\ AccountsSenders \cap Nat = {}
    /\ None \notin {"login", "change", "set", "register", "read", "retire",
                    "unpair", "mint", "redeem", "bind", "finish",
                    "open", "claimed"}
    /\ None \notin [gen : Nat, pw : Nat, retired : BOOLEAN]
    /\ None \notin [n : Nat, sender : AccountsSenders, gen : Nat]
    /\ MaxStarts \in Nat
ASSUME DocumentsAssumption ==
    None \notin DocumentsWriters /\ DocumentsMaxEdits \in Nat
ASSUME TracesAssumption ==
    /\ MaxTurns \in Nat /\ MaxSteps \in Nat /\ Keep \in Nat /\ MaxAged \in Nat
    /\ None \notin Owners

-----------------------------------------------------------------------------
approvalsVars == <<current, status, bound, mode, closed, connection,
                   mutating, pc, target, verdict, readGeneration, ran,
                   crashes>>
configVars == <<file, env, lock, job, text, setter, writes>>
bootVars == <<doc, artifacts, headless, keys, boot, bootRan, accepted,
              creations, docEdits>>
homeVars == <<conf, atRoot, memories, archives, private, staging, jsonFile,
              imported, rows, recorded, phase, homePc, from, original,
              written, boots, hand, homeWrites>>
cutoverVars == <<document, configCopy, database, databaseCopy, logins, run,
                 daemon, source, upgraded, issued, runs, ownerSteps>>
accountsVars == <<member, auth, session, webLink, idLink, req, people,
                  starts>>
financeVars == <<ledger, given, stated, colors, today, call, answer, page,
                 entryWrites>>
documentsVars == <<content, documentsLock, calls, made, applied>>
tracesVars == <<last, who, stage, sequence, unwritten, tracesRows, spans,
                aged, torn>>

ApprovalsAtRest ==
    /\ Init /\ mode = "normal" /\ mutating = {}
    /\ \A t \in Taps : ~verdict[t] /\ target[t] = CHOOSE c \in Calls : TRUE
NoConfig ==
    /\ file = None /\ env = None /\ lock = None /\ job = None /\ text = None
    /\ setter = None /\ writes = None
NoBoot ==
    /\ doc = None /\ artifacts = None /\ headless = None /\ keys = None
    /\ boot = None /\ bootRan = None /\ accepted = None /\ creations = None
    /\ docEdits = None
NoHome ==
    /\ conf = None /\ atRoot = None /\ memories = None /\ archives = None
    /\ private = None /\ staging = None /\ jsonFile = None
    /\ imported = None /\ rows = None /\ recorded = None /\ phase = None
    /\ homePc = None /\ from = None /\ original = None /\ written = None
    /\ boots = None /\ hand = None /\ homeWrites = None
NoCutover ==
    /\ document = None /\ configCopy = None /\ database = None
    /\ databaseCopy = None /\ logins = None /\ run = None /\ daemon = None
    /\ source = None /\ upgraded = None /\ issued = None /\ runs = None
    /\ ownerSteps = None
NoAccounts ==
    /\ member = None /\ auth = None /\ session = None /\ webLink = None
    /\ idLink = None /\ req = None /\ people = None /\ starts = None
NoFinance ==
    /\ ledger = None /\ given = None /\ stated = None /\ colors = None
    /\ today = None /\ call = None /\ answer = None /\ page = None
    /\ entryWrites = None
NoDocuments ==
    /\ content = None /\ documentsLock = None /\ calls = None /\ made = None
    /\ applied = None
NoTraces ==
    /\ last = None /\ who = None /\ stage = None /\ sequence = None
    /\ unwritten = None /\ tracesRows = None /\ spans = None /\ aged = None
    /\ torn = None

SumInit ==
    \/ /\ focus = "approvals" /\ Init
       /\ NoConfig /\ NoBoot /\ NoHome /\ NoCutover /\ NoAccounts
       /\ NoFinance /\ NoDocuments /\ NoTraces
    \/ /\ focus = "config" /\ F!Init
       /\ ApprovalsAtRest /\ NoBoot /\ NoHome /\ NoCutover
       /\ NoAccounts /\ NoFinance /\ NoDocuments /\ NoTraces
    \/ /\ focus = "boot" /\ B!Init
       /\ ApprovalsAtRest /\ NoConfig /\ NoHome /\ NoCutover
       /\ NoAccounts /\ NoFinance /\ NoDocuments /\ NoTraces
    \/ /\ focus = "home" /\ H!Init
       /\ ApprovalsAtRest /\ NoConfig /\ NoBoot /\ NoCutover
       /\ NoAccounts /\ NoFinance /\ NoDocuments /\ NoTraces
    \/ /\ focus = "cutover" /\ X!Init
       /\ ApprovalsAtRest /\ NoConfig /\ NoBoot /\ NoHome
       /\ NoAccounts /\ NoFinance /\ NoDocuments /\ NoTraces
    \/ /\ focus = "accounts" /\ P!Init
       /\ ApprovalsAtRest /\ NoConfig /\ NoBoot /\ NoHome /\ NoCutover
       /\ NoFinance /\ NoDocuments /\ NoTraces
    \/ /\ focus = "finance" /\ M!Init
       /\ ApprovalsAtRest /\ NoConfig /\ NoBoot /\ NoHome /\ NoCutover
       /\ NoAccounts /\ NoDocuments /\ NoTraces
    \/ /\ focus = "documents" /\ D!Init
       /\ ApprovalsAtRest /\ NoConfig /\ NoBoot /\ NoHome /\ NoCutover
       /\ NoAccounts /\ NoFinance /\ NoTraces
    \/ /\ focus = "traces" /\ T!Init
       /\ ApprovalsAtRest /\ NoConfig /\ NoBoot /\ NoHome /\ NoCutover
       /\ NoAccounts /\ NoFinance /\ NoDocuments

ApprovalsStep ==
    /\ focus = "approvals" /\ Next
    /\ UNCHANGED <<focus, configVars, bootVars, homeVars, cutoverVars,
                   accountsVars, financeVars, documentsVars, tracesVars>>
ConfigStep ==
    /\ focus = "config" /\ F!Next
    /\ UNCHANGED <<focus, approvalsVars, bootVars, homeVars, cutoverVars,
                   accountsVars, financeVars, documentsVars, tracesVars>>
BootStep ==
    /\ focus = "boot" /\ B!Next
    /\ UNCHANGED <<focus, approvalsVars, configVars, homeVars, cutoverVars,
                   accountsVars, financeVars, documentsVars, tracesVars>>
HomeStep ==
    /\ focus = "home" /\ H!Next
    /\ UNCHANGED <<focus, approvalsVars, configVars, bootVars, cutoverVars,
                   accountsVars, financeVars, documentsVars, tracesVars>>
CutoverStep ==
    /\ focus = "cutover" /\ X!Next
    /\ UNCHANGED <<focus, approvalsVars, configVars, bootVars, homeVars,
                   accountsVars, financeVars, documentsVars, tracesVars>>
AccountsStep ==
    /\ focus = "accounts" /\ P!Next
    /\ UNCHANGED <<focus, approvalsVars, configVars, bootVars, homeVars,
                   cutoverVars, financeVars, documentsVars, tracesVars>>
FinanceStep ==
    /\ focus = "finance" /\ M!Next
    /\ UNCHANGED <<focus, approvalsVars, configVars, bootVars, homeVars,
                   cutoverVars, accountsVars, documentsVars, tracesVars>>
DocumentsStep ==
    /\ focus = "documents" /\ D!Next
    /\ UNCHANGED <<focus, approvalsVars, configVars, bootVars, homeVars,
                   cutoverVars, accountsVars, financeVars, tracesVars>>
TracesStep ==
    /\ focus = "traces" /\ T!Next
    /\ UNCHANGED <<focus, approvalsVars, configVars, bootVars, homeVars,
                   cutoverVars, accountsVars, financeVars, documentsVars>>

SumNext ==
    \/ ApprovalsStep
    \/ ConfigStep
    \/ BootStep
    \/ HomeStep
    \/ CutoverStep
    \/ AccountsStep
    \/ FinanceStep
    \/ DocumentsStep
    \/ TracesStep

sumVars == <<focus, approvalsVars, configVars, bootVars, homeVars,
             cutoverVars, accountsVars, financeVars, documentsVars,
             tracesVars>>

SumSpec == SumInit /\ [][SumNext]_sumVars

Symmetry == Permutations(Calls) \cup Permutations(Taps)

\* Every variable of the component at hand keeps its type.
SumTypeOK ==
    /\ focus = "approvals" => TypeOK
    /\ focus = "config" => F!TypeOK
    /\ focus = "boot" => B!TypeOK
    /\ focus = "home" => H!TypeOK
    /\ focus = "cutover" => X!TypeOK
    /\ focus = "accounts" => P!TypeOK
    /\ focus = "finance" => M!TypeOK
    /\ focus = "documents" => D!TypeOK
    /\ focus = "traces" => T!TypeOK

-----------------------------------------------------------------------------
\* A setter never writes over what another writer of config.yaml has
\* written since it loaded the document, nor lets a plugin's server run
\* with tools nobody reviewed; the first document is made once, upgrades
\* keep its meaning, a beat is put off to the opening of its hours, and
\* what the editor accepts starts (config_mutate.go, config_init.go,
\* config_backfill.go).
ConfigSafe ==
    /\ [](focus = "config" => F!NothingOverwritten /\ F!OnlyReviewedTools)
    /\ [](focus = "boot" => B!CreatedOnce /\ B!OpensNext)
    /\ [][focus = "boot" => B!KeepsMeaning /\ B!StartsIfAccepted]_sumVars

\* A daemon that serves shows the old history to an account that exists,
\* no original document is lost, and none that an account has written
\* since is replaced (accounts_migration.go, home accounts.go).
HomeSafe ==
    focus = "home" => /\ H!HistoryIsSomebodys
                      /\ H!OriginalsKept
                      /\ H!LiveDocumentsKept

\* Nothing of an existing home is changed before both of its backups are
\* whole, and nobody is signed out twice or stays signed in from before
\* (account_auth.go, migrate_login.go).
CutoverSafe == focus = "cutover" => X!WayBack /\ X!SignedOutOnce

\* No session or link is left of a credential that was changed or of a
\* person that was removed, and a login link signs in one browser
\* (account_auth.go, sessions.go, login_link.go).
AccountsSafe ==
    focus = "accounts" => P!IssuedIsCurrent /\ P!LinkSignsInOnce

\* An entry counts the amount that was last stated for it in the currency
\* it was stated in, an error means that nothing was written, and no bar
\* of a month is longer than its scale (finance service.go, tool.go,
\* report.go).
LedgerSafe ==
    focus = "finance" => /\ M!AmountIsAsStated
                         /\ M!ErrorMeansNothing
                         /\ M!BarsFit

\* A document says what the calls that were carried out make of it, one
\* after the other (filelock_unix.go, With).
EditsAddUp == focus = "documents" => D!EditsAddUp

\* A step or an image is never left without the trace it belongs to, and
\* one account's turns do not age another's traces out (traces.go,
\* AppendSpan and prune).
TracesSafe == focus = "traces" => T!NoOrphans /\ T!BudgetIsOwn

=============================================================================
