----------------------------- MODULE ConfigBoot -----------------------------
(***************************************************************************)
(* How a start comes by its configuration: the first config.yaml, by the   *)
(* setup page or from the environment (config/setup.go, config_init.go),   *)
(* the edits an upgrade makes to an older one (config_init.go,             *)
(* config_backfill.go), defaults and checks (config.go,                    *)
(* config_validate.go), and what a setter or the raw editor writes back.   *)
(*                                                                         *)
(* Of the document only what these relate is kept.  Every edit is one      *)
(* step: it holds the file lock, which ConfigFile is about.                *)
(***************************************************************************)
EXTENDS Naturals

CONSTANTS
    None,
    Boots,      \* processes that start, and setup requests
    Day,        \* hours of a day
    MaxEdits    \* bound on the edits between starts

VARIABLES
    doc,        \* config.yaml, or None
    artifacts,  \* the home holds a database or documents
    headless,   \* the environment names an identity
    keys,       \* the environment holds what the document's providers need
    boot,       \* process -> where its start is
    ran,        \* the home of the last start, until the owner says another
    accepted,   \* the raw editor has accepted a document
    creations,  \* first documents written
    docEdits

configBootVars == <<doc, artifacts, headless, keys, boot, ran, accepted, creations, docEdits>>

Homes == {"unset", "here", "/data"}
Hours == [start : 0 .. Day - 1, end : 0 .. Day]

(* What earlier builds and owners have written.                            *)
ConfigDocs ==
    [dataDir : Homes, root : {"unset", "tmp", "here", "/data"},
     timezone : {"unset", "own", "UTC"}, calendar : {"none", "silent", "own"},
     tracing : {"none", "on", "off", "empty"}, retired : BOOLEAN,
     hours : {None} \cup {h \in Hours : h.start # h.end}, keyed : BOOLEAN]

(* The document of a first boot or of the setup page.                      *)
First ==
    [dataDir |-> "here", root |-> "here", timezone |-> "own", calendar |-> "none",
     tracing |-> "none", retired |-> FALSE, hours |-> None, keyed |-> TRUE]

Older == {[First EXCEPT !.dataDir = h, !.root = r, !.timezone = z, !.calendar = c,
                        !.tracing = t, !.retired = (c # "none"), !.keyed = FALSE] :
            h \in {"unset", "here"}, r \in {"unset", "tmp", "here"},
            z \in {"unset", "own"}, c \in {"none", "silent", "own"},
            t \in {"none", "off", "empty"}}

Init ==
    /\ doc \in {None} \cup Older /\ artifacts \in BOOLEAN
    /\ headless \in BOOLEAN /\ keys \in BOOLEAN
    /\ boot = [b \in Boots |-> "idle"]
    /\ ran = None /\ accepted = FALSE /\ creations = 0 /\ docEdits = 0

-----------------------------------------------------------------------------
(* Defaults                                                                *)

Else(value, default) == IF value = "unset" THEN default ELSE value

(* applyDefaults, after LoadConfig or LoadDocument has chosen the home.    *)
ApplyDefaults(d, home) ==
    LET dir == Else(d.dataDir, home) IN
    [d EXCEPT !.dataDir = dir, !.root = Else(@, dir),
              !.timezone = Else(@, "UTC"),
              !.tracing = IF @ \in {"none", "empty"} THEN "on" ELSE @]

LoadDocument(d) == ApplyDefaults(d, "/data")

PathWithin(dir, root) == root = dir

(* ActiveHours.Validate and the rest of Validate.                          *)
ValidHours(h) == h # None => h.start < Day /\ h.start # h.end

Validate(d) ==
    /\ PathWithin(d.dataDir, d.root)
    /\ ValidHours(d.hours)

(* validateSecrets and validateLoginSecrets.                               *)
Secrets(d) == d.keyed => keys

(* Known fields, defaults with the home the file is in, rules, secrets.    *)
LoadConfig(d) ==
    /\ ~d.retired /\ d.calendar = "none"
    /\ Validate(ApplyDefaults(d, "here"))
    /\ Secrets(d)

-----------------------------------------------------------------------------
(* A start                                                                 *)

Goes(b, from, to) == boot[b] = from /\ boot' = [boot EXCEPT ![b] = to]

StatConfig(b) ==
    /\ boot[b] = "idle"
    /\ boot' = [boot EXCEPT ![b] =
            IF doc # None THEN "prune"
            ELSE IF headless THEN "initialize"
            ELSE IF artifacts THEN "refused" ELSE "setup"]
    /\ UNCHANGED <<doc, artifacts, headless, keys, ran, accepted, creations, docEdits>>

(* initializeConfig and CompleteSetup look again, with the lock.           *)
StillMissing == doc = None

Create(d) ==
    /\ IF StillMissing
       THEN doc' = d /\ creations' = creations + 1
       ELSE UNCHANGED <<doc, creations>>
    /\ UNCHANGED <<artifacts, headless, keys, ran, accepted, docEdits>>

(* A first boot may find the environment wanting, and then fails.          *)
InitializeConfig(b) ==
    /\ boot[b] = "initialize"
    /\ \/ Goes(b, "initialize", "backfill") /\ Create(First)
       \/ Goes(b, "initialize", "refused") /\ UNCHANGED <<doc, artifacts, headless, keys, ran, accepted, creations, docEdits>>

(* Two people may complete the setup page; the second is told so.          *)
CompleteSetup(b) == keys /\ Goes(b, "setup", "idle") /\ Create(ApplyDefaults(First, "here"))

(* An agent.timezone that is there wins.                                   *)
CarryOverCalendarTimezone(d) ==
    IF d.timezone = "unset" /\ d.calendar = "own" THEN "own" ELSE d.timezone

PruneRetiredFields(b) ==
    /\ Goes(b, "prune", "root")
    /\ doc' = [doc EXCEPT !.timezone = CarryOverCalendarTimezone(doc),
                          !.calendar = "none", !.retired = FALSE]
    /\ UNCHANGED <<artifacts, headless, keys, ran, accepted, creations, docEdits>>

(* mutate: whatever is written, is written with the defaults of a load.    *)
Written(d) == doc' = LoadDocument(d)

(* The temporary default of an earlier build, which nothing else leaves.   *)
MigrateLegacyRunnerRoot(b) ==
    /\ Goes(b, "root", "backfill")
    /\ LET d == LoadDocument(doc) IN
         doc' = IF d.root = "tmp" THEN [d EXCEPT !.root = d.dataDir] ELSE doc
    /\ UNCHANGED <<artifacts, headless, keys, ran, accepted, creations, docEdits>>

(* A section nobody wrote, with the defaults that applied to its absence.  *)
Backfilled(t) == IF t = "none" THEN "on" ELSE t

BackfillDefaultedSections(b) ==
    /\ Goes(b, "backfill", "load")
    /\ doc' = [doc EXCEPT !.tracing = Backfilled(@)]
    /\ UNCHANGED <<artifacts, headless, keys, ran, accepted, creations, docEdits>>

(* The data directory is made where the effective config says.             *)
Start(b) ==
    /\ boot[b] = "load"
    /\ IF LoadConfig(doc)
       THEN /\ Goes(b, "load", "running")
            /\ artifacts' = TRUE /\ ran' = ApplyDefaults(doc, "here").dataDir
       ELSE Goes(b, "load", "safe mode") /\ UNCHANGED <<artifacts, ran>>
    /\ UNCHANGED <<doc, headless, keys, accepted, creations, docEdits>>

(* A process ends wherever it is.                                          *)
Ends(b) ==
    /\ boot[b] # "idle" /\ boot' = [boot EXCEPT ![b] = "idle"]
    /\ UNCHANGED <<doc, artifacts, headless, keys, ran, accepted, creations, docEdits>>

-----------------------------------------------------------------------------
(* Edits of a process that runs, in safe mode or not                       *)

Serving == \E b \in Boots : boot[b] \in {"running", "safe mode"}

Edit == docEdits < MaxEdits /\ docEdits' = docEdits + 1 /\ Serving

(* A setter of something that is not modelled here.                        *)
Setter ==
    /\ Edit /\ doc # None
    /\ ~doc.retired /\ doc.calendar = "none"
    /\ Validate(LoadDocument(doc)) /\ Written(doc)
    /\ UNCHANGED <<artifacts, headless, keys, boot, ran, accepted, creations>>

SetHeartbeat ==
    /\ Edit /\ doc # None
    /\ ~doc.retired /\ doc.calendar = "none"
    /\ \E h \in {None} \cup Hours :
         /\ ValidHours(h)
         /\ Validate(LoadDocument(doc)) /\ Written([doc EXCEPT !.hours = h])
    /\ UNCHANGED <<artifacts, headless, keys, boot, ran, accepted, creations>>

(* The candidate goes through LoadConfig itself, in the same directory.    *)
Accepted(d) == LoadConfig(d)

Candidates ==
    {[First EXCEPT !.dataDir = h, !.root = r, !.calendar = c, !.keyed = k] :
        h \in Homes, r \in {"unset", "here", "/data"},
        c \in {"none", "own"}, k \in BOOLEAN}

ReplaceConfig ==
    /\ Edit
    /\ \E d \in Candidates : Accepted(d) /\ doc' = d
    /\ ran' = None /\ accepted' = TRUE
    /\ UNCHANGED <<artifacts, headless, keys, boot, creations>>

Next ==
    \/ \E b \in Boots :
         \/ StatConfig(b) \/ InitializeConfig(b) \/ CompleteSetup(b)
         \/ PruneRetiredFields(b) \/ MigrateLegacyRunnerRoot(b)
         \/ BackfillDefaultedSections(b) \/ Start(b) \/ Ends(b)
    \/ Setter \/ SetHeartbeat \/ ReplaceConfig

Spec == Init /\ [][Next]_configBootVars

-----------------------------------------------------------------------------
(* ActiveHours                                                             *)

Active(h, when) ==
    IF h.start < h.end THEN h.start <= when /\ when < h.end
    ELSE when >= h.start \/ when < h.end

(* Today's opening, or tomorrow's once it has passed.                      *)
Opening(h, when) == IF h.start > when THEN h.start - when ELSE h.start + Day - when

NextOpen(h, when) == IF Active(h, when) THEN 0 ELSE Opening(h, when)

-----------------------------------------------------------------------------
(* Types of the boot.                                                      *)
TypeOK ==
    /\ doc \in ConfigDocs \cup {None}
    /\ ran \in {None, "here", "/data"} /\ creations \in Nat
    /\ \A b \in Boots : boot[b] \in {"idle", "prune", "initialize", "refused", "setup",
                                     "root", "backfill", "load", "running", "safe mode"}

(* "A backfill never changes what the config means", nor does the sweep of *)
(* retired settings: the owner's clock and tracing stay as they were, over *)
(* starts that race, crash and are repeated.                               *)
Meaning(d) ==
    [timezone |-> IF d.timezone = "own" \/ d.calendar = "own" THEN "own" ELSE "UTC",
     traced |-> d.tracing # "off", hours |-> d.hours]

KeepsMeaning ==
    (doc # None /\ docEdits' = docEdits) => doc' # None /\ Meaning(doc') = Meaning(doc)

(* The setup page, a second person on it and a headless start make one     *)
(* document between them: none of them writes over another's.              *)
CreatedOnce == creations <= 1

(* A beat that is put off is put off to the window's opening, and no       *)
(* further: the hours between are all quiet.                               *)
OpensNext ==
    doc # None /\ doc.hours # None => \A when \in 0 .. Day - 1 :
        LET wait == NextOpen(doc.hours, when) IN
        /\ Active(doc.hours, (when + wait) % Day)
        /\ \A k \in 0 .. wait : k < wait => ~Active(doc.hours, (when + k) % Day)

(* "What is accepted here is exactly what the next start accepts": after   *)
(* the raw editor took a document, and whatever setters and upgrades wrote *)
(* since, a start finds one that loads.                                    *)
StartsIfAccepted ==
    \A b \in Boots : accepted /\ boot[b] = "load" => boot'[b] # "safe mode"

(* "An unset data_dir is the home this config lives in": what the last     *)
(* start kept there is where the next one looks.                           *)
HomeStays ==
    doc # None /\ ran # None => ApplyDefaults(doc, "here").dataDir = ran
=============================================================================
