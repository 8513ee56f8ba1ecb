----------------------------- MODULE Documents ------------------------------
(***************************************************************************)
(* One of an account's Markdown documents (context/markdown/store.go): the *)
(* memory tool edits it entry by entry, the web panel, the check-in and    *)
(* the rewrite of SOUL.md replace it whole. A call takes the lock of the   *)
(* process and then the lock of the file, which other processes take too,  *)
(* reads the file, writes a temporary one and renames it over the first.   *)
(* The process can die anywhere.                                           *)
(*                                                                         *)
(* The document is the set of its entries. A call names an entry by words  *)
(* that some entries contain; the words are the set of those entries.      *)
(***************************************************************************)
EXTENDS Naturals, FiniteSets

CONSTANTS Entries,     \* things that can be noted
          Writers,     \* calls, of one process or of several
          MaxEntries,  \* the limit on the document's size
          MaxEdits,    \* bound: calls that are made
          None

VARIABLES content,  \* the entries in the file
          lock,     \* who holds the lock of the file
          calls,    \* [Writers -> [at, op, words, text, next]]
          made,     \* calls made
          applied   \* history: what the calls that were carried out make of it

vars == <<content, lock, calls, made, applied>>

NoCall == [at |-> "idle", op |-> None, words |-> {}, text |-> {}, next |-> {}]

\* The limit can have been lowered under a document that was full.
Init ==
    /\ content \in SUBSET Entries /\ applied = content
    /\ lock = None /\ made = 0
    /\ calls = [w \in Writers |-> NoCall]

Call(w, op, words, text) ==
    /\ calls[w].at = "idle" /\ made < MaxEdits
    /\ made' = made + 1
    /\ calls' = [calls EXCEPT ![w] =
           [at |-> "waiting", op |-> op, words |-> words, text |-> text, next |-> {}]]
    /\ UNCHANGED <<content, lock, applied>>

\* The memory tool.
EditEntry(w) == \E e \in Entries, words \in SUBSET Entries \ {{}}:
    \/ Call(w, "add", {}, {e})
    \/ Call(w, "replace", words, {e})
    \/ Call(w, "remove", words, {})

\* The editor of the panel, and the rewrite of SOUL.md, send the document
\* that was shown, edited.
ReplaceDocument(w) == \E text \in SUBSET Entries: Call(w, "whole", {}, text)

\* heartbeat_respond leaves the list alone when it sends none.
RespondWithList(w) == \E text \in SUBSET Entries \ {{}}: Call(w, "whole", {}, text)

\* What a call makes of a document; the words of an entry must find one.
Found(c, doc) == IF c.op \in {"replace", "remove"} THEN c.words \cap doc ELSE {}
Applicable(c, doc) == c.op \in {"replace", "remove"} => Cardinality(Found(c, doc)) = 1
Edited(c, doc) == IF c.op = "whole" THEN c.text ELSE (doc \ Found(c, doc)) \cup c.text

\* A document that is too large may still shrink.
Full(old, new) == Cardinality(new) > MaxEntries /\ Cardinality(new) >= Cardinality(old)

Unlocked(w) == TRUE
HasLock(w) == lock = None

Refused(c) == ~Applicable(c, content) \/ Full(content, Edited(c, content))

Rewrite(w) ==
    /\ calls[w].at = "waiting" /\ HasLock(w)
    /\ IF Refused(calls[w])
       THEN calls' = [calls EXCEPT ![w] = NoCall] /\ UNCHANGED lock
       ELSE /\ calls' = [calls EXCEPT ![w].at = "writing", ![w].next = Edited(calls[w], content)]
            /\ lock' = w
    /\ UNCHANGED <<content, made, applied>>

\* The temporary file is not the document until it is renamed.
WriteTemp(w) ==
    /\ calls[w].at = "writing"
    /\ calls' = [calls EXCEPT ![w].at = "written"]
    /\ UNCHANGED <<content, lock, made, applied>>

Rename(w) ==
    /\ calls[w].at = "written"
    /\ content' = calls[w].next
    /\ applied' = Edited(calls[w], applied)
    /\ calls' = [calls EXCEPT ![w] = NoCall]
    /\ lock' = None
    /\ UNCHANGED made

\* A write that fails, or a process that dies, gives the lock back.
Fail(w) ==
    /\ calls[w].at # "idle"
    /\ calls' = [calls EXCEPT ![w] = NoCall]
    /\ lock' = IF calls[w].at = "waiting" THEN lock ELSE None
    /\ UNCHANGED <<content, made, applied>>

Next == \E w \in Writers:
    \/ EditEntry(w) \/ ReplaceDocument(w) \/ RespondWithList(w)
    \/ Rewrite(w) \/ WriteTemp(w) \/ Rename(w) \/ Fail(w)

Spec == Init /\ [][Next]_vars

(******************************* properties ********************************)
TypeOK ==
    /\ content \subseteq Entries /\ applied \subseteq Entries
    /\ lock \in Writers \cup {None} /\ made \in 0..MaxEdits
    /\ \A w \in Writers:
           /\ calls[w].at \in {"idle", "waiting", "writing", "written"}
           /\ calls[w].words \subseteq Entries /\ calls[w].next \subseteq Entries

\* The file always says what the calls that were carried out make of it, one
\* after the other: no edit is lost under another, and no crash leaves a part
\* of one.
EditsAddUp == content = applied
=============================================================================
