----------------------------- MODULE CodingTurn -----------------------------
(***************************************************************************)
(* What the model of a coding run does to its workspace, and what of it    *)
(* reaches the pull request                                                *)
(* (internal/extensions/agentrunner/codetools.go, edit.go, the coding turn *)
(* of worker.go, the diff and the checks of publish.go).                   *)
(*                                                                         *)
(* A file is a sequence of lines with their line endings, an old text is a *)
(* run of whole lines; partial lines and byte offsets are left out.        *)
(* AgentRuns models the run around the turn: its row, token and stages.    *)
(***************************************************************************)
EXTENDS Integers, Sequences, FiniteSets, SequencesExt

CONSTANTS Texts,        \* the texts a line can have
          Curly,        \* the texts with curly quotes or Unicode dashes
          Straight,     \* what every one of them reads as
          Long,         \* the texts over the limit of one read
          Breaks,       \* the texts the repository's checks do not pass with
          EditCalls,    \* the edit calls tried: sequences of replacements
          Files,        \* the files a checkout may hold
          Checks,       \* the configured checks
          PageBytes, MaxCalls, MaxLegs, None

VARIABLES base,         \* the checkout the run started from
          tree,         \* the workspace: the file, another one, the CI directory
          results,      \* ActiveRun.CheckResults
          reading,      \* a reader that follows every continuation notice
          leg,          \* turns of this run so far: questions plus one
          notes,        \* handoff.txt: the legs whose findings it holds
          asked,        \* ActiveRun.question is set
          told,         \* the legs the turn's input tells about
          used,         \* tool calls so far (bound)
          phase,        \* "working", "waiting" or how the run ended
          request       \* the pull request: its content and whether it is a draft

vars == <<base, tree, results, reading, leg, notes, asked, told, used, phase, request>>

Lines == [text : Texts, eol : {"lf", "crlf"}]
Trees == [main : Seq(Lines), other : {"same", "changed", "gone"}, ci : BOOLEAN]

TypeOK ==
    /\ base \in Files
    /\ tree \in Trees
    /\ results \in Seq([check : Checks, passed : BOOLEAN])
    /\ reading \in [next : Nat, seen : SUBSET Nat]
    /\ leg \in 1..MaxLegs
    /\ notes \subseteq 1..MaxLegs /\ told \subseteq 1..MaxLegs
    /\ asked \in BOOLEAN
    /\ used \in 0..MaxCalls
    /\ phase \in {"working", "waiting", "completed", "failed", "requested"}
    /\ request \in [tree : Trees, draft : BOOLEAN] \cup {None}

Unread == [next |-> 1, seen |-> {}]
TextOf(file) == [i \in DOMAIN file |-> file[i].text]

Init ==
    /\ base \in Files
    /\ tree = [main |-> base, other |-> "same", ci |-> FALSE]
    /\ results = <<>>
    /\ reading = Unread
    /\ leg = 1 /\ notes = {} /\ told = {} /\ asked = FALSE
    /\ used = 0
    /\ phase = "working"
    /\ request = None

----------------------------------------------------------------------------
(* edit.go *)

Fold(text) == IF text \in Curly THEN Straight ELSE text

Same(a, b, lenient) == IF lenient THEN Fold(a) = Fold(b) ELSE a = b

\* findMatches: the places where old starts
Matches(text, old, lenient) ==
    {i \in 1..(Len(text) - Len(old) + 1) :
        \A k \in DOMAIN old : Same(text[i + k - 1], old[k], lenient)}

\* locate: the exact matches, or the lenient ones when there is none
Candidates(text, old) ==
    LET exact == Matches(text, old, FALSE)
    IN  IF exact # {} THEN exact ELSE Matches(text, old, TRUE)

Found(text, old) == CHOOSE i \in Candidates(text, old) : TRUE

Spans(text, edits) ==
    {[first |-> Found(text, e.old), last |-> Found(text, e.old) + Len(e.old) - 1,
      new |-> e.new] : e \in Range(edits)}

\* what applyReplacements refuses: an old text that is not there exactly once,
\* and edits that overlap
Acceptable(text, edits) ==
    /\ \A k \in DOMAIN edits : Cardinality(Candidates(text, edits[k].old)) = 1
    /\ \A j, k \in DOMAIN edits : j < k =>
          LET a == Found(text, edits[j].old)  b == Found(text, edits[k].old)
          IN  a + Len(edits[j].old) <= b \/ b + Len(edits[k].old) <= a

Splice(text, span) ==
    SubSeq(text, 1, span.first - 1) \o span.new \o SubSeq(text, span.last + 1, Len(text))

\* as it would be from the first span to the last
RearMost(spans) == CHOOSE s \in spans : \A o \in spans : o.first <= s.first

FrontMost(spans) == CHOOSE s \in spans : \A o \in spans : s.first <= o.first

\* applyReplacements: from the last span to the first, so that no splice moves
\* the place of one still to come
Spliced(text, edits) ==
    MapThenFoldSet(LAMBDA span, rest : Splice(rest, span), text,
                   LAMBDA span : span, FrontMost, Spans(text, edits))

\* editTool's line endings: those of the first line, for the whole file
Ending(file) == IF file # <<>> /\ file[1].eol = "crlf" THEN "crlf" ELSE "lf"

Rewritten(file, edits) ==
    LET text == Spliced(TextOf(file), edits)
    IN  [i \in DOMAIN text |-> [text |-> text[i], eol |-> Ending(file)]]

Working == phase = "working" /\ ~asked
Call == Working /\ used < MaxCalls /\ used' = used + 1

EditCall(edits) ==
    /\ Call
    /\ Acceptable(TextOf(tree.main), edits)
    /\ Spliced(TextOf(tree.main), edits) # TextOf(tree.main)
    /\ tree' = [tree EXCEPT !.main = Rewritten(tree.main, edits)]
    /\ reading' = Unread
    /\ UNCHANGED <<base, results, leg, notes, asked, told, phase, request>>

\* createFile: an empty old text, for a path that does not exist
CreateFile ==
    /\ Call
    /\ tree.other = "gone"
    /\ tree' = [tree EXCEPT !.other = "changed"]
    /\ UNCHANGED <<base, results, reading, leg, notes, asked, told, phase, request>>

\* bashTool: a command may leave anything behind; its exit code is no check result
Bash ==
    /\ Call
    /\ \E main \in Files, other \in {"same", "changed", "gone"}, ci \in BOOLEAN :
          tree' = [main |-> main, other |-> other, ci |-> ci]
    /\ tree' # tree
    /\ reading' = Unread
    /\ UNCHANGED <<base, results, leg, notes, asked, told, phase, request>>

Passes(w) == \A i \in DOMAIN w.main : w.main[i].text \notin Breaks

\* runCheckTool: the exit code of a command that ran is recorded; a command can
\* also time out
RunCheck(c) ==
    /\ Call
    /\ \E passed \in {Passes(tree), FALSE} :
          results' = Append(results, [check |-> c, passed |-> passed])
    /\ UNCHANGED <<base, tree, reading, leg, notes, asked, told, phase, request>>

----------------------------------------------------------------------------
(* readTool *)

Bytes(text) == IF text \in Long THEN PageBytes + 1 ELSE 1

Size(text, start, n) == FoldLeft(LAMBDA sum, t : sum + Bytes(t), 0, SubSeq(text, start + 1, start + n))

\* how many lines one read shows: up to the limit, the end and the byte limit
Shown(text, start, limit) ==
    LET n == {k \in 0..limit : start + k <= Len(text) /\ Size(text, start, k) <= PageBytes}
    IN  CHOOSE k \in n : \A j \in n : j <= k

\* the offset the notice names; 0 when there is none
Continuation(text, start, n) == IF start + n < Len(text) THEN start + n + 1 ELSE 0

\* A reader who follows the notices. For a line over the byte limit the read
\* names the line and a command for it, and no offset: the reader counts on.
Read(limit) ==
    /\ Working /\ reading.next # 0
    /\ LET text == TextOf(tree.main)
           start == reading.next - 1
           n == Shown(text, start, limit)
           named == IF n = 0 THEN 1 ELSE n
       IN  /\ start < Len(text)
           /\ reading' = [next |-> Continuation(text, start, named),
                          seen |-> reading.seen \cup (start + 1)..(start + named)]
    /\ UNCHANGED <<base, tree, results, leg, notes, asked, told, used, phase, request>>

----------------------------------------------------------------------------
(* worker.go: the turn *)

\* ask_owner sets the question; the turn then ends and the run waits
AskOwner ==
    /\ Working
    /\ asked' = TRUE
    /\ UNCHANGED <<base, tree, results, reading, leg, notes, told, used, phase, request>>

\* codingTurn: the findings of earlier legs are carried in front of the new ones
Handoff == notes \cup {leg}

Waits ==
    /\ phase = "working" /\ asked /\ leg < MaxLegs
    /\ notes' = Handoff
    /\ phase' = "waiting"
    /\ UNCHANGED <<base, tree, results, reading, leg, asked, told, used, request>>

\* execute again after the answer: a new ActiveRun, and turnInput with the notes
Resumes ==
    /\ phase = "waiting"
    /\ phase' = "working"
    /\ leg' = leg + 1
    /\ told' = notes
    /\ asked' = FALSE
    /\ results' = <<>>
    /\ reading' = Unread
    /\ UNCHANGED <<base, tree, notes, used, request>>

\* a budget, the wall time, a cancellation or a model error
TurnFails ==
    /\ phase = "working"
    /\ phase' = "failed"
    /\ UNCHANGED <<base, tree, results, reading, leg, notes, asked, told, used, request>>

----------------------------------------------------------------------------
(* publish.go *)

Original == [main |-> base, other |-> "same", ci |-> FALSE]

\* diffWorkspace: the paths whose content differs, a removed one among them
Changes(w) == {p \in {"main", "other", "ci"} : w[p] # Original[p]}

\* checkChangePath
Allowed(paths) == "ci" \notin paths

\* applyChanges, into a checkout of the base
Applied(w, paths) ==
    [main |-> IF "main" \in paths THEN w.main ELSE base,
     other |-> IF "other" \in paths THEN w.other ELSE "same",
     ci |-> FALSE]

ChecksPassed ==
    /\ Checks # {}
    /\ \A i \in DOMAIN results : results[i].passed
    /\ \A c \in Checks : \E i \in DOMAIN results : results[i].check = c

Publish ==
    /\ Working
    /\ LET paths == Changes(tree) IN
       \/ /\ ~Allowed(paths)
          /\ phase' = "failed" /\ request' = request
       \/ /\ Allowed(paths) /\ paths = {}
          /\ phase' = "completed" /\ request' = request
       \/ /\ Allowed(paths) /\ paths # {}
          /\ phase' = "requested"
          /\ request' = [tree |-> Applied(tree, paths), draft |-> ~ChecksPassed]
    /\ UNCHANGED <<base, tree, results, reading, leg, notes, asked, told, used>>

Next ==
    \/ \E edits \in EditCalls : EditCall(edits)
    \/ CreateFile \/ Bash
    \/ \E c \in Checks : RunCheck(c)
    \/ \E limit \in 1..2 : Read(limit)
    \/ AskOwner \/ Waits \/ Resumes \/ TurnFails \/ Publish

Spec == Init /\ [][Next]_vars

----------------------------------------------------------------------------
(* Properties *)

Covers(text, edits, i) ==
    \E k \in DOMAIN edits :
        LET at == Found(text, edits[k].old) IN i \in at..(at + Len(edits[k].old) - 1)

\* What one call's edits mean: every line an old text covers is replaced, at
\* the place it had before the call, and every other line stays.
AsWritten(text, edits) ==
    LET starts(i) == {k \in DOMAIN edits : Found(text, edits[k].old) = i}
        becomes(i) == IF starts(i) # {} THEN edits[CHOOSE k \in starts(i) : TRUE].new
                      ELSE IF Covers(text, edits, i) THEN <<>> ELSE <<text[i]>>
    IN  FlattenSeq([i \in DOMAIN text |-> becomes(i)])

\* The edits of one call land where their old text was when the call began,
\* whatever the other edits of the call add or remove before it.
EditLands ==
    \A edits \in EditCalls :
        EditCall(edits) => TextOf(tree'.main) = AsWritten(TextOf(tree.main), edits)

EditsLandWhereTheyMatched == [][EditLands]_vars

\* A reader who follows the notices to the end has been shown, or told of,
\* every line: a cut is never mistaken for the end of the file.
ReadThrough == reading.next = 0 => reading.seen = DOMAIN tree.main

\* What the run found out before its questions reaches the turn that goes on.
FindingsReachTheNextLeg == phase = "working" => told = 1..(leg - 1)

\* The pull request holds the workspace as the turn left it: what was removed
\* is removed, and nothing else is different.
RequestIsTheWorkspace == request # None => request.tree = tree
=============================================================================
