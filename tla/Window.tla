-------------------------------- MODULE Window --------------------------------
(***************************************************************************)
(* The loop of one turn and what it keeps of it (core/agent/loop.go and    *)
(* compaction.go): steering joins at a step boundary, the live window is   *)
(* brought back inside its budgets there, the model answers with calls     *)
(* that all run or with the reply.  Texts are their sizes.                 *)
(***************************************************************************)
EXTENDS Naturals, Sequences, FiniteSets, SequencesExt

CONSTANTS
    Preserved,     \* what the caller hands in, and the tool schemas
    BudgetChars,   \* of the live tail
    RecentSteps,   \* that stay live
    Allowance,     \* of the whole request, without the reserve
    FoldChars,     \* what a fold for the request goes down to
    SummaryLimit,  \* notes of the checkpoint
    MaxSteps,      \* the runaway guard
    MaxSteers      \* bound on the corrections of the owner

\* Sizes, and counts.
WindowAssumption ==
    /\ {Preserved, BudgetChars, RecentSteps, Allowance} \subseteq Nat
    /\ {FoldChars, SummaryLimit, MaxSteps, MaxSteers} \subseteq Nat

VARIABLES
    at,        \* "boundary", "fit", "batch", "check", "asked", or how it ended
    summary,   \* the checkpoint: notes, "work" or "owner"
    steering,  \* sizes of the corrections taken out of folded steps
    tail,      \* the messages since the request
    steps,
    steers     \* corrections so far, numbered

windowVars == <<at, summary, steering, tail, steps, steers>>

Ended == {"replied", "too large", "step limit", "unknown tool", "failed"}

Init == /\ at = "boundary" /\ summary = <<>> /\ steering = <<>> /\ tail = <<>>
        /\ steps = 0 /\ steers = 0

Assistant(calls) == [role |-> "assistant", size |-> 1, calls |-> calls, n |-> 0]
Result(size) == [role |-> "tool", size |-> size, calls |-> 0, n |-> 0]
Owner(n, size) == [role |-> "user", size |-> size, calls |-> 0, n |-> n]

Chars(messages) == FoldSeq(LAMBDA m, total : total + m.size, 0, messages)

(* boundToolResult: half the tail, or a quarter of the request.            *)
ResultLimit ==
    IF Allowance \div 4 < BudgetChars \div 2 THEN Allowance \div 4 ELSE BudgetChars \div 2

-----------------------------------------------------------------------------
(* Steps of the tail (splitSteps)                                          *)

Starts == {i \in 1..Len(tail) : i = 1 \/ tail[i].role = "assistant"}

(* How many messages the oldest step has.                                  *)
OldestStep ==
    IF Cardinality(Starts) > 1
    THEN (CHOOSE i \in Starts \ {1} : \A j \in Starts \ {1} : i <= j) - 1
    ELSE Len(tail)

(* AppendSummary drops the oldest notes, never the new one.                *)
Noted(notes, more) ==
    LET all == notes \o more IN
    IF Len(all) > SummaryLimit THEN SubSeq(all, Len(all) - SummaryLimit + 1, Len(all)) ELSE all

Checkpoint == IF summary = <<>> THEN 0 ELSE 1 + Len(summary)

Mandatory == Preserved + Checkpoint + Chars(steering)

-----------------------------------------------------------------------------
(* The boundary: steering, then fit                                        *)

TakeSteering ==
    /\ at = "boundary"
    /\ \E size \in {0, 1, 2} :
         /\ size > 0 => steers < MaxSteers
         /\ steers' = IF size > 0 THEN steers + 1 ELSE steers
         /\ tail' = IF size > 0 THEN Append(tail, Owner(steers + 1, size)) ELSE tail
    /\ at' = "fit"
    /\ UNCHANGED <<summary, steering, steps>>

TooMuchSteering == Len(steering) > 1 /\ Chars(steering) > SummaryLimit \div 2

(* Older corrections go into the checkpoint as the owner's words.          *)
BoundSteering ==
    /\ at = "fit" /\ TooMuchSteering
    /\ summary' = Noted(summary, <<"owner">>)
    /\ steering' = Tail(steering)
    /\ UNCHANGED <<at, tail, steps, steers>>

(* What the owner said, of the messages.                                   *)
OwnersOf(messages) ==
    FlattenSeq([i \in DOMAIN messages |->
                   IF messages[i].role = "user" THEN <<messages[i]>> ELSE <<>>])

(* Faulty: what the owner said is summarized with the rest.                *)
RescueNothing(folded) == <<>>

(* A correction is moved, not summarized.                                  *)
Rescued(folded) == OwnersOf(folded)

(* The calls of the model and the results become a note each.              *)
Summarized(folded) ==
    [i \in 1..Cardinality({j \in DOMAIN folded : folded[j].role # "user"}) |-> "work"]

FoldOldest ==
    LET folded == SubSeq(tail, 1, OldestStep) IN
    /\ steering' = steering \o Rescued(folded)
    /\ summary' = Noted(summary, Summarized(folded))
    /\ tail' = SubSeq(tail, OldestStep + 1, Len(tail))
    /\ UNCHANGED <<steps, steers>>

(* The newest step stays live whatever the budgets say.                    *)
MayFold == Cardinality(Starts) > 1

OverTail == Cardinality(Starts) > RecentSteps \/ Chars(tail) > BudgetChars
OverRequest == Mandatory + Chars(tail) > Allowance

Fold ==
    /\ at = "fit" /\ ~TooMuchSteering /\ MayFold /\ (OverTail \/ OverRequest)
    /\ FoldOldest
    /\ at' = IF OverRequest THEN "batch" ELSE "fit"

(* A fold for the request goes on, so that the next one is far away.       *)
FoldBatch ==
    /\ at = "batch"
    /\ IF MayFold /\ Mandatory + Chars(tail) > (IF FoldChars < Allowance THEN FoldChars ELSE Allowance)
       THEN FoldOldest /\ at' = "batch"
       ELSE at' = "fit" /\ UNCHANGED <<summary, steering, tail, steps, steers>>

Folded ==
    /\ at = "fit" /\ ~TooMuchSteering /\ ~(MayFold /\ (OverTail \/ OverRequest))
    /\ at' = "check"
    /\ UNCHANGED <<summary, steering, tail, steps, steers>>

Fits == ~OverRequest

Ask ==
    /\ at = "check"
    /\ at' = IF Fits THEN "asked" ELSE "too large"
    /\ UNCHANGED <<summary, steering, tail, steps, steers>>

-----------------------------------------------------------------------------
(* The model answers                                                       *)

Reply ==
    /\ at = "asked"
    /\ at' = "replied"
    /\ UNCHANGED <<summary, steering, tail, steps, steers>>

(* Stopped by the owner at a boundary, or the provider fails.              *)
Fails ==
    /\ at \in {"boundary", "asked"}
    /\ at' = "failed"
    /\ UNCHANGED <<summary, steering, tail, steps, steers>>

StepLimit ==
    /\ at = "asked" /\ steps >= MaxSteps
    /\ at' = "step limit"
    /\ UNCHANGED <<summary, steering, tail, steps, steers>>

(* Every call is looked up before one of them runs.                        *)
UnknownTool ==
    /\ at = "asked" /\ steps < MaxSteps
    /\ at' = "unknown tool"
    /\ UNCHANGED <<summary, steering, tail, steps, steers>>

(* The calls run together, and their results join in the order of the      *)
(* calls.                                                                  *)
RunCalls ==
    /\ at = "asked" /\ steps < MaxSteps
    /\ \E sizes \in {<<1>>, <<ResultLimit>>, <<1, ResultLimit>>} :
         tail' = Append(tail, Assistant(Len(sizes)))
                 \o [i \in 1..Len(sizes) |-> Result(sizes[i])]
    /\ steps' = steps + 1 /\ at' = "boundary"
    /\ UNCHANGED <<summary, steering, steers>>

Counted == steps + 1

(* An answer that was cut off: none of its calls runs, and each is         *)
(* answered with an error.                                                 *)
Truncated ==
    /\ at = "asked" /\ steps < MaxSteps
    /\ tail' = tail \o <<Assistant(1), Result(1)>>
    /\ steps' = Counted /\ at' = "boundary"
    /\ UNCHANGED <<summary, steering, steers>>

-----------------------------------------------------------------------------
Next ==
    \/ TakeSteering \/ BoundSteering \/ Fold \/ FoldBatch \/ Folded \/ Ask
    \/ Reply \/ Fails \/ StepLimit \/ UnknownTool \/ RunCalls \/ Truncated

Spec == Init /\ [][Next]_windowVars

-----------------------------------------------------------------------------
(* Types of the window.                                                    *)
TypeOK ==
    /\ at \in {"boundary", "fit", "batch", "check", "asked"} \cup Ended
    /\ \A i \in 1..Len(tail) : tail[i].role \in {"assistant", "tool", "user"}
    /\ \A i \in 1..Len(summary) : summary[i] \in {"work", "owner"}
    /\ Len(summary) <= SummaryLimit

(* A provider rejects a result without its call and a call without its     *)
(* results: in a request that is sent every call has its results right     *)
(* behind it, and there is no other result.                                *)
CallsHaveResults ==
    at = "asked" =>
        \A i \in 1..Len(tail) :
            /\ tail[i].role = "assistant" =>
                 /\ i + tail[i].calls <= Len(tail)
                 /\ \A j \in i + 1..i + tail[i].calls : tail[j].role = "tool"
            /\ tail[i].role = "tool" =>
                 \E j \in 1..i - 1 : tail[j].role = "assistant" /\ i <= j + tail[j].calls

(* A turn may forget its own work but not its latest correction: what the  *)
(* owner said last is in the request word for word, after what was said    *)
(* before it, and the results the model has just asked for are there too.  *)
CorrectionIsHeard ==
    at = "asked" =>
        LET said == OwnersOf(steering \o tail) IN
        /\ steers > 0 => said # <<>> /\ said[Len(said)].n = steers
        /\ \A i, j \in 1..Len(said) : i < j => said[i].n < said[j].n
        /\ steps > 0 => \E i \in 1..Len(tail) : tail[i].role = "assistant"

(* No request is larger than the model takes.                              *)
WithinAllowance == at = "asked" => Preserved + Checkpoint + Chars(steering \o tail) <= Allowance
=============================================================================
