------------------------------- MODULE Traces -------------------------------
(***************************************************************************)
(* The traces of turns (core/services/trace.go, sqlite/traces.go): a turn  *)
(* opens a trace, writes its steps and the images it draws into it as they *)
(* happen, closes it and enforces the account's retention. Turns of        *)
(* several accounts run at the same time, a turn can outlive its own       *)
(* trace, and the process can die anywhere.                                *)
(*                                                                         *)
(* Traces are numbered in the order of their started_at.                   *)
(***************************************************************************)
EXTENDS Integers, FiniteSets

CONSTANTS Owners,     \* accounts
          MaxTurns,   \* bound: turns that begin
          MaxSteps,   \* bound: steps of one turn
          Keep,       \* tracing.keep_turns
          MaxAged,    \* bound: turns that grow too old
          None

Turns == 1..MaxTurns

VARIABLES last,      \* turns begun
          who,       \* [Turns -> the account, once begun]
          stage,     \* [Turns -> where the turn and its recorder are]
          sequence,  \* [Turns -> TraceTurn.sequence]
          unwritten, \* steps that have their number and are not stored yet
          rows,      \* [Turns -> "none", "open", "complete" or "gone"]
          spans,     \* stored steps and images, as <<turn, number>>
          aged,      \* the turns up to this one started before the retention
          torn       \* the process died between two deletes of a prune

vars == <<last, who, stage, sequence, unwritten, rows, spans, aged, torn>>

Init ==
    /\ last = 0 /\ who = [t \in Turns |-> None]
    /\ stage = [t \in Turns |-> "new"]
    /\ sequence = [t \in Turns |-> 0]
    /\ unwritten = {} /\ spans = {} /\ aged = 0
    /\ rows = [t \in Turns |-> "none"]
    /\ torn = FALSE

Stored(t) == rows[t] \in {"open", "complete"}

\* Begin: the trace is known to the process before its row is written.
Begin ==
    /\ last < MaxTurns
    /\ last' = last + 1
    /\ \E a \in Owners: who' = [who EXCEPT ![last + 1] = a]
    /\ stage' = [stage EXCEPT ![last + 1] = "begun"]
    /\ UNCHANGED <<sequence, unwritten, rows, spans, aged, torn>>

\* The turn goes on when the row cannot be written.
StartTrace(t) ==
    /\ stage[t] = "begun"
    /\ stage' = [stage EXCEPT ![t] = "running"]
    /\ rows' \in {rows, [rows EXCEPT ![t] = "open"]}
    /\ UNCHANGED <<last, who, sequence, unwritten, spans, aged, torn>>

\* A model call, a tool call or an image takes its place in the order.
Step(t) ==
    /\ stage[t] = "running" /\ sequence[t] < MaxSteps
    /\ sequence' = [sequence EXCEPT ![t] = @ + 1]
    /\ unwritten' = unwritten \cup {<<t, sequence[t] + 1>>}
    /\ UNCHANGED <<last, who, stage, rows, spans, aged, torn>>

\* Nothing is stored under a trace that is gone.
Anyway(t) == TRUE
HasItsTrace(t) == Stored(t)

Append(t, n) ==
    /\ <<t, n>> \in unwritten
    /\ unwritten' = unwritten \ {<<t, n>>}
    /\ spans' \in {spans} \cup (IF HasItsTrace(t) THEN {spans \cup {<<t, n>>}} ELSE {})
    /\ UNCHANGED <<last, who, stage, sequence, rows, aged, torn>>

Closed(t) == IF Stored(t) THEN [rows EXCEPT ![t] = "complete"] ELSE rows

\* The loop has returned, and with it the steps it waits for.
Complete(t) ==
    /\ stage[t] = "running" /\ \A s \in unwritten: s[1] # t
    /\ stage' = [stage EXCEPT ![t] = "pruning"]
    /\ rows' \in {rows, Closed(t)}
    /\ UNCHANGED <<last, who, sequence, unwritten, spans, aged, torn>>

\* What the budget keeps: the newest rows of the account that completes.
Counts(a, u) == who[u] = a
Newest(a, u) == Cardinality({v \in Turns: v > u /\ Stored(v) /\ Counts(a, v)}) < Keep

PruneTraces(t) ==
    /\ stage[t] = "pruning"
    /\ \/ /\ rows' = [u \in Turns |->
                 IF Stored(u) /\ who[u] = who[t] /\ (u <= aged \/ ~Newest(who[t], u))
                 THEN "gone" ELSE rows[u]]
          /\ stage' = [stage EXCEPT ![t] = "sweeping"]
       \/ stage' = [stage EXCEPT ![t] = "done"] /\ UNCHANGED rows   \* the store fails
    /\ UNCHANGED <<last, who, sequence, unwritten, spans, aged, torn>>

\* There are no foreign keys: what belonged to a trace that is gone goes by
\* statements of their own.
Swept == {s \in spans: Stored(s[1])}

Sweep(t) ==
    /\ stage[t] = "sweeping"
    /\ stage' = [stage EXCEPT ![t] = "done"]
    /\ \/ spans' = Swept /\ torn' = FALSE
       \/ torn' = TRUE /\ UNCHANGED spans
    /\ UNCHANGED <<last, who, sequence, unwritten, rows, aged>>

Age ==
    /\ aged < last /\ aged < MaxAged
    /\ aged' = aged + 1
    /\ UNCHANGED <<last, who, stage, sequence, unwritten, rows, spans, torn>>

\* A trace whose turn died stays open: it is evidence.
Die ==
    /\ \E t \in Turns: stage[t] \notin {"new", "done"}
    /\ stage' = [t \in Turns |-> IF stage[t] = "new" THEN "new" ELSE "done"]
    /\ unwritten' = {}
    /\ torn' = (torn \/ \E t \in Turns: stage[t] = "sweeping")
    /\ UNCHANGED <<last, who, sequence, rows, spans, aged>>

Next ==
    \/ Begin \/ Age \/ Die
    \/ \E t \in Turns:
           \/ StartTrace(t) \/ Step(t) \/ Complete(t) \/ PruneTraces(t) \/ Sweep(t)
           \/ \E n \in 1..MaxSteps: Append(t, n)

Spec == Init /\ [][Next]_vars

(******************************* properties ********************************)
TypeOK ==
    /\ last \in 0..MaxTurns /\ who \in [Turns -> Owners \cup {None}]
    /\ stage \in [Turns -> {"new", "begun", "running", "pruning", "sweeping", "done"}]
    /\ sequence \in [Turns -> 0..MaxSteps]
    /\ unwritten \subseteq Turns \X (1..MaxSteps) /\ spans \subseteq Turns \X (1..MaxSteps)
    /\ rows \in [Turns -> {"none", "open", "complete", "gone"}]
    /\ aged \in 0..MaxTurns /\ torn \in BOOLEAN

\* A step or an image is never left without the trace it belongs to, where no
\* reader can find it and no retention counts it: not by a turn that goes on
\* after its own trace was pruned, only for the moment between two deletes.
NoOrphans ==
    torn \/ (\E t \in Turns: stage[t] = "sweeping") \/ \A s \in spans: Stored(s[1])

\* One account's busy day does not age another's traces out: a trace goes when
\* it is older than the retention or its own account has had Keep newer ones.
BudgetIsOwn ==
    \A t \in Turns: rows[t] = "gone" =>
        t <= aged \/ Cardinality({u \in Turns: u > t /\ who[u] = who[t] /\ rows[u] # "none"}) >= Keep
=============================================================================
