------------------------------- MODULE TurnRun -------------------------------
(***************************************************************************)
(* turns.Service.run (internal/core/turns/run.go): what one turn does with *)
(* its input and with the steers that join it, from the surface's call to  *)
(* the delivered reply and the follow-up turn that steers it never read    *)
(* become.  Admission is Conversations, which ActiveTurns implements; the  *)
(* agent loop (internal/core/agent/loop.go) is its step boundaries.        *)
(*                                                                         *)
(* A call is one invocation of run.  A message is named by the call that   *)
(* brought it; follow-up calls carry the messages of other calls.          *)
(***************************************************************************)
EXTENDS Integers, Sequences, FiniteSets, SequencesExt

CONSTANTS
    Messages,   \* inbound inputs, and the calls that bring them
    Ambient,    \* those of scheduled turns and heartbeats: not steerable,
                \* not recorded (ScheduledTurn, HeartbeatTurn)
    FollowUps,  \* names for the calls that run makes of itself
    Keys,       \* (account, conversation) pairs
    MaxSteps,   \* agent.maxSteps, the runaway guard of the loop
    None

Calls == Messages \cup FollowUps

ASSUME TurnRunAssumption ==
    /\ Ambient \subseteq Messages
    /\ Messages \cap FollowUps = {}
    /\ None \notin Calls
    /\ MaxSteps \in Nat \ {0}

VARIABLES
    key, steerable, joinable, fate, running, taking, inbox, drained,
    returned,    \* Conversations
    unsupported, \* messages with a part the selected model does not take
    phase,       \* where each invocation of run is
    steps,       \* tool-call steps its loop has taken
    carried,     \* the messages its input is made of
    outcome,     \* what it came to
    halted,      \* calls whose turn /stop has cancelled
    log          \* the recorded conversation: user messages and replies

admissionVars == <<key, steerable, joinable, fate, running, taking, inbox,
                   drained, returned>>
vars == <<admissionVars, unsupported, phase, steps, carried, outcome, halted,
          log>>

Admission == INSTANCE Conversations

(* policy.RecordConversation, which is also what makes a turn steerable. *)
RecordConversation(c) == c \notin Ambient

Init ==
    /\ Admission!Init
    /\ steerable = [c \in Calls |-> RecordConversation(c)]
    /\ joinable = [c \in Calls |-> TRUE]
    /\ unsupported \in SUBSET (Messages \ Ambient)
    /\ phase = [c \in Calls |-> IF c \in FollowUps THEN "unborn" ELSE "new"]
    /\ steps = [c \in Calls |-> 0]
    /\ carried = [c \in Calls |-> IF c \in FollowUps THEN <<>> ELSE <<c>>]
    /\ outcome = [c \in Calls |-> "none"]
    /\ halted = {}
    /\ log = <<>>

Moves(c, from, to) ==
    /\ phase[c] = from
    /\ phase' = [phase EXCEPT ![c] = to]

Ends(c, how) == outcome' = [outcome EXCEPT ![c] = how]

(* A call whose input is recorded already is a follow-up. *)
InputAlreadyRecorded(c) == c \in FollowUps

(* partKinds of the merged input against what the model takes. *)
CarriesUnsupported(c) == \E i \in DOMAIN carried[c] : carried[c][i] \in unsupported

-----------------------------------------------------------------------------
(* Commands and admission *)

(* A text-only input that is a command is answered without a turn. *)
RunCommand(c) ==
    /\ Moves(c, "new", "done")
    /\ ~InputAlreadyRecorded(c)
    /\ ~CarriesUnsupported(c)
    /\ Ends(c, "command")
    /\ UNCHANGED <<admissionVars, unsupported, steps, carried, halted, log>>

Admit(c) ==
    /\ Moves(c, "new", "asking")
    /\ Admission!Ask(c)
    /\ UNCHANGED <<unsupported, steps, carried, outcome, halted, log>>

(* The surface went away before the call was admitted. *)
AdmissionFails(c) ==
    /\ Moves(c, "asking", "done")
    /\ Admission!Refuse(c)
    /\ Ends(c, "failed")
    /\ UNCHANGED <<unsupported, steps, carried, halted, log>>

AdmittedAsOwner(c) ==
    /\ Moves(c, "asking", "preparing")
    /\ Admission!Begin(c)
    /\ UNCHANGED <<unsupported, steps, carried, outcome, halted, log>>

AdmittedAsSteer(c) ==
    /\ Moves(c, "asking", "joining")
    /\ Admission!Join(c)
    /\ UNCHANGED <<unsupported, steps, carried, outcome, halted, log>>

Said(m) == [role |-> "user", call |-> m]
Replied(c) == [role |-> "assistant", call |-> c]

(* The user message of the input of c, unless it is in the store already. *)
RecordedInput(c) ==
    IF InputAlreadyRecorded(c) THEN <<>>
    ELSE [i \in DOMAIN carried[c] |-> Said(carried[c][i])]

(* The joined branch: its message is recorded after it was published. *)
RecordSteer(c) ==
    /\ Moves(c, "joining", "done")
    /\ Ends(c, "joined")
    /\ log' = log \o RecordedInput(c)
    /\ UNCHANGED <<admissionVars, unsupported, steps, carried, halted>>

-----------------------------------------------------------------------------
(* The owner's turn *)

(***************************************************************************)
(* A collaborator fails before the loop (context, state, model, effort,    *)
(* skills).  The deferred Release ends the turn and drops what it returns. *)
(***************************************************************************)
PreparationFails(c) ==
    /\ Moves(c, "preparing", "done")
    /\ Admission!End(c)
    /\ Ends(c, "failed")
    /\ UNCHANGED <<unsupported, steps, carried, halted, log>>

(* The refusal of an unsupported part is delivered; err is nil. *)
RefuseParts(c) ==
    /\ CarriesUnsupported(c)
    /\ Moves(c, "preparing", "done")
    /\ Admission!End(c)
    /\ Ends(c, "refused")
    /\ UNCHANGED <<unsupported, steps, carried, halted, log>>

EnterLoop(c) ==
    /\ ~CarriesUnsupported(c)
    /\ Moves(c, "preparing", "looping")
    /\ UNCHANGED <<admissionVars, unsupported, steps, carried, outcome,
                   halted, log>>

(* The step boundary: ctx.Err first, the steers after it. *)
PassBoundary(c) ==
    /\ Moves(c, "looping", "draining")
    /\ c \notin halted
    /\ UNCHANGED <<admissionVars, unsupported, steps, carried, outcome,
                   halted, log>>

Drain(c) ==
    /\ Moves(c, "draining", "generating")
    /\ Admission!Read(c)
    /\ UNCHANGED <<unsupported, steps, carried, outcome, halted, log>>

(* Defect: the loop has no runaway guard. *)
TakeStepUncounted(c) ==
    /\ Moves(c, "generating", "looping")
    /\ UNCHANGED <<admissionVars, unsupported, steps, carried, outcome,
                   halted, log>>

(* Defect: the guard is off by one. *)
TakeStepTooMany(c) ==
    /\ Moves(c, "generating", "looping")
    /\ steps[c] <= MaxSteps
    /\ steps' = [steps EXCEPT ![c] = @ + 1]
    /\ UNCHANGED <<admissionVars, unsupported, carried, outcome, halted, log>>

(* The model asked for tools, and their results are in the window. *)
TakeStep(c) ==
    /\ Moves(c, "generating", "looping")
    /\ steps[c] < MaxSteps
    /\ steps' = [steps EXCEPT ![c] = @ + 1]
    /\ UNCHANGED <<admissionVars, unsupported, carried, outcome, halted, log>>

(* Loop.Run has returned: Release keeps what the turn never read. *)
LoopReplies(c) ==
    /\ Moves(c, "generating", IF RecordConversation(c) THEN "recording"
                              ELSE "delivering")
    /\ Admission!End(c)
    /\ UNCHANGED <<unsupported, steps, carried, outcome, halted, log>>

(***************************************************************************)
(* Stopped, out of steps, or a provider that had not said what it takes    *)
(* refused a part of an owner's input: the owner is told so, err is nil.   *)
(***************************************************************************)
LoopIsCut(c) ==
    /\ \/ c \in halted /\ phase[c] \in {"looping", "generating"}
       \/ phase[c] = "generating" /\ steps[c] = MaxSteps
       \/ phase[c] = "generating" /\ RecordConversation(c)
    /\ phase' = [phase EXCEPT ![c] = "delivering"]
    /\ Admission!End(c)
    /\ UNCHANGED <<unsupported, steps, carried, outcome, halted, log>>

(* The model, the window or the surface's own context failed the loop. *)
LoopFails(c) ==
    /\ phase[c] \in {"looping", "generating"}
    /\ phase' = [phase EXCEPT ![c] = "done"]
    /\ Admission!End(c)
    /\ Ends(c, "failed")
    /\ UNCHANGED <<unsupported, steps, carried, halted, log>>

(* The exchange is recorded once the reply is known: input, then reply. *)
RecordInput(c) ==
    /\ Moves(c, "recording", "replying")
    /\ log' = log \o RecordedInput(c)
    /\ UNCHANGED <<admissionVars, unsupported, steps, carried, outcome, halted>>

RecordReply(c) ==
    /\ Moves(c, "replying", "delivering")
    /\ log' = Append(log, Replied(c))
    /\ UNCHANGED <<admissionVars, unsupported, steps, carried, outcome, halted>>

DeliveryFails(c) ==
    /\ Moves(c, "delivering", "done")
    /\ Ends(c, "failed")
    /\ UNCHANGED <<admissionVars, unsupported, steps, carried, halted, log>>

(* mergeSteered, over calls that are themselves merged messages. *)
MergeSteered(steered) ==
    FlattenSeq([i \in DOMAIN steered |-> carried[steered[i]]])

(* Defect: the steers the turn got back are forgotten. *)
DeliverAndForget(c) ==
    /\ Moves(c, "delivering", "done")
    /\ Ends(c, "delivered")
    /\ UNCHANGED <<admissionVars, unsupported, steps, carried, halted, log>>

Deliver(c) ==
    /\ Moves(c, "delivering", "done")
    /\ returned[c] = <<>>
    /\ Ends(c, "delivered")
    /\ UNCHANGED <<admissionVars, unsupported, steps, carried, halted, log>>

(* Defect: the follow-up also takes the input of the turn itself. *)
FollowUpOnOwnInput(c) ==
    /\ phase[c] = "delivering"
    /\ returned[c] # <<>>
    /\ \E f \in FollowUps :
        /\ phase[f] = "unborn"
        /\ key[f] = key[c]
        /\ phase' = [phase EXCEPT ![c] = "done", ![f] = "new"]
        /\ carried' = [carried EXCEPT ![f] = carried[c] \o MergeSteered(returned[c])]
    /\ Ends(c, "delivered")
    /\ UNCHANGED <<admissionVars, unsupported, steps, halted, log>>

(* The deferred follow-up: run calls itself with what was never read. *)
DeliverAndFollowUp(c) ==
    /\ phase[c] = "delivering"
    /\ returned[c] # <<>>
    /\ \E f \in FollowUps :
        /\ phase[f] = "unborn"
        /\ key[f] = key[c]
        /\ phase' = [phase EXCEPT ![c] = "done", ![f] = "new"]
        /\ carried' = [carried EXCEPT ![f] = MergeSteered(returned[c])]
    /\ Ends(c, "delivered")
    /\ UNCHANGED <<admissionVars, unsupported, steps, halted, log>>

(* /stop: it finds the running turn, whichever phase it is in. *)
Stop(k) ==
    /\ Admission!Stop(k)
    /\ running[k] \notin halted
    /\ halted' = halted \cup {running[k]}
    /\ UNCHANGED <<unsupported, phase, steps, carried, outcome, log>>

Quiescent == \A c \in Calls : phase[c] \in {"unborn", "done"}

Terminated == Quiescent /\ UNCHANGED vars

RunStep(c) ==
    \/ Admit(c)           \/ AdmittedAsOwner(c) \/ AdmittedAsSteer(c)
    \/ RecordSteer(c)     \/ PreparationFails(c) \/ RefuseParts(c)
    \/ EnterLoop(c)       \/ PassBoundary(c)    \/ Drain(c)
    \/ TakeStep(c)        \/ LoopReplies(c)     \/ LoopIsCut(c)
    \/ LoopFails(c)       \/ RecordInput(c)     \/ RecordReply(c)
    \/ DeliveryFails(c)   \/ Deliver(c)         \/ DeliverAndFollowUp(c)

Next ==
    \/ \E c \in Calls : RunStep(c) \/ RunCommand(c) \/ AdmissionFails(c)
    \/ \E k \in Keys : Stop(k)
    \/ Terminated

Spec == Init /\ [][Next]_vars

-----------------------------------------------------------------------------
(* Properties *)

Phases == {"unborn", "new", "asking", "joining", "preparing", "looping",
           "draining", "generating", "recording", "replying", "delivering",
           "done"}

Outcomes == {"none", "command", "joined", "delivered", "refused", "failed"}

(* The types of the variables of a turn and of the recorded conversation. *)
TypeOK ==
    /\ unsupported \subseteq Messages
    /\ phase \in [Calls -> Phases]
    /\ steps \in [Calls -> 0..MaxSteps]
    /\ carried \in [Calls -> Seq(Messages)]
    /\ outcome \in [Calls -> Outcomes]
    /\ halted \subseteq Calls
    /\ log \in Seq([role : {"user", "assistant"}, call : Calls])

OwnsTurn(c) == fate[c] \in {"running", "finished"}

(* What the turn of c works on: its input, and the steers it has read. *)
TurnInput(c) ==
    IF OwnsTurn(c) THEN carried[c] \o MergeSteered(drained[c]) ELSE <<>>

(***************************************************************************)
(* However steers are read, returned, merged into follow-ups and joined    *)
(* again, one message is worked on by one turn, once: the owner never gets *)
(* two answers, or two runs of the same request, for one message.          *)
(***************************************************************************)
WorkedOnOnce ==
    \A c, d \in Calls : \A i \in DOMAIN TurnInput(c), j \in DOMAIN TurnInput(d) :
        TurnInput(c)[i] = TurnInput(d)[j] => c = d /\ i = j

(***************************************************************************)
(* The conversation holds a message at most once ("Recording it a second   *)
(* time would show the owner saying the same thing twice"), never one of   *)
(* an unprompted turn; and once everything is done it holds every message  *)
(* that a recorded reply answers, whoever had to record it.                *)
(***************************************************************************)
RecordedOnce ==
    /\ IsInjective(log)
    /\ \A m \in Ambient : Said(m) \notin ToSet(log)
    /\ Quiescent =>
          \A c \in Calls : Replied(c) \in ToSet(log) =>
             \A m \in ToSet(TurnInput(c)) : Said(m) \in ToSet(log)

(***************************************************************************)
(* An unprompted turn works on its own instruction alone, and no owner     *)
(* turn works on an unprompted instruction.                                *)
(***************************************************************************)
AmbientAlone ==
    \A c \in Calls :
        ToSet(TurnInput(c)) \cap Ambient # {} => TurnInput(c) = <<c>>

(* The turn or the call that message m ended in. *)
EndedIn(m, c) ==
    \/ m \in ToSet(TurnInput(c))
    \/ m \in ToSet(carried[c]) /\ outcome[c] \in {"command", "failed"}

(* A turn that ended without a follow-up for the steers it got back. *)
Dropped(m, c) ==
    /\ outcome[c] \in {"failed", "refused"}
    /\ m \in ToSet(MergeSteered(returned[c]))

(***************************************************************************)
(* Once everything is done, every message was worked on by a turn, was a   *)
(* command, or was lost to a turn that failed or refused its own input.    *)
(* No order of joining, reading, stopping and ending loses another.        *)
(***************************************************************************)
NothingLost ==
    Quiescent => \A m \in Messages : \E c \in Calls :
                    EndedIn(m, c) \/ Dropped(m, c)

(***************************************************************************)
(* "The one thing it may never do is disappear": a steer is worked on by   *)
(* some turn unless the turn it joined failed, which tells the owner.      *)
(***************************************************************************)
SteerNeverDisappears ==
    Quiescent => \A m \in Messages : \E c \in Calls :
                    EndedIn(m, c) \/ (Dropped(m, c) /\ outcome[c] = "failed")

(* Every message that asks for a turn comes to an end with some call. *)
EveryMessageSettles ==
    \A m \in Messages : (phase[m] = "asking") ~>
        \E c \in Calls : /\ phase[c] = "done"
                         /\ EndedIn(m, c) \/ Dropped(m, c)

(***************************************************************************)
(* A message is worked on by one turn, recorded once and by whoever had to *)
(* record it, and an unprompted turn works on nothing but its instruction  *)
(* (turns/run.go, however often steers are returned and merged).           *)
(***************************************************************************)
EachOnce == WorkedOnOnce /\ RecordedOnce /\ AmbientAlone
=============================================================================
