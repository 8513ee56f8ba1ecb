----------------------------- MODULE ActiveTurns -----------------------------
(***************************************************************************)
(* services.ActiveTurns (internal/core/services/turns.go): the admission   *)
(* of inputs to one account's conversation.  An input either becomes the   *)
(* OWNER of an execution or, if the running execution can take it, JOINS   *)
(* it as a steer.  Every critical section of the code is one action:       *)
(* those under t.mu (the map of entries) and those under entry.mu.         *)
(*                                                                         *)
(* A call is one inbound input: one goroutine that runs Admit and, if it   *)
(* owns the execution, Pending and Release (twice: turns.run releases      *)
(* after the loop and again in its defer).  A stopper is one /stop.        *)
(***************************************************************************)
EXTENDS Integers, Sequences, FiniteSets, SequencesExt

CONSTANTS
    Calls,      \* inbound inputs, one Admit each
    Stoppers,   \* calls of Stop
    Keys,       \* (account, conversation) pairs
    EntryIds,   \* addresses of turnEntry values; allocation takes a fresh one
    None        \* the nil *turnEntry

ASSUME NoneAssumption == None \notin EntryIds \cup Calls

(* The goroutines of one run are finitely many. *)
ASSUME FiniteCallers == IsFiniteSet(Calls) /\ IsFiniteSet(Stoppers)

VARIABLES
    entries,     \* t.entries: the live entry of each key, or None
    heap,        \* the turnEntry at each address
    fresh,       \* addresses not allocated yet
    activeCount, \* t.active
    pc,          \* where each call is
    key,         \* turnKey of a call's context
    entry,       \* the entry a call holds
    steerable,   \* admissionWaiter.steerable of a call
    joinable,    \* admissionWaiter.joinable: the message is not empty
    granted,     \* calls whose waiter is granted (its ready channel closed)
    owner,       \* the owner decision a call has read
    generation,  \* generationBinding.generation of an owner, 0 before
    cancelled,   \* calls whose own context is cancelled
    drained,     \* what Pending has returned to an owner
    returned,    \* what Release has returned to an owner
    stopPc,      \* where each stopper is
    stopKey,     \* turnKey of a stopper's context
    stopEntry    \* the entry a stopper holds

inputVars == <<key, steerable, joinable, stopKey>>
entryVars == <<entries, heap, fresh, activeCount>>
callVars == <<pc, entry, granted, owner, generation, cancelled>>
readVars == <<drained, returned>>
stopVars == <<stopPc, stopEntry>>
vars == <<inputVars, entryVars, callVars, readVars, stopVars>>

(***************************************************************************)
(* turnEntry and activeTurn.  Generations start at 1, so generation 0      *)
(* stands for a nil active turn.                                           *)
(***************************************************************************)
NoTurn == [generation |-> 0, steerable |-> FALSE, stopping |-> FALSE,
           pending |-> <<>>]

NewEntry == [next |-> 0, active |-> NoTurn, preparing |-> FALSE,
             waiters |-> <<>>, references |-> 0]

Live(en) == en.active.generation # 0

(* Defect: an entry with a running turn counts as idle. *)
IdleWithTurn(en) == en.references = 0 /\ ~en.preparing /\ en.waiters = <<>>

Idle(en) == /\ en.references = 0
            /\ ~Live(en)
            /\ ~en.preparing
            /\ en.waiters = <<>>

(* grantNextLocked: who is granted, and the entry afterwards. *)
CanGrant(en) ==
    /\ ~en.preparing
    /\ en.waiters # <<>>
    /\ Live(en) => /\ joinable[Head(en.waiters)]
                   /\ steerable[Head(en.waiters)]
                   /\ en.active.steerable
                   /\ ~en.active.stopping

GrantedBy(en) == IF CanGrant(en) THEN {Head(en.waiters)} ELSE {}

GrantNext(en) ==
    IF CanGrant(en)
    THEN [en EXCEPT !.waiters = Tail(@), !.preparing = TRUE]
    ELSE en

(* An entry.mu section that leaves entry e as en and then grants. *)
StoreAndGrant(e, en) ==
    /\ heap' = [heap EXCEPT ![e] = GrantNext(en)]
    /\ granted' = granted \cup GrantedBy(en)

(* finishPreparationLocked, on an entry already updated to en. *)
FinishPreparation(e, en) == StoreAndGrant(e, [en EXCEPT !.preparing = FALSE])

Init ==
    /\ entries = [k \in Keys |-> None]
    /\ heap = [e \in EntryIds |-> NewEntry]
    /\ fresh = EntryIds
    /\ activeCount = 0
    /\ pc = [c \in Calls |-> "idle"]
    /\ key \in [Calls -> Keys]
    /\ entry = [c \in Calls |-> None]
    /\ steerable \in [Calls -> BOOLEAN]
    /\ joinable \in [Calls -> BOOLEAN]
    /\ granted = {}
    /\ owner = [c \in Calls |-> FALSE]
    /\ generation = [c \in Calls |-> 0]
    /\ cancelled = {}
    /\ drained = [c \in Calls |-> <<>>]
    /\ returned = [c \in Calls |-> <<>>]
    /\ stopPc = [s \in Stoppers |-> "idle"]
    /\ stopKey \in [Stoppers -> Keys]
    /\ stopEntry = [s \in Stoppers |-> None]

-----------------------------------------------------------------------------
(* Admit *)

(* acquireEntry, under t.mu. *)
Arrive(c) ==
    /\ pc[c] = "idle"
    /\ \E e \in EntryIds :
        /\ IF entries[key[c]] = None THEN e \in fresh ELSE e = entries[key[c]]
        /\ entries' = [entries EXCEPT ![key[c]] = e]
        /\ fresh' = fresh \ {e}
        /\ heap' = [heap EXCEPT ![e].references = @ + 1]
        /\ entry' = [entry EXCEPT ![c] = e]
    /\ pc' = [pc EXCEPT ![c] = "acquired"]
    /\ UNCHANGED <<inputVars, activeCount, granted, owner, generation,
                   cancelled, readVars, stopVars>>

(* The waiter joins the queue and may be granted at once. *)
Enqueue(c) ==
    /\ pc[c] = "acquired"
    /\ LET en == heap[entry[c]] IN
       StoreAndGrant(entry[c], [en EXCEPT !.waiters = Append(@, c)])
    /\ pc' = [pc EXCEPT ![c] = "waiting"]
    /\ UNCHANGED <<inputVars, entries, fresh, activeCount, entry, owner,
                   generation, cancelled, readVars, stopVars>>

(***************************************************************************)
(* The caller's context is cancelled: a surface that went away.  Admit     *)
(* looks at it only while it waits and after it is granted.                *)
(***************************************************************************)
Cancel(c) ==
    /\ pc[c] = "waiting"
    /\ c \notin cancelled
    /\ cancelled' = cancelled \cup {c}
    /\ UNCHANGED <<inputVars, entryVars, pc, entry, granted, owner,
                   generation, readVars, stopVars>>

(* Defect: a waiter leaves the queue and does not wake the next one. *)
GiveUpSilently(c) ==
    /\ pc[c] = "waiting"
    /\ c \in cancelled
    /\ c \notin granted
    /\ heap' = [heap EXCEPT ![entry[c]].waiters = SelectSeq(@, LAMBDA d : d # c)]
    /\ pc' = [pc EXCEPT ![c] = "leaving"]
    /\ UNCHANGED <<inputVars, entries, fresh, activeCount, entry, granted,
                   owner, generation, cancelled, readVars, stopVars>>

(* ctx.Done while the waiter is queued. *)
GiveUpWaiting(c) ==
    /\ pc[c] = "waiting"
    /\ c \in cancelled
    /\ c \notin granted
    /\ LET en == heap[entry[c]] IN
       \E i \in 1..Len(en.waiters) :
          /\ en.waiters[i] = c
          /\ StoreAndGrant(entry[c], [en EXCEPT !.waiters = RemoveAt(@, i)])
    /\ pc' = [pc EXCEPT ![c] = "leaving"]
    /\ UNCHANGED <<inputVars, entries, fresh, activeCount, entry, owner,
                   generation, cancelled, readVars, stopVars>>

(* ctx.Done won the select against a grant, or ctx.Err after it. *)
GiveUpGrant(c) ==
    /\ pc[c] = "waiting"
    /\ c \in cancelled
    /\ c \in granted
    /\ FinishPreparation(entry[c], heap[entry[c]])
    /\ pc' = [pc EXCEPT ![c] = "leaving"]
    /\ UNCHANGED <<inputVars, entries, fresh, activeCount, entry, owner,
                   generation, cancelled, readVars, stopVars>>

(* owner := entry.active == nil, read under entry.mu and used after it. *)
DecideOwner(c) ==
    /\ pc[c] = "waiting"
    /\ c \in granted
    /\ c \notin cancelled
    /\ owner' = [owner EXCEPT ![c] = ~Live(heap[entry[c]])]
    /\ pc' = [pc EXCEPT ![c] = "prepared"]
    /\ UNCHANGED <<inputVars, entryVars, entry, granted, generation,
                   cancelled, readVars, stopVars>>

(* prepare returned an error. *)
PrepareFails(c) ==
    /\ pc[c] = "prepared"
    /\ FinishPreparation(entry[c], heap[entry[c]])
    /\ pc' = [pc EXCEPT ![c] = "leaving"]
    /\ UNCHANGED <<inputVars, entries, fresh, activeCount, entry, owner,
                   generation, cancelled, readVars, stopVars>>

(* The input establishes a new execution. *)
PublishOwner(c) ==
    /\ pc[c] = "prepared"
    /\ owner[c]
    /\ LET en == heap[entry[c]]
           turn == [generation |-> en.next + 1, steerable |-> steerable[c],
                    stopping |-> FALSE, pending |-> <<>>]
       IN /\ FinishPreparation(entry[c],
                [en EXCEPT !.next = @ + 1, !.active = turn])
          /\ generation' = [generation EXCEPT ![c] = en.next + 1]
    /\ activeCount' = activeCount + 1
    /\ pc' = [pc EXCEPT ![c] = "admitted"]
    /\ UNCHANGED <<inputVars, entries, fresh, entry, owner, cancelled,
                   readVars, stopVars>>

(* The input is published to the execution that is running. *)
PublishSteer(c) ==
    /\ pc[c] = "prepared"
    /\ ~owner[c]
    /\ LET en == heap[entry[c]] IN
       FinishPreparation(entry[c],
           [en EXCEPT !.active.pending = Append(@, c)])
    /\ pc' = [pc EXCEPT ![c] = "joining"]
    /\ UNCHANGED <<inputVars, entries, fresh, activeCount, entry, owner,
                   generation, cancelled, readVars, stopVars>>

(* The entry e loses a reference and leaves the map when it is idle. *)
Unreference(k, e) ==
    LET en == [heap[e] EXCEPT !.references = @ - 1] IN
    /\ heap' = [heap EXCEPT ![e] = en]
    /\ entries' = IF Idle(en) /\ entries[k] = e
                  THEN [entries EXCEPT ![k] = None] ELSE entries

(* The deferred releaseEntry of Admit. *)
ReturnFromAdmit(c) ==
    /\ pc[c] \in {"leaving", "admitted", "joining"}
    /\ Unreference(key[c], entry[c])
    /\ pc' = [pc EXCEPT ![c] = CASE pc[c] = "admitted" -> "running"
                                 [] pc[c] = "joining" -> "joined"
                                 [] OTHER -> "refused"]
    /\ UNCHANGED <<inputVars, fresh, activeCount, entry, granted, owner,
                   generation, cancelled, readVars, stopVars>>

-----------------------------------------------------------------------------
(* The owner's execution *)

OwnsTurn(c) == heap[entry[c]].active.generation = generation[c]

(* Pending: drain the inbox of this generation only. *)
Pending(c) ==
    /\ pc[c] = "running"
    /\ OwnsTurn(c)
    /\ heap[entry[c]].active.pending # <<>>
    /\ drained' = [drained EXCEPT ![c] = @ \o heap[entry[c]].active.pending]
    /\ heap' = [heap EXCEPT ![entry[c]].active.pending = <<>>]
    /\ UNCHANGED <<inputVars, entries, fresh, activeCount, callVars,
                   returned, stopVars>>

(* Defect: the turn is closed under an input that is being published. *)
CloseTurnAtOnce(c) ==
    LET en == heap[entry[c]] IN
    /\ OwnsTurn(c)
    /\ StoreAndGrant(entry[c], [en EXCEPT !.active = NoTurn])
    /\ returned' = [returned EXCEPT ![c] = en.active.pending]
    /\ activeCount' = activeCount - 1

(* Defect: the turn is closed and nobody is woken. *)
CloseTurnSilently(c) ==
    /\ ~heap[entry[c]].preparing
    /\ OwnsTurn(c)
    /\ heap' = [heap EXCEPT ![entry[c]].active = NoTurn]
    /\ returned' = [returned EXCEPT ![c] = heap[entry[c]].active.pending]
    /\ activeCount' = activeCount - 1
    /\ UNCHANGED granted

(* Release: close this generation only, once nothing is being prepared. *)
CloseTurn(c) ==
    LET en == heap[entry[c]] IN
    /\ ~en.preparing
    /\ OwnsTurn(c)
    /\ StoreAndGrant(entry[c], [en EXCEPT !.active = NoTurn])
    /\ returned' = [returned EXCEPT ![c] = en.active.pending]
    /\ activeCount' = activeCount - 1

Release(c) ==
    /\ pc[c] = "running"
    /\ CloseTurn(c)
    /\ pc' = [pc EXCEPT ![c] = "released"]
    /\ UNCHANGED <<inputVars, entries, fresh, entry, owner, generation,
                   cancelled, drained, stopVars>>

(* cleanup, under both locks. *)
Cleanup(c) ==
    /\ pc[c] = "released"
    /\ entries' = IF entries[key[c]] = entry[c] /\ Idle(heap[entry[c]])
                  THEN [entries EXCEPT ![key[c]] = None] ELSE entries
    /\ pc' = [pc EXCEPT ![c] = "cleaned"]
    /\ UNCHANGED <<inputVars, heap, fresh, activeCount, entry, granted,
                   owner, generation, cancelled, readVars, stopVars>>

(* The second, deferred Release of turns.run. *)
ReleaseAgain(c) ==
    /\ pc[c] = "cleaned"
    /\ ~heap[entry[c]].preparing
    /\ IF OwnsTurn(c)
       THEN CloseTurn(c)
       ELSE UNCHANGED <<heap, activeCount, granted, returned>>
    /\ pc' = [pc EXCEPT ![c] = "finished"]
    /\ UNCHANGED <<inputVars, entries, fresh, entry, owner, generation,
                   cancelled, drained, stopVars>>

-----------------------------------------------------------------------------
(* Stop *)

(* Defect: a conversation without an entry is not told apart. *)
FindEntryUnchecked(s) ==
    /\ stopPc[s] = "idle"
    /\ stopEntry' = [stopEntry EXCEPT ![s] = entries[stopKey[s]]]
    /\ stopPc' = [stopPc EXCEPT ![s] = "found"]
    /\ UNCHANGED <<inputVars, entryVars, callVars, readVars>>

FindEntry(s) ==
    /\ stopPc[s] = "idle"
    /\ IF entries[stopKey[s]] = None
       THEN /\ stopPc' = [stopPc EXCEPT ![s] = "nothing"]
            /\ UNCHANGED <<heap, stopEntry>>
       ELSE /\ heap' = [heap EXCEPT ![entries[stopKey[s]]].references = @ + 1]
            /\ stopEntry' = [stopEntry EXCEPT ![s] = entries[stopKey[s]]]
            /\ stopPc' = [stopPc EXCEPT ![s] = "found"]
    /\ UNCHANGED <<inputVars, entries, fresh, activeCount, callVars,
                   readVars>>

(* Defect: /stop marks the turn while a steer is being published to it. *)
MarkStoppingAtOnce(s) ==
    LET en == heap[stopEntry[s]] IN
    /\ stopPc[s] = "found"
    /\ IF ~Live(en) \/ en.active.stopping
       THEN /\ stopPc' = [stopPc EXCEPT ![s] = "missed"]
            /\ UNCHANGED heap
       ELSE /\ stopPc' = [stopPc EXCEPT ![s] = "marked"]
            /\ heap' = [heap EXCEPT ![stopEntry[s]].active.stopping = TRUE]
    /\ UNCHANGED <<inputVars, entries, fresh, activeCount, callVars,
                   readVars, stopEntry>>

(* Waits out a preparation, then marks the turn unless it is too late. *)
MarkStopping(s) ==
    LET en == heap[stopEntry[s]] IN
    /\ stopPc[s] = "found"
    /\ ~en.preparing
    /\ IF ~Live(en) \/ en.active.stopping
       THEN /\ stopPc' = [stopPc EXCEPT ![s] = "missed"]
            /\ UNCHANGED heap
       ELSE /\ stopPc' = [stopPc EXCEPT ![s] = "marked"]
            /\ heap' = [heap EXCEPT ![stopEntry[s]].active.stopping = TRUE]
    /\ UNCHANGED <<inputVars, entries, fresh, activeCount, callVars,
                   readVars, stopEntry>>

(* The deferred releaseEntry of Stop. *)
ReturnFromStop(s) ==
    /\ stopPc[s] \in {"missed", "marked"}
    /\ Unreference(stopKey[s], stopEntry[s])
    /\ stopPc' = [stopPc EXCEPT ![s] = IF @ = "marked" THEN "stopped"
                                       ELSE "nothing"]
    /\ UNCHANGED <<inputVars, fresh, activeCount, callVars, readVars,
                   stopEntry>>

-----------------------------------------------------------------------------
(* Every call has returned and every stop has been answered. *)
Quiescent ==
    /\ \A c \in Calls : pc[c] \in {"refused", "joined", "finished"}
    /\ \A s \in Stoppers : stopPc[s] \in {"nothing", "stopped"}

Terminated == Quiescent /\ UNCHANGED vars

Next ==
    \/ \E c \in Calls :
        \/ Arrive(c)       \/ Enqueue(c)      \/ Cancel(c)
        \/ GiveUpWaiting(c) \/ GiveUpGrant(c) \/ DecideOwner(c)
        \/ PrepareFails(c) \/ PublishOwner(c) \/ PublishSteer(c)
        \/ ReturnFromAdmit(c)
        \/ Pending(c)      \/ Release(c)      \/ Cleanup(c)
        \/ ReleaseAgain(c)
    \/ \E s \in Stoppers :
        \/ FindEntry(s) \/ MarkStopping(s) \/ ReturnFromStop(s)
    \/ Terminated

Spec == Init /\ [][Next]_vars

(***************************************************************************)
(* Every goroutine keeps running, and an execution is released in the end: *)
(* the agent loop stops at agent.maxSteps, and turns.run defers Release on *)
(* every path.  Nothing obliges a surface to send or to cancel an input.   *)
(***************************************************************************)
CallProgress(c) ==
    \/ Enqueue(c) \/ GiveUpWaiting(c) \/ GiveUpGrant(c) \/ DecideOwner(c)
    \/ PrepareFails(c) \/ PublishOwner(c) \/ PublishSteer(c)
    \/ ReturnFromAdmit(c) \/ Release(c) \/ Cleanup(c) \/ ReleaseAgain(c)

StopProgress(s) == MarkStopping(s) \/ ReturnFromStop(s)

-----------------------------------------------------------------------------
(* Properties *)

CallStates == {"idle", "acquired", "waiting", "prepared", "admitted",
               "joining", "leaving", "running", "released", "cleaned",
               "refused", "joined", "finished"}

StopStates == {"idle", "found", "missed", "marked", "nothing", "stopped"}

TurnType == [generation : Nat, steerable : BOOLEAN, stopping : BOOLEAN,
             pending : Seq(Calls)]

EntryType == [next : Nat, active : TurnType, preparing : BOOLEAN,
              waiters : Seq(Calls), references : Int]

(* The types of the variables, those of turns.go's structs. *)
TypeOK ==
    /\ entries \in [Keys -> EntryIds \cup {None}]
    /\ heap \in [EntryIds -> EntryType]
    /\ fresh \subseteq EntryIds
    /\ activeCount \in Int
    /\ pc \in [Calls -> CallStates]
    /\ key \in [Calls -> Keys]
    /\ entry \in [Calls -> EntryIds \cup {None}]
    /\ \A c \in Calls : pc[c] # "idle" => entry[c] \in EntryIds
    /\ steerable \in [Calls -> BOOLEAN]
    /\ joinable \in [Calls -> BOOLEAN]
    /\ granted \subseteq Calls
    /\ owner \in [Calls -> BOOLEAN]
    /\ generation \in [Calls -> Nat]
    /\ cancelled \subseteq Calls
    /\ drained \in [Calls -> Seq(Calls)]
    /\ returned \in [Calls -> Seq(Calls)]
    /\ stopPc \in [Stoppers -> StopStates]
    /\ stopKey \in [Stoppers -> Keys]
    /\ stopEntry \in [Stoppers -> EntryIds \cup {None}]
    /\ \A s \in Stoppers :
          stopPc[s] \in {"found", "missed", "marked"} => stopEntry[s] \in EntryIds

(***************************************************************************)
(* A conversation never has two executions, not even when its entry was    *)
(* dropped from the map and allocated again while an earlier caller still  *)
(* held the old one ("preventing a replacement execution from overlap").   *)
(***************************************************************************)
Executing(c) == pc[c] \in {"admitted", "running"}

OneOwner ==
    \A c, d \in Calls :
        Executing(c) /\ Executing(d) /\ key[c] = key[d] => c = d

(***************************************************************************)
(* Every input that joined is in exactly one place, once: the inbox of the *)
(* turn it joined, what that turn's owner drained, or what its Release     *)
(* gave back.  An accepted steer is never dropped or read twice.           *)
(***************************************************************************)
(* Whose sequence input c is in, and where. *)
PlacesIn(box, c) ==
    UNION {{<<o, i>> : i \in {j \in DOMAIN box[o] : box[o][j] = c}} : o \in DOMAIN box}

Given == [o \in Calls |-> drained[o] \o returned[o]]
Inboxes == [e \in EntryIds |-> heap[e].active.pending]

AcceptedOnce ==
    \A c \in Calls :
        LET given == PlacesIn(Given, c)
            inbox == PlacesIn(Inboxes, c)
        IN IF pc[c] \in {"joining", "joined"}
           THEN \E p \in given \cup inbox : \/ given = {p} /\ inbox = {}
                                            \/ given = {} /\ inbox = {p}
           ELSE given = {} /\ inbox = {}

(* Active() counts the executions of every entry, in the map or not. *)
CountsExecutions ==
    activeCount = Cardinality({c \in Calls : Executing(c)})

(***************************************************************************)
(* Entry reclamation: whoever is still inside Admit or Stop, and whoever   *)
(* owns an execution, holds the entry the map has for its key; and once    *)
(* everybody has returned no entry is left behind.                         *)
(***************************************************************************)
HoldsMappedEntry ==
    /\ \A c \in Calls :
          pc[c] \in {"acquired", "waiting", "prepared", "admitted",
                     "joining", "leaving", "running"}
          => entries[key[c]] = entry[c]
    /\ \A s \in Stoppers :
          stopPc[s] \in {"found", "missed", "marked"}
          => entries[stopKey[s]] = stopEntry[s]
    /\ Quiescent => \A k \in Keys : entries[k] = None

(***************************************************************************)
(* An input is published only as the first of a conversation without a     *)
(* turn, or to a turn that is live, steerable and not being stopped: the   *)
(* decision read before prepare cannot go stale.                           *)
(***************************************************************************)
DecisionHolds ==
    \A c \in Calls : pc[c] = "prepared" =>
        IF owner[c] THEN ~Live(heap[entry[c]])
        ELSE /\ Live(heap[entry[c]])
             /\ heap[entry[c]].active.steerable
             /\ ~heap[entry[c]].active.stopping

(***************************************************************************)
(* No wake-up is missed: whenever no lock is held, a waiter that may go    *)
(* ahead has been granted.  Every section that removes a waiter, ends a    *)
(* preparation or closes a turn has to grant the next one itself.          *)
(***************************************************************************)
NobodyForgotten == \A e \in EntryIds : ~CanGrant(heap[e])

(***************************************************************************)
(* Admission is first come, first served: a waiter is granted only when    *)
(* nobody queued before it in the same entry is still waiting.             *)
(***************************************************************************)
FirstCome ==
    \A e \in EntryIds : \A i, j \in 1..Len(heap[e].waiters) :
        i < j /\ heap[e].waiters[j] \in granted' \ granted
        => \/ heap[e].waiters[i] \in granted'
           \/ pc'[heap[e].waiters[i]] = "leaving"

NoOvertaking == [][FirstCome]_vars

(* Nobody waits for ever to be admitted, and no /stop goes unanswered. *)
EventuallyAnswered ==
    /\ \A c \in Calls : (pc[c] = "acquired") ~> (pc[c] \in {"refused", "joined", "finished"})
    /\ \A s \in Stoppers : (stopPc[s] = "found") ~> (stopPc[s] \in {"nothing", "stopped"})

(***************************************************************************)
(* The entries, waiters and generations implement Conversations: the inbox *)
(* and the running execution of a conversation are those of the turn in    *)
(* the entry its key maps to.                                              *)
(***************************************************************************)
Mapped(k) == heap[entries[k]].active
HasTurn(k) == entries[k] # None /\ Live(heap[entries[k]])

FateAt(place) ==
    CASE place = "idle" -> "outside"
      [] place \in {"acquired", "waiting", "prepared"} -> "waiting"
      [] place \in {"leaving", "refused"} -> "refused"
      [] place \in {"admitted", "running"} -> "running"
      [] place \in {"joining", "joined"} -> "joined"
      [] OTHER -> "finished"

Fate == [c \in Calls |-> FateAt(pc[c])]

Running ==
    [k \in Keys |->
       IF HasTurn(k)
       THEN CHOOSE c \in Calls : /\ entry[c] = entries[k]
                                 /\ generation[c] = Mapped(k).generation
       ELSE None]

Taking == {k \in Keys : /\ HasTurn(k)
                        /\ Mapped(k).steerable
                        /\ ~Mapped(k).stopping}

Inbox == [k \in Keys |-> IF HasTurn(k) THEN Mapped(k).pending ELSE <<>>]

Promise == INSTANCE Conversations
             WITH fate <- Fate, running <- Running, taking <- Taking,
                  inbox <- Inbox

ImplementsConversations == Promise!Spec

(***************************************************************************)
(* What an entry owes to those who use it (services/turns.go): nobody who  *)
(* waits is forgotten or overtaken, an accepted steer is in one place,     *)
(* Active() counts the executions, and whoever uses an entry has the one   *)
(* of the map, which is empty when all have left.                          *)
(***************************************************************************)
EntriesSafe ==
    /\ [](NobodyForgotten /\ AcceptedOnce /\ CountsExecutions /\ HoldsMappedEntry)
    /\ NoOvertaking
=============================================================================
