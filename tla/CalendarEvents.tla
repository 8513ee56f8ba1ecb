--------------------------- MODULE CalendarEvents ---------------------------
(***************************************************************************)
(* Eggy's calendar calls on one event that other people also use           *)
(* (internal/google/calendar.go, client.go).                               *)
(*                                                                         *)
(* Google holds the event; guests reply to it and its owner changes it     *)
(* there while a call of Eggy is between its read and its write.  A time   *)
(* is a number, the zone a name beside it; what the guests know is the     *)
(* time they were last told.                                               *)
(***************************************************************************)
EXTENDS Integers, FiniteSets

CONSTANTS Guests,       \* who can be invited, this account among them
          Self,         \* this account
          Calls,        \* calls of the calendar tool
          Shared,       \* the calendars the account can see
          MaxTime,      \* bound: the times the event can have
          MaxReplies,   \* bound: replies, invitations and moves made in Google
          None

VARIABLES event,        \* the event as Google has it, None once deleted
          heard,        \* the time each guest was last told of
          step,         \* where a call is
          seen,         \* what a call has read
          others,       \* changes made in Google so far (bound)
          full,         \* the calendars in which the slot is taken
          unreadable,   \* the calendars that answer with an error
          offered       \* what the free-busy read said: the slot is "free" or "busy"

vars == <<event, heard, step, seen, others, full, unreadable, offered>>

Replies == {"needsAction", "accepted", "declined"}
Times == 0..MaxTime
Lists == {"no"} \cup Replies
Events == [time : Times, zone : {"home", "away"}, guests : [Guests -> Lists]]
Steps == {"idle", "responding", "moving", "zoning", "telling", "done", "failed"}

TypeOK ==
    /\ event \in Events \cup {None}
    /\ heard \in [Guests -> Times]
    /\ step \in [Calls -> Steps]
    /\ seen \in [Calls -> [event : Events \cup {None}, time : Times, zone : {"same", "away"},
                           tell : BOOLEAN]]
    /\ others \in 0..MaxReplies
    /\ full \subseteq Shared /\ unreadable \subseteq Shared
    /\ offered \in {"unknown", "free", "busy"}

Nothing == [event |-> None, time |-> 0, zone |-> "same", tell |-> FALSE]
Invited(e) == {g \in Guests : e.guests[g] # "no"}
Told(e) == [g \in Guests |-> IF g \in Invited(e) THEN e.time ELSE heard[g]]

Init ==
    /\ \E invited \in SUBSET Guests :
          event = [time |-> 0, zone |-> "home",
                   guests |-> [g \in Guests |-> IF g \in invited THEN "needsAction" ELSE "no"]]
    /\ heard = [g \in Guests |-> 0]
    /\ step = [c \in Calls |-> "idle"]
    /\ seen = [c \in Calls |-> Nothing]
    /\ others = 0
    /\ full \in SUBSET Shared /\ unreadable \in SUBSET Shared
    /\ offered = "unknown"

calendarVars == <<full, unreadable, offered>>

Goes(c, from, to) == step[c] = from /\ step' = [step EXCEPT ![c] = to]

----------------------------------------------------------------------------
(* Google, in the hands of other people *)

Reply(g, status) ==
    /\ others < MaxReplies /\ others' = others + 1
    /\ event # None /\ g \in Invited(event) \ {Self}
    /\ event' = [event EXCEPT !.guests[g] = status]
    /\ UNCHANGED <<heard, step, seen, calendarVars>>

\* invited or taken off the list, or the event moved, with the guests told
ChangedInGoogle ==
    /\ others < MaxReplies /\ others' = others + 1
    /\ event # None
    /\ \/ \E g \in Guests \ Invited(event) : event' = [event EXCEPT !.guests[g] = "needsAction"]
       \/ \E g \in Invited(event) : event' = [event EXCEPT !.guests[g] = "no"]
       \/ event.time < MaxTime /\ event' = [event EXCEPT !.time = @ + 1]
    /\ heard' = Told(event')
    /\ UNCHANGED <<step, seen, calendarVars>>

----------------------------------------------------------------------------
(* CalendarRespond *)

\* rawEvent; the account has to be a guest
ReadToRespond(c) ==
    /\ event # None
    /\ IF Self \in Invited(event)
       THEN Goes(c, "idle", "responding") /\ seen' = [seen EXCEPT ![c].event = event]
       ELSE Goes(c, "idle", "failed") /\ UNCHANGED seen
    /\ UNCHANGED <<event, heard, others, calendarVars>>

\* without the replies of the others, Google takes them as not yet given
RepliesLeftOut(list, status) ==
    [g \in Guests |-> IF g = Self THEN status
                      ELSE IF list[g] = "no" THEN "no" ELSE "needsAction"]

\* the list as it was read with its own entry changed
Answered(list, status) == [list EXCEPT ![Self] = status]

PatchReply(c, status) ==
    /\ Goes(c, "responding", "done")
    /\ event # None
    /\ event' = [event EXCEPT !.guests = Answered(seen[c].event.guests, status)]
    /\ heard' = Told(event')
    /\ UNCHANGED <<seen, others, calendarVars>>

----------------------------------------------------------------------------
(* CalendarUpdate *)

\* A zone with no times: both ends are restated as the event has them now
ReadToZone(c) ==
    /\ event # None
    /\ Goes(c, "idle", "telling")
    /\ seen' = [seen EXCEPT ![c].time = event.time, ![c].zone = "away"]
    /\ UNCHANGED <<event, heard, others, calendarVars>>

Move(c) ==
    /\ Goes(c, "idle", "telling")
    /\ \E t \in Times : seen' = [seen EXCEPT ![c].time = t]
    /\ UNCHANGED <<event, heard, others, calendarVars>>

\* no send_updates and no guest list in the call: the event's own list decides
HasGuests(e) == Invited(e) # {}

\* a read that fails counts no guest
CountGuests(c) ==
    /\ Goes(c, "telling", "moving")
    /\ \/ event # None /\ seen' = [seen EXCEPT ![c].tell = HasGuests(event), ![c].event = event]
       \/ seen' = [seen EXCEPT ![c].tell = FALSE, ![c].event = None]
    /\ UNCHANGED <<event, heard, others, calendarVars>>

PatchTime(c) ==
    /\ Goes(c, "moving", "done")
    /\ event # None
    /\ event' = [event EXCEPT !.time = seen[c].time,
                              !.zone = IF seen[c].zone = "away" THEN "away" ELSE @]
    /\ heard' = IF seen[c].tell THEN Told(event') ELSE heard
    /\ UNCHANGED <<seen, others, calendarVars>>

\* a guest list in the call replaces the whole array, addresses only
SetGuests(c, invited) ==
    /\ invited # {}
    /\ Goes(c, "idle", "done")
    /\ event # None
    /\ event' = [event EXCEPT !.guests = [g \in Guests |->
                    IF g \in invited THEN "needsAction" ELSE "no"]]
    /\ heard' = Told(event')
    /\ UNCHANGED <<seen, others, calendarVars>>

\* CalendarDelete tells the guests unless the call says otherwise
Delete(c) ==
    /\ Goes(c, "idle", "done")
    /\ event # None
    /\ event' = None
    /\ UNCHANGED <<heard, seen, others, calendarVars>>

\* CalendarCreate; the guests of the call are told
Create(c, invited) ==
    /\ Goes(c, "idle", "done")
    /\ event = None
    /\ \E t \in Times :
          /\ event' = [time |-> t, zone |-> "home",
                       guests |-> [g \in Guests |-> IF g \in invited THEN "needsAction" ELSE "no"]]
          /\ heard' = Told(event')
    /\ UNCHANGED <<seen, others, calendarVars>>

\* a request that fails, or an event that is gone: the call fails with it
CallFails(c) ==
    /\ step[c] \in {"responding", "moving"}
    /\ step' = [step EXCEPT ![c] = "failed"]
    /\ UNCHANGED <<event, heard, seen, others, calendarVars>>

----------------------------------------------------------------------------
(* CalendarFreeBusy *)

\* the blocks of the calendars that answered; a calendar with an error has none
Blocks(asked) == {k \in asked : k \in full /\ k \notin unreadable}

FreeBusy(c, asked) ==
    /\ asked # {}
    /\ Goes(c, "idle", "done")
    /\ offered' = IF Blocks(asked) = {} THEN "free" ELSE "busy"
    /\ UNCHANGED <<event, heard, seen, others, full, unreadable>>

Next ==
    \/ \E g \in Guests, s \in Replies \ {"needsAction"} : Reply(g, s)
    \/ ChangedInGoogle
    \/ \E c \in Calls :
          \/ ReadToRespond(c) \/ ReadToZone(c) \/ Move(c) \/ CountGuests(c) \/ PatchTime(c)
          \/ Delete(c) \/ CallFails(c)
          \/ \E s \in {"accepted", "declined"} : PatchReply(c, s)
          \/ \E invited \in SUBSET Guests : SetGuests(c, invited) \/ Create(c, invited)
          \/ FreeBusy(c, Shared)

Spec == Init /\ [][Next]_vars

----------------------------------------------------------------------------
(* Properties *)

\* An answer changes its own row only: when the list is as it was read, every
\* other guest stays invited with the reply they gave.
AnswersForItself ==
    \A c \in Calls, s \in Replies :
        (PatchReply(c, s) /\ seen[c].event.guests = event.guests) =>
            \A g \in Guests \ {Self} : event'.guests[g] = event.guests[g]

\* A call that moves the event tells the guests it has, when it could read them
\* and nobody was invited meanwhile.
TellsTheGuests ==
    \A c \in Calls :
        (PatchTime(c) /\ seen[c].event # None /\ Invited(event) = Invited(seen[c].event)) =>
            \A g \in Invited(event') : heard'[g] = event'.time
=============================================================================
