------------------------------ MODULE Telegram ------------------------------
(***************************************************************************)
(* What one person's private chat sends to Eggy (channel/telegram): the    *)
(* webhook, which Telegram calls again until it is answered with a 2xx,    *)
(* the albums it gathers (album.go), and the questions asked with buttons  *)
(* (select.go). Several webhook requests are served at once; what they     *)
(* lead to is put in the bounded queue of the daemon, whose events are     *)
(* handled once each by their id.                                          *)
(*                                                                         *)
(* One photo album, any text and any taps on the buttons. A message is     *)
(* known by its update; what it says is left out.                          *)
(***************************************************************************)
EXTENDS Naturals, Sequences, FiniteSets

CONSTANTS Photos,      \* updates: the items of one album
          Texts,       \* updates: plain messages
          Taps,        \* updates: taps on the buttons of a question
          Questions,   \* calls of telegram_select
          QueueSize,   \* room in the daemon's queue
          MaxLost,     \* bound: answers of the webhook lost on their way
          None

Updates == Photos \cup Texts \cup Taps

VARIABLES at,        \* [Updates -> where the webhook request of the update is]
          lost,      \* answers lost so far
          album,     \* the album still open: None or [id, parts]
          timer,     \* whether the quiet window of the album is running
          fired,     \* flushes started by a window, waiting for albumMu
          inbox,     \* the event queue
          processed, \* ids of the events that were handled
          given,     \* history: messages that reached a turn
          dropped,   \* history: photos Eggy gave up on: unreadable, or a full queue
          asks,      \* [Questions -> where its tool call is]
          shown,     \* questions that stand in the chat
          late,      \* questions whose ten minutes are over
          pending,   \* the question that waits for its answer, or None
          answered,  \* history: questions a tap took
          tapped     \* [Taps -> the question it answers, or None]

vars == <<at, lost, album, timer, fired, inbox, processed, given, dropped,
          asks, shown, late, pending, answered, tapped>>
albums == <<album, timer, fired>>
questions == <<asks, shown, late, pending, answered>>
events == <<inbox, processed, given>>

Init ==
    /\ at = [u \in Updates |-> "held"] /\ lost = 0
    /\ album = None /\ timer = FALSE /\ fired = 0
    /\ inbox = << >> /\ processed = {} /\ given = << >> /\ dropped = {}
    /\ asks = [q \in Questions |-> "none"] /\ shown = {} /\ late = {}
    /\ pending = None /\ answered = {} /\ tapped = [u \in Taps |-> None]

(******************************* the webhook *******************************)
\* Telegram calls. A tap can only be on a question that is in the chat.
Arrive(u) ==
    /\ at[u] = "held"
    /\ at' = [at EXCEPT ![u] = "arrived"]
    /\ \/ u \in Taps /\ tapped[u] = None
          /\ \E q \in shown: tapped' = [tapped EXCEPT ![u] = q]
       \/ (u \in Taps => tapped[u] # None) /\ UNCHANGED tapped
    /\ UNCHANGED <<lost, albums, events, dropped, questions>>

\* Enqueue does not wait: a full queue is an error.
Enqueued(event) == Len(inbox) < QueueSize /\ inbox' = Append(inbox, event)

\* What is put in the queue is acknowledged; what is not is a 500.
Sink(u, event) ==
    \/ Enqueued(event) /\ at' = [at EXCEPT ![u] = "acked"]
    \/ Len(inbox) = QueueSize /\ at' = [at EXCEPT ![u] = "failed"] /\ UNCHANGED inbox

Say(u) ==
    /\ u \in Texts /\ at[u] = "arrived"
    /\ Sink(u, [id |-> u, parts |-> <<u>>])
    /\ UNCHANGED <<lost, albums, processed, given, dropped, questions, tapped>>

\* The file is fetched: one of the types Eggy reads, within its size.
Download(u) ==
    /\ u \in Photos /\ at[u] = "arrived"
    /\ at' = [at EXCEPT ![u] = "read"]
    /\ UNCHANGED <<lost, albums, events, dropped, questions, tapped>>

\* One that cannot be read is answered in the chat, and acknowledged.
Unreadable(u) ==
    /\ u \in Photos /\ at[u] = "arrived"
    /\ at' = [at EXCEPT ![u] = "acked"] /\ dropped' = dropped \cup {u}
    /\ UNCHANGED <<lost, albums, events, questions, tapped>>

\* The 2xx arrives, or Telegram calls again.
Acknowledge(u) ==
    /\ at[u] = "acked"
    /\ \/ at' = [at EXCEPT ![u] = "done"] /\ UNCHANGED lost
       \/ lost < MaxLost /\ lost' = lost + 1 /\ at' = [at EXCEPT ![u] = "held"]
    /\ UNCHANGED <<albums, events, dropped, questions, tapped>>

Retry(u) ==
    /\ at[u] = "failed"
    /\ at' = [at EXCEPT ![u] = "held"]
    /\ UNCHANGED <<lost, albums, events, dropped, questions, tapped>>

(******************************** the album ********************************)
\* The first item of an album gives it its id; the others bring their file.
Gathered(u) ==
    IF album = None THEN [id |-> u, parts |-> <<u>>]
    ELSE [album EXCEPT !.parts = Append(album.parts, u)]

AddToAlbum(u) ==
    /\ u \in Photos /\ at[u] = "read"
    /\ album' = Gathered(u)
    /\ timer' = TRUE
    /\ at' = [at EXCEPT ![u] = "acked"]
    /\ UNCHANGED <<lost, fired, events, dropped, questions, tapped>>

WindowEnds ==
    /\ timer
    /\ timer' = FALSE /\ fired' = fired + 1
    /\ UNCHANGED <<at, lost, album, events, dropped, questions, tapped>>

\* A flush may find what a later item added, or nothing.
FlushAlbum ==
    /\ fired > 0
    /\ fired' = fired - 1
    /\ album' = None
    /\ \/ album = None /\ UNCHANGED <<inbox, dropped>>
       \/ album # None /\ Enqueued(album) /\ UNCHANGED dropped
       \/ /\ album # None /\ Len(inbox) = QueueSize
          /\ dropped' = dropped \cup {album.parts[i]: i \in DOMAIN album.parts}
          /\ UNCHANGED inbox
    /\ UNCHANGED <<at, lost, timer, processed, given, questions, tapped>>

(******************************* the daemon ********************************)
Handle ==
    /\ inbox # << >>
    /\ inbox' = Tail(inbox)
    /\ LET event == Head(inbox)
       IN  /\ processed' = processed \cup {event.id}
           /\ given' = IF event.id \in processed THEN given ELSE given \o event.parts
    /\ UNCHANGED <<at, lost, albums, dropped, questions, tapped>>

(****************************** the questions ******************************)
\* The sweep of every call: a question past its time is forgotten.
Waiting == IF pending \in late THEN None ELSE pending

\* One question at a time: the call of a second one is an error.
Ask(q) ==
    /\ asks[q] = "none"
    /\ IF Waiting = None
       THEN asks' = [asks EXCEPT ![q] = "sending"] /\ pending' = q
       ELSE asks' = [asks EXCEPT ![q] = "refused"] /\ pending' = Waiting
    /\ UNCHANGED <<at, lost, albums, events, dropped, shown, late, answered, tapped>>

\* Telegram has shown it, whatever becomes of the answer to the call.
Show(q) ==
    /\ asks[q] = "sending" /\ q \notin shown
    /\ shown' = shown \cup {q}
    /\ UNCHANGED <<at, lost, albums, events, dropped, asks, late, pending, answered, tapped>>

Withdrawn(q) == IF pending = q THEN None ELSE pending

Asked(q) ==
    /\ asks[q] = "sending"
    /\ \/ q \in shown /\ asks' = [asks EXCEPT ![q] = "asked"] /\ UNCHANGED pending
       \/ asks' = [asks EXCEPT ![q] = "failed"] /\ pending' = Withdrawn(q)
    /\ UNCHANGED <<at, lost, albums, events, dropped, shown, late, answered, tapped>>

Expire(q) ==
    /\ asks[q] = "asked" /\ q \notin late
    /\ late' = late \cup {q}
    /\ UNCHANGED <<at, lost, albums, events, dropped, asks, shown, pending, answered, tapped>>

StillPending == Waiting

Consumed == None

\* A tap takes the question, then its choice goes to the queue. A tap on a
\* question that is not the one waiting, or a choice that reads as a command,
\* is acknowledged and leads to nothing.
Resolve(u) ==
    /\ u \in Taps /\ at[u] = "arrived"
    /\ IF Waiting # tapped[u]
       THEN pending' = Waiting /\ at' = [at EXCEPT ![u] = "acked"] /\ UNCHANGED answered
       ELSE /\ pending' = Consumed /\ at' = [at EXCEPT ![u] = "chosen"]
            /\ answered' = answered \cup {tapped[u]}
    /\ UNCHANGED <<lost, albums, events, dropped, asks, shown, late, tapped>>

Choose(u) ==
    /\ u \in Taps /\ at[u] = "chosen"
    /\ \/ Sink(u, [id |-> u, parts |-> <<u>>])
       \/ at' = [at EXCEPT ![u] = "acked"] /\ UNCHANGED inbox      \* a command
    /\ UNCHANGED <<lost, albums, processed, given, dropped, questions, tapped>>

Next ==
    \/ \E u \in Updates: \/ Arrive(u) \/ Say(u) \/ Download(u) \/ Unreadable(u) \/ Acknowledge(u) \/ Retry(u)
                         \/ AddToAlbum(u) \/ Resolve(u) \/ Choose(u)
    \/ WindowEnds \/ FlushAlbum \/ Handle
    \/ \E q \in Questions: Ask(q) \/ Show(q) \/ Asked(q) \/ Expire(q)

Spec == Init /\ [][Next]_vars

(******************************* properties ********************************)
Parts(event) == {event.parts[i]: i \in DOMAIN event.parts}
Reached == {given[i]: i \in DOMAIN given}

TypeOK ==
    /\ at \in [Updates -> {"held", "arrived", "read", "chosen", "failed", "acked", "done"}]
    /\ lost \in 0..MaxLost /\ fired \in Nat /\ timer \in BOOLEAN
    /\ album = None \/ (album.id \in Photos /\ Parts(album) \subseteq Photos)
    /\ Len(inbox) <= QueueSize /\ processed \subseteq Updates /\ Reached \subseteq Updates
    /\ dropped \subseteq Photos
    /\ asks \in [Questions -> {"none", "sending", "asked", "failed", "refused"}]
    /\ shown \subseteq Questions /\ late \subseteq shown
    /\ pending \in Questions \cup {None} /\ answered \subseteq shown /\ tapped \in [Taps -> Questions \cup {None}]

\* An album that is open is on its way out: its window runs, or a flush that
\* the window started waits for the lock.
AlbumEnds == album # None => timer \/ fired > 0

\* A question that stands in the chat and is neither answered nor too old is
\* the one that waits: no other call's failure took it away.
QuestionKept == \A q \in Questions: asks[q] = "asked" /\ q \notin late \cup answered => pending = q

\* A question is answered once, however often its buttons are pressed and
\* however often Telegram delivers the tap.
AnsweredOnce ==
    \A q \in Questions:
        Cardinality({i \in DOMAIN given: given[i] \in Taps /\ tapped[given[i]] = q}) <= 1
=============================================================================
