------------------------------ MODULE WebChat ------------------------------
(***************************************************************************)
(* The web chat of one account: the hub that sends a turn's events to the  *)
(* open streams (channel/webchat), the handlers of a thread and its stream *)
(* (panel/chat.go, panel/session.go), the turn's side of it (bootstrap's   *)
(* presenter and routed channel), and the pane the browser makes of events *)
(* and history (website/src/chat/ChatPage.tsx).                            *)
(***************************************************************************)
EXTENDS Naturals, Sequences, SequencesExt

CONSTANTS
    None,
    Tabs,          \* browsers, each with a session of its own
    Threads,
    Texts,         \* what the owner types
    Commands,      \* those of them that are commands
    BufferSize,    \* connectionBuffer
    MaxSends,      \* bound on messages
    MaxStreams     \* bound on streams opened

\* The texts and the size of a buffer are what they are called.
WebChatAssumption == BufferSize \in Nat /\ Commands \subseteq Texts

VARIABLES
    live,      \* tabs whose session has a row
    closing,   \* a revocation has removed rows, CloseAccount is next
    stream,    \* tab -> its stream: pc, thread, registered, channel, buffer
    panicked,  \* a closed channel was closed or sent to
    record,    \* thread -> recorded rows
    turn,      \* the turn that runs: thread, text, pc; or None
    pane,      \* tab -> thread, history, pending sends, typing
    fetches,   \* history requests: tab, thread, rows or None
    leaked,    \* an event from after a revocation reached its tab
    sends, streams

webChatVars ==
    <<live, closing, stream, panicked, record, turn, pane, fetches, leaked, sends, streams>>

NoStream == [pc |-> "none", thread |-> None, registered |-> FALSE, open |-> FALSE, buffer |-> <<>>]
Pane(h) == [thread |-> h, history |-> <<>>, pending |-> <<>>, typing |-> FALSE]

Init ==
    /\ live = Tabs /\ closing = FALSE /\ panicked = FALSE /\ leaked = FALSE
    /\ stream = [t \in Tabs |-> NoStream]
    /\ record = [h \in Threads |-> <<>>] /\ turn = None
    /\ pane \in [Tabs -> {Pane(h) : h \in Threads}]
    /\ fetches = {} /\ sends = 0 /\ streams = 0

Request(t) == [tab |-> t, thread |-> pane[t].thread, rows |-> None]

-----------------------------------------------------------------------------
(* The hub                                                                 *)

(* The connection is the map's until somebody has taken it out.            *)
StillRegistered(s) == s.registered

Gone(s) == [s EXCEPT !.registered = FALSE, !.open = FALSE]

(* The end of a stream's handler.                                          *)
Unregister(t) ==
    /\ panicked' = (panicked \/ (StillRegistered(stream[t]) /\ ~stream[t].open))
    /\ stream' = [stream EXCEPT ![t] = NoStream]

CloseAccount ==
    /\ closing /\ closing' = FALSE
    /\ stream' = [t \in Tabs |-> IF stream[t].registered THEN Gone(stream[t]) ELSE stream[t]]
    /\ UNCHANGED <<live, panicked, record, turn, pane, fetches, leaked, sends, streams>>

(* A full buffer drops the event, for that connection.                     *)
Offered(t, event) ==
    LET s == stream[t] IN
    IF s.registered /\ s.thread = turn.thread /\ Len(s.buffer) < BufferSize
    THEN [s EXCEPT !.buffer = Append(@, [event EXCEPT !.late = t \notin live /\ ~closing])]
    ELSE s

Broadcast(kind, text) ==
    stream' = [t \in Tabs |-> Offered(t, [kind |-> kind, text |-> text, late |-> FALSE])]

-----------------------------------------------------------------------------
(* Sessions                                                                *)

(* Logout takes one session, a reset or a removal takes them all; either   *)
(* closes the account's streams next.                                      *)
Revoke ==
    /\ ~closing
    /\ \E out \in {{t} : t \in live} \cup {live} :
         out # {} /\ live' = live \ out
    /\ closing' = TRUE
    /\ UNCHANGED <<stream, panicked, record, turn, pane, fetches, leaked, sends, streams>>

-----------------------------------------------------------------------------
(* The stream's handler                                                    *)

(* The guard has let the request in.                                       *)
Connect(t) ==
    /\ stream[t].pc = "none" /\ t \in live /\ streams < MaxStreams
    /\ stream' = [stream EXCEPT ![t].pc = "asked", ![t].thread = pane[t].thread]
    /\ streams' = streams + 1
    /\ UNCHANGED <<live, closing, panicked, record, turn, pane, fetches, leaked, sends>>

(* The headers are flushed, and the browser has an open stream.            *)
Flush(t) ==
    /\ stream[t].pc = "asked"
    /\ stream' = [stream EXCEPT ![t].pc = "flushed"]
    /\ fetches' = fetches \cup {Request(t)}
    /\ UNCHANGED <<live, closing, panicked, record, turn, pane, leaked, sends, streams>>

Register(t) ==
    /\ stream[t].pc = "flushed"
    /\ stream' = [stream EXCEPT ![t].pc = "open", ![t].registered = TRUE, ![t].open = TRUE]
    /\ UNCHANGED <<live, closing, panicked, record, turn, pane, fetches, leaked, sends, streams>>

(* Faulty: the keepalive only keeps the connection alive.                  *)
AssumedValid(t) == TRUE

Revalidate(t) == t \in live

(* The keepalive of a session that is gone, and a browser that has left.   *)
Keepalive(t) ==
    /\ stream[t].pc = "open" /\ ~Revalidate(t)
    /\ Unregister(t)
    /\ UNCHANGED <<live, closing, record, turn, pane, fetches, leaked, sends, streams>>

Leaves(t) ==
    /\ stream[t].pc = "open"
    /\ Unregister(t)
    /\ UNCHANGED <<live, closing, record, turn, pane, fetches, leaked, sends, streams>>

SeesClosed(t) ==
    /\ stream[t].pc = "open" /\ ~stream[t].open /\ stream[t].buffer = <<>>
    /\ Unregister(t)
    /\ UNCHANGED <<live, closing, record, turn, pane, fetches, leaked, sends, streams>>

(* The next event, written out and drawn.                                  *)
Drawn(p, e) ==
    CASE e.kind = "typing" -> [p EXCEPT !.typing = TRUE]
      [] e.kind = "message" ->
           [p EXCEPT !.typing = FALSE,
                     !.history = Append(@, [role |-> "assistant", text |-> e.text])]

Take(t) ==
    /\ stream[t].pc = "open" /\ stream[t].buffer # <<>>
    /\ LET e == Head(stream[t].buffer) IN
         /\ pane' = [pane EXCEPT ![t] = Drawn(@, e)]
         /\ fetches' = IF e.kind = "message" THEN fetches \cup {Request(t)} ELSE fetches
         /\ leaked' = (leaked \/ e.late)
    /\ stream' = [stream EXCEPT ![t].buffer = Tail(@)]
    /\ UNCHANGED <<live, closing, panicked, record, turn, sends, streams>>

-----------------------------------------------------------------------------
(* The pane                                                                *)

(* Another thread is opened: the effect of the old one closes its stream.  *)
Switch(t) ==
    /\ stream[t].pc = "open"
    /\ \E h \in Threads \ {pane[t].thread} :
         /\ pane' = [pane EXCEPT ![t] = Pane(h)]
         /\ fetches' = fetches \cup {[tab |-> t, thread |-> h, rows |-> None]}
    /\ Unregister(t)
    /\ UNCHANGED <<live, closing, record, turn, leaked, sends, streams>>

HistoryHandler ==
    \E f \in fetches :
        /\ f.rows = None /\ f.tab \in live
        /\ fetches' = (fetches \ {f}) \cup {[f EXCEPT !.rows = record[f.thread]]}
        /\ UNCHANGED <<live, closing, stream, panicked, record, turn, pane, leaked, sends, streams>>

(* The answer replaces the history, of whatever thread the pane is on.     *)
LoadHistory ==
    \E f \in fetches :
        /\ f.rows # None
        /\ pane' = [pane EXCEPT ![f.tab].history = f.rows,
                       ![f.tab].pending = SelectSeq(@, LAMBDA x :
                           ~ \E i \in DOMAIN f.rows : f.rows[i] = [role |-> "user", text |-> x])]
        /\ fetches' = fetches \ {f}
        /\ UNCHANGED <<live, closing, stream, panicked, record, turn, leaked, sends, streams>>

HandleSend(t) ==
    /\ t \in live /\ turn = None /\ sends < MaxSends
    /\ \E x \in Texts :
         /\ pane' = [pane EXCEPT ![t].pending = Append(@, x)]
         /\ turn' = [thread |-> pane[t].thread, text |-> x, pc |-> "accepted"]
    /\ sends' = sends + 1
    /\ UNCHANGED <<live, closing, stream, panicked, record, fetches, leaked, streams>>

-----------------------------------------------------------------------------
(* The turn                                                                *)

At(pc) == turn # None /\ turn.pc = pc

(* A command is answered, and nothing is recorded.                         *)
Command ==
    /\ At("accepted") /\ turn.text \in Commands
    /\ Broadcast("message", turn.text)
    /\ turn' = [turn EXCEPT !.pc = "delivered"]
    /\ UNCHANGED <<live, closing, panicked, record, pane, fetches, leaked, sends, streams>>

StartTyping ==
    /\ At("accepted") /\ turn.text \notin Commands
    /\ Broadcast("typing", None)
    /\ turn' = [turn EXCEPT !.pc = "running"]
    /\ UNCHANGED <<live, closing, panicked, record, pane, fetches, leaked, sends, streams>>

(* stopTyping waits for the ticker, and the turn goes on after it.         *)
SendTyping ==
    /\ At("running")
    /\ Broadcast("typing", None)
    /\ UNCHANGED <<live, closing, panicked, record, turn, pane, fetches, leaked, sends, streams>>

Record ==
    /\ At("running")
    /\ turn' = [turn EXCEPT !.pc = "recorded"]
    /\ record' = [record EXCEPT ![turn.thread] =
                    @ \o << [role |-> "user", text |-> turn.text],
                            [role |-> "assistant", text |-> turn.text] >>]
    /\ UNCHANGED <<live, closing, stream, panicked, pane, fetches, leaked, sends, streams>>

Deliver ==
    /\ At("recorded")
    /\ Broadcast("message", turn.text)
    /\ turn' = [turn EXCEPT !.pc = "delivered"]
    /\ UNCHANGED <<live, closing, panicked, record, pane, fetches, leaked, sends, streams>>

EndTurn ==
    /\ At("delivered") /\ turn' = None
    /\ UNCHANGED <<live, closing, stream, panicked, record, pane, fetches, leaked, sends, streams>>

-----------------------------------------------------------------------------
Next ==
    \/ CloseAccount \/ Revoke
    \/ \E t \in Tabs :
         \/ Connect(t) \/ Flush(t) \/ Register(t) \/ Keepalive(t) \/ Leaves(t)
         \/ SeesClosed(t) \/ Take(t) \/ Switch(t) \/ HandleSend(t)
    \/ HistoryHandler \/ LoadHistory
    \/ Command \/ StartTyping \/ SendTyping \/ Record \/ Deliver \/ EndTurn

Spec == Init /\ [][Next]_webChatVars

-----------------------------------------------------------------------------
(* Types of the web chat.                                                  *)
TypeOK ==
    /\ live \subseteq Tabs /\ closing \in BOOLEAN
    /\ \A t \in Tabs : Len(stream[t].buffer) <= BufferSize /\ pane[t].thread \in Threads
    /\ \A f \in fetches : f.tab \in Tabs /\ f.thread \in Threads

(* The streams end from two sides, and the process survives it: no channel *)
(* is closed twice, and none that is closed is sent to.                    *)
NoPanic ==
    /\ ~panicked
    /\ \A t \in Tabs : stream[t].registered => stream[t].open

(* A session that was revoked loses its stream, whenever that was opened.  *)
RevokedStreamEnds == \A t \in Tabs : t \notin live ~> stream[t].pc = "none"
=============================================================================
