----------------------------- MODULE MCChannels -----------------------------
(***************************************************************************)
(* The outside world, each component by itself in one run: MCP servers,    *)
(* Google, Telegram with its menus, and Discord.  A behaviour is one of    *)
(* the component that focus names; the variables of the others stay as     *)
(* they are (None, or McpServers before it has connected).                 *)
(***************************************************************************)
EXTENDS McpServers, TLC

CONSTANTS
    Issuers, Requests, MaxLogins, MaxMoves,
    Own, Person, Borrowers, GoogleMaxLogins, MaxOuts,
    Guests, Self, Calls, Shared, MaxTime, MaxReplies,
    Photos, Texts, Taps, Questions, QueueSize, MaxLost,
    Members, Users, Lines, Chunks, RoomFor, MaxLinks, MaxWindows,
    Presses, MaxMenus, MaxChanges

VARIABLES
    focus,   \* the component that this behaviour is about
    resource, moves, record, begun, held, seen, requests, landed, dropped,
    expected, googleGrant, googleBegun, outs, mutex, login, borrows,
    connected, googleLanded, sentAs,
    event, heard, step, calendarSeen, others, full, unreadable, offered,
    at, lost, album, timer, fired, inbox, processed, given, telegramDropped,
    asks, shown, late, pending, answered, tapped,
    linked, tokens, links, kinds, denied, windows, lines, waiting, turn,
    began, strangers,
    menus, drawn, opened, opening, presses, redraws, able, approval, changes

L == INSTANCE McpLogin
G == INSTANCE Google
       WITH MaxLogins <- GoogleMaxLogins, grant <- googleGrant,
            begun <- googleBegun, landed <- googleLanded
E == INSTANCE CalendarEvents
       WITH seen <- calendarSeen
T == INSTANCE Telegram
       WITH dropped <- telegramDropped
D == INSTANCE Discord
U == INSTANCE Menus

\* None stands for nothing: it is no issuer, account, question, or menu; the
\* updates of an album are no taps; a mutex is free, or a login's, or a call's.
ASSUME LoginAssumption ==
    /\ None \notin Issuers
    /\ MaxLogins \in Nat /\ MaxMoves \in Nat
ASSUME GoogleAssumption ==
    /\ None \notin {Own, Person}
    /\ Borrowers \cap {"free", "login"} = {}
    /\ GoogleMaxLogins \in Nat /\ MaxOuts \in Nat
ASSUME CalendarAssumption == MaxTime \in Nat /\ MaxReplies \in Nat
ASSUME TelegramAssumption ==
    /\ None \notin Questions
    /\ Taps \cap (Photos \cup Texts) = {}
    /\ QueueSize \in Nat /\ MaxLost \in Nat
ASSUME DiscordAssumption ==
    /\ None \notin Users
    /\ Chunks \in Nat /\ RoomFor \in Nat
    /\ MaxLinks \in Nat /\ MaxWindows \in Nat
ASSUME MenusAssumption ==
    /\ None \notin [message : Nat, kind : U!Kinds, fresh : BOOLEAN]
    /\ MaxMenus \in Nat /\ MaxChanges \in Nat

serversVars == <<session, status, reload, tools, protected, failures,
                 cooldown, grant, repairing, minted, open, early, pc, kind,
                 found, outcome, snapshot, ungated, calling, approved,
                 calls>>
loginVars == <<resource, moves, record, begun, held, seen, requests, landed,
               dropped>>
googleVars == <<expected, googleGrant, googleBegun, outs, mutex, login,
                borrows, connected, googleLanded, sentAs>>
calendarVars == <<event, heard, step, calendarSeen, others, full,
                  unreadable, offered>>
telegramVars == <<at, lost, album, timer, fired, inbox, processed, given,
                  telegramDropped, asks, shown, late, pending, answered,
                  tapped>>
discordVars == <<linked, tokens, links, kinds, denied, windows, lines,
                 waiting, turn, began, strangers>>
menusVars == <<menus, drawn, opened, opening, presses, redraws, able,
               approval, changes>>

ServersAtRest ==
    /\ Init /\ grant = FALSE
NoLogin ==
    /\ resource = None /\ moves = None /\ record = None /\ begun = None
    /\ held = None /\ seen = None /\ requests = None /\ landed = None
    /\ dropped = None
NoGoogle ==
    /\ expected = None /\ googleGrant = None /\ googleBegun = None
    /\ outs = None /\ mutex = None /\ login = None /\ borrows = None
    /\ connected = None /\ googleLanded = None /\ sentAs = None
NoCalendar ==
    /\ event = None /\ heard = None /\ step = None /\ calendarSeen = None
    /\ others = None /\ full = None /\ unreadable = None /\ offered = None
NoTelegram ==
    /\ at = None /\ lost = None /\ album = None /\ timer = None
    /\ fired = None /\ inbox = None /\ processed = None /\ given = None
    /\ telegramDropped = None /\ asks = None /\ shown = None /\ late = None
    /\ pending = None /\ answered = None /\ tapped = None
NoDiscord ==
    /\ linked = None /\ tokens = None /\ links = None /\ kinds = None
    /\ denied = None /\ windows = None /\ lines = None /\ waiting = None
    /\ turn = None /\ began = None /\ strangers = None
NoMenus ==
    /\ menus = None /\ drawn = None /\ opened = None /\ opening = None
    /\ presses = None /\ redraws = None /\ able = None /\ approval = None
    /\ changes = None

SumInit ==
    \/ /\ focus = "servers" /\ Init
       /\ NoLogin /\ NoGoogle /\ NoCalendar /\ NoTelegram /\ NoDiscord
       /\ NoMenus
    \/ /\ focus = "login" /\ L!Init
       /\ ServersAtRest /\ NoGoogle /\ NoCalendar /\ NoTelegram
       /\ NoDiscord /\ NoMenus
    \/ /\ focus = "google" /\ G!Init
       /\ ServersAtRest /\ NoLogin /\ NoCalendar /\ NoTelegram
       /\ NoDiscord /\ NoMenus
    \/ /\ focus = "calendar" /\ E!Init
       /\ ServersAtRest /\ NoLogin /\ NoGoogle /\ NoTelegram
       /\ NoDiscord /\ NoMenus
    \/ /\ focus = "telegram" /\ T!Init
       /\ ServersAtRest /\ NoLogin /\ NoGoogle /\ NoCalendar
       /\ NoDiscord /\ NoMenus
    \/ /\ focus = "discord" /\ D!Init
       /\ ServersAtRest /\ NoLogin /\ NoGoogle /\ NoCalendar
       /\ NoTelegram /\ NoMenus
    \/ /\ focus = "menus" /\ U!Init
       /\ ServersAtRest /\ NoLogin /\ NoGoogle /\ NoCalendar
       /\ NoTelegram /\ NoDiscord

ServersStep ==
    /\ focus = "servers" /\ Next
    /\ UNCHANGED <<focus, loginVars, googleVars, calendarVars, telegramVars,
                   discordVars, menusVars>>
LoginStep ==
    /\ focus = "login" /\ L!Next
    /\ UNCHANGED <<focus, serversVars, googleVars, calendarVars,
                   telegramVars, discordVars, menusVars>>
GoogleStep ==
    /\ focus = "google" /\ G!Next
    /\ UNCHANGED <<focus, serversVars, loginVars, calendarVars,
                   telegramVars, discordVars, menusVars>>
CalendarStep ==
    /\ focus = "calendar" /\ E!Next
    /\ UNCHANGED <<focus, serversVars, loginVars, googleVars, telegramVars,
                   discordVars, menusVars>>
TelegramStep ==
    /\ focus = "telegram" /\ T!Next
    /\ UNCHANGED <<focus, serversVars, loginVars, googleVars, calendarVars,
                   discordVars, menusVars>>
DiscordStep ==
    /\ focus = "discord" /\ D!Next
    /\ UNCHANGED <<focus, serversVars, loginVars, googleVars, calendarVars,
                   telegramVars, menusVars>>
MenusStep ==
    /\ focus = "menus" /\ U!Next
    /\ UNCHANGED <<focus, serversVars, loginVars, googleVars, calendarVars,
                   telegramVars, discordVars>>

SumNext ==
    \/ ServersStep
    \/ LoginStep
    \/ GoogleStep
    \/ CalendarStep
    \/ TelegramStep
    \/ DiscordStep
    \/ MenusStep

sumVars == <<focus, serversVars, loginVars, googleVars, calendarVars,
             telegramVars, discordVars, menusVars>>

SumSpec == SumInit /\ [][SumNext]_sumVars

Symmetry == Permutations(Repairs) \cup Permutations(Turns)

\* Photos that are late and questions that wait have nothing to do with each
\* other: a behaviour has one or the other.
PhotosOrQuestions ==
    focus = "telegram" => \/ \A p \in Photos : at[p] = "held"
                          \/ \A q \in Questions : asks[q] = "none"

\* Every variable of the component at hand keeps its type.
SumTypeOK ==
    /\ focus = "servers" => TypeOK
    /\ focus = "login" => L!TypeOK
    /\ focus = "google" => G!TypeOK
    /\ focus = "calendar" => E!TypeOK
    /\ focus = "telegram" => T!TypeOK
    /\ focus = "discord" => D!TypeOK
    /\ focus = "menus" => U!TypeOK

-----------------------------------------------------------------------------
\* The client a login is started with is the one that its authorization
\* server has registered, and a login is finished once (mcp oauth.go).
LoginsSafe == focus = "login" => L!ClientIsIssuers /\ L!SpentOnce

\* An exchange in progress never lands its tokens over a disconnect, and
\* the number of the connection, to which approvals are bound, goes up
\* whenever it is replaced or dropped (google oauth.go).
GrantSafe ==
    /\ [](focus = "google" => G!NoLateLogin)
    /\ [][focus = "google" => G!NumberGoesUp]_sumVars

\* An answer to an invitation changes nobody else's answer, and the guests
\* hear of a move (calendar.go).
GuestsSafe ==
    [][focus = "calendar" => E!AnswersForItself /\ E!TellsTheGuests]_sumVars

\* A question is answered once, however often its buttons are pressed or a
\* tap is delivered, it waits until then whatever other calls fail, and an
\* open album is on its way out (telegram select.go, album.go).
TelegramSafe ==
    focus = "telegram" => T!AnsweredOnce /\ T!QuestionKept /\ T!AlbumEnds

\* Nothing is sent into a direct message of a user who is not, then, the
\* account's own, and no direct message is remembered as something else
\* (discord channel.go, handler.go).
DiscordSafe == focus = "discord" => D!OnlyItsOwner /\ D!NobodyIsShutOut

\* A drawn menu is spent by one tap, however many are handled at once, and
\* the auto mode is set only from the menu that warns of it (telegram
\* control.go, commands menu.go).
MenusSafe == focus = "menus" => U!OneRedraw /\ U!AutoWasConfirmed

=============================================================================
