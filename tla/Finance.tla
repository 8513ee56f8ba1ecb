------------------------------- MODULE Finance -------------------------------
(***************************************************************************)
(* The expense tracker (extensions/finance, storage/sqlite/ext_finance.go  *)
(* and panel/ext_finance.go): the model's tool and the panel write through *)
(* one service, a call of the tool may carry several entries and each is a *)
(* write of its own, and the page of a month is put together from several  *)
(* reads.  One account.  An amount is stated as a number of major units    *)
(* and kept as a count of minor units.                                     *)
(***************************************************************************)
EXTENDS Naturals, FiniteSets, FiniteSetsExt

CONSTANTS
    None,
    Entries,      \* ids, each given once
    Kinds,        \* "expense", "income", "invest", "divest"
    Categories, Colors,
    MaxBatch,     \* entries a call of the tool may carry
    MaxEntryWrites   \* bound on the writes

VARIABLES
    ledger,      \* entry -> what is recorded of it, or None
    given,       \* ids that were given out
    stated,      \* history: the amount last stated for the entry, and in what
    colors,      \* category -> the colour chosen for it, or None
    today,       \* day of the month, in the owner's timezone
    call,        \* the tool's call: what it does, how far it is
    answer,      \* to the last call
    page,        \* the report of the month: what was read so far
    entryWrites

financeVars == <<ledger, given, stated, colors, today, call, answer, page, entryWrites>>

Currencies == {"SGD", "JPY"}
Exponent == [SGD |-> 1, JPY |-> 0]
Days == 1..2
Unread == [at |-> "none", average |-> None, days |-> None, trend |-> None]

Init ==
    /\ ledger = [e \in Entries |-> None] /\ given = {} /\ stated = ledger
    /\ colors = [c \in Categories |-> None]
    /\ today = 1 /\ call = None /\ answer = None /\ page = Unread /\ entryWrites = 0

There == {e \in Entries : ledger[e] # None}

(* ParseAmount: digits only, positive, no more decimals than the currency  *)
(* has; 10 stands for the minor units of one major unit.                   *)
ParseAmount(text, currency) == text * 10 ^ Exponent[currency]

-----------------------------------------------------------------------------
(* The writes of the service, each one transaction                         *)

Written == entryWrites < MaxEntryWrites /\ entryWrites' = entryWrites + 1

Log(e) ==
    /\ e \notin given /\ Written
    /\ \E kind \in Kinds, day \in Days, currency \in Currencies, text \in {1, 2}, c \in Categories :
         /\ ledger' = [ledger EXCEPT ![e] =
              [kind |-> kind, day |-> day, currency |-> currency,
               amount |-> ParseAmount(text, currency), category |-> c]]
         /\ stated' = [stated EXCEPT ![e] = [text |-> text, currency |-> currency]]
    /\ given' = given \cup {e}
    /\ UNCHANGED colors

(* Faulty: the count of minor units is carried across.                     *)
CarriedAcross(e, code, text) == TRUE

(* A new currency needs the amount restated in it.                         *)
Restated(e, code, text) == code # ledger[e].currency => text # 0

(* A patch: what it leaves out (0, None) stays as it is in the row.        *)
Update(e) ==
    /\ e \in There /\ Written
    /\ \E currency \in Currencies \cup {None}, text \in 0..2, day \in {0} \cup Days,
          kind \in Kinds \cup {None} :
         LET row == ledger[e]
             code == IF currency = None THEN row.currency ELSE currency IN
         /\ ~(currency = None /\ text = 0 /\ day = 0 /\ kind = None)
         /\ Restated(e, code, text)
         /\ ledger' = [ledger EXCEPT ![e] =
              [row EXCEPT !.currency = code,
                        !.amount = IF text = 0 THEN @ ELSE ParseAmount(text, code),
                        !.day = IF day = 0 THEN @ ELSE day,
                        !.kind = IF kind = None THEN @ ELSE kind]]
         /\ stated' = IF text = 0 THEN stated
                      ELSE [stated EXCEPT ![e] = [text |-> text, currency |-> code]]
    /\ UNCHANGED <<given, colors>>

Delete(e) ==
    /\ e \in There /\ Written
    /\ ledger' = [ledger EXCEPT ![e] = None] /\ stated' = [stated EXCEPT ![e] = None]
    /\ UNCHANGED <<given, colors>>

(* What the service refuses, an id that is gone, a store that fails.       *)
Refuse == UNCHANGED <<ledger, given, stated, colors, entryWrites>>

RenameCategory ==
    /\ Written
    /\ \E from, to \in Categories :
         /\ from # to /\ \E e \in There : ledger[e].category = from
         /\ ledger' = [e \in Entries |->
              IF ledger[e] # None /\ ledger[e].category = from
              THEN [ledger[e] EXCEPT !.category = to] ELSE ledger[e]]
         /\ colors' = [colors EXCEPT ![from] = None,
                                     ![to] = IF @ = None THEN colors[from] ELSE @]
    /\ UNCHANGED <<given, stated, today, call, answer, page>>

SetCategoryColor ==
    /\ Written
    /\ \E c \in Categories, color \in Colors : colors' = [colors EXCEPT ![c] = color]
    /\ UNCHANGED <<ledger, given, stated, today, call, answer, page>>

-----------------------------------------------------------------------------
(* The panel writes one entry a request                                    *)

PanelWrites ==
    /\ \E e \in Entries : Log(e) \/ Update(e) \/ Delete(e)
    /\ UNCHANGED <<today, call, answer, page>>

-----------------------------------------------------------------------------
(* The tool: an entry after the other, all of one kind of write            *)

Call ==
    /\ call = None
    /\ \E does \in {"log", "update", "delete"}, n \in 1..MaxBatch :
         call' = [does |-> does, left |-> n, failed |-> 0, wrote |-> 0]
    /\ answer' = None
    /\ UNCHANGED <<ledger, given, stated, colors, today, page, entryWrites>>

Item ==
    /\ call # None /\ call.left > 0
    /\ \/ /\ \E e \in Entries : \/ call.does = "log" /\ Log(e)
                                \/ call.does = "update" /\ Update(e)
                                \/ call.does = "delete" /\ Delete(e)
          /\ call' = [call EXCEPT !.left = @ - 1, !.wrote = @ + 1]
       \/ /\ Refuse
          /\ call' = [call EXCEPT !.left = @ - 1, !.failed = @ + 1]
    /\ UNCHANGED <<today, answer, page>>

(* A call fails when nothing of it succeeded.                              *)
Failed == call.wrote = 0

Answer ==
    /\ call # None /\ call.left = 0
    /\ answer' = [error |-> Failed, wrote |-> call.wrote]
    /\ call' = None
    /\ UNCHANGED <<ledger, given, stated, colors, today, page, entryWrites>>

-----------------------------------------------------------------------------
(* The page of the month                                                   *)

Of(kinds, currency, days) ==
    MapThenSumSet(LAMBDA e : ledger[e].amount,
        {e \in There : /\ ledger[e].currency = currency
                       /\ ledger[e].kind \in kinds /\ ledger[e].day \in days})

(* flowsOf: what was taken out of an investment comes in.                  *)
Inflow(currency) == Of({"income", "divest"}, currency, Days)
Outflow(currency) == Of({"expense"}, currency, Days)

Still == UNCHANGED <<ledger, given, stated, colors, today, call, answer, entryWrites>>

(* FinanceTotals: first by category, then by day.                          *)
ReadByCategory ==
    /\ page.at = "none"
    /\ page' = [page EXCEPT !.at = "days", !.average = [c \in Currencies |-> Outflow(c)]]
    /\ Still

ReadByDay ==
    /\ page.at = "days"
    /\ page' = [page EXCEPT !.at = "months",
         !.days = [c \in Currencies |-> [d \in Days |-> Of({"expense"}, c, {d})]]]
    /\ Still

(* FinanceMonths, and the day it is by then.                               *)
ReadByMonth ==
    /\ page.at = "months"
    /\ page' = [page EXCEPT !.at = "read",
         !.trend = [c \in Currencies |-> <<Inflow(c), Outflow(c)>>],
         !.average = [c \in Currencies |-> @[c] \div today]]
    /\ Still

Leave == page.at = "read" /\ page' = Unread /\ Still

DayPasses ==
    /\ today < Cardinality(Days) /\ today' = today + 1
    /\ UNCHANGED <<ledger, given, stated, colors, call, answer, page, entryWrites>>

Largest(numbers) == CHOOSE n \in numbers : \A m \in numbers : m <= n

(* The strip of the days and the line of their average have one scale.     *)
Scale(c) == Largest({0, page.average[c]} \cup {page.days[c][d] : d \in Days})

(* So have what came in and what went out.                                 *)
TrendScale(c) == Largest({0, page.trend[c][1], page.trend[c][2]})

(* A bar and its scale.                                                    *)
Bars ==
    UNION {{<<page.average[c], Scale(c)>>,
            <<page.trend[c][1], TrendScale(c)>>, <<page.trend[c][2], TrendScale(c)>>}
           \cup {<<page.days[c][d], Scale(c)>> : d \in Days} : c \in Currencies}

-----------------------------------------------------------------------------
Next ==
    \/ PanelWrites \/ RenameCategory \/ SetCategoryColor
    \/ Call \/ Item \/ Answer
    \/ ReadByCategory \/ ReadByDay \/ ReadByMonth \/ Leave
    \/ DayPasses

Spec == Init /\ [][Next]_financeVars

-----------------------------------------------------------------------------
(* Types of the ledger.                                                    *)
TypeOK ==
    /\ There \subseteq given /\ given \subseteq Entries
    /\ \A e \in There : ledger[e].kind \in Kinds /\ ledger[e].currency \in Currencies
                        /\ ledger[e].amount \in Nat \ {0} /\ ledger[e].category \in Categories
    /\ \A c \in Categories : colors[c] \in Colors \cup {None}
    /\ page.at \in {"none", "days", "months", "read"}

(* Money is what the owner said it is: whatever the panel and the model    *)
(* patch, in whatever order, an entry counts the minor units of the amount *)
(* that was last stated for it, in the currency it was stated in.          *)
AmountIsAsStated ==
    \A e \in There : /\ stated[e].currency = ledger[e].currency
                     /\ ledger[e].amount = ParseAmount(stated[e].text, stated[e].currency)

(* A model that reads an error calls again: an error means that nothing    *)
(* of the call is in the ledger, and anything else that something is.      *)
ErrorMeansNothing == answer # None => (answer.error <=> answer.wrote = 0)

(* The reads of a page are not of one moment, and no bar of it is longer   *)
(* than its scale all the same.                                            *)
BarsFit == page.at = "read" => \A bar \in Bars : bar[1] <= bar[2]
=============================================================================
