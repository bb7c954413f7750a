----------------------------- MODULE MonthEndClose -----------------------------
(***************************************************************************)
(* The month-end close: the closing entry that takes the revenue and       *)
(* expense accounts to retained earnings (services/month-end.service.ts,   *)
(* generateClosingEntries, behind routes/month-end.routes.ts), beside the  *)
(* entries users write, post, reverse and delete, and the period locks.    *)
(*                                                                         *)
(* A closing is a request that reads and writes in several database calls. *)
(* A journal request is one step here: its own steps and races are in      *)
(* JournalEntries.  What matters of an entry is the net credit of its      *)
(* lines on the income and the expense accounts; the rest of it balances.  *)
(*                                                                         *)
(* A closing and a lock are for whatever end of a period the body names:   *)
(* the last day of a month, any other day, or a time of a day.             *)
(***************************************************************************)
EXTENDS Integers, Folds

CONSTANTS
    JournalIds, \* journal entry ids
    Closings,   \* closing requests that may be in progress at the same time
    Dates,      \* the instants entries and ends of periods bear
    DayOf,      \* the midnight that begins the day of each
    MonthOf,    \* the month of each
    Now,        \* the date of reversals
    Entered,    \* BOUND: the dates of the entries users write
    Lockable    \* BOUND: the ends of the periods somebody locks

ASSUME CloseAssumption ==
    /\ JournalIds # {} /\ Closings # {} /\ Dates \subseteq Int
    /\ DayOf \in [Dates -> Dates] /\ \A d \in Dates : DayOf[DayOf[d]] = DayOf[d]
    /\ Now \in Dates /\ Entered \subseteq Dates /\ Lockable \subseteq Dates

VARIABLES
    journal,  \* journal_entries, each row with the effect of its lines
    locked,   \* the days month_end_close has locked periods to the end of
    closing   \* the local state of every closing request

\* No variables of the code, and read by no action.
VARIABLES
    crossed,  \* the dates that have had two closings in progress at once
    sealed    \* the dates locked ever since a moment none of their closings was
              \* in progress

closeVars == <<journal, locked, closing, crossed, sealed>>

-----------------------------------------------------------------------------
Accounts == {"income", "expense"}

Effect == [Accounts -> Int]

Nothing == [a \in Accounts |-> 0]

Opposite(lines) == [a \in Accounts |-> -lines[a]]

Sale == [Nothing EXCEPT !["income"] = 1]

Cost == [Nothing EXCEPT !["expense"] = -1]

\* A posing entry is a user's, with the source and the memo of a closing entry.
Row == [state : {"absent", "draft", "posted"}, date : Dates,
        kind : {"user", "posing", "closing", "reversal"}, lines : Effect]

NewRow(state, d, kind, lines) == [state |-> state, date |-> d, kind |-> kind, lines |-> lines]

NoRow == NewRow("absent", Now, "user", Nothing)

\* fresh is no variable of the code: nothing was written since the first read.
LocalState == [step : {"idle", "begun", "cleared", "unclosed", "income", "expense"},
               end : Dates, read : Effect, fresh : BOOLEAN]

ClosingRests == [step |-> "idle", end |-> Now, read |-> Nothing, fresh |-> FALSE]

CloseInit ==
    /\ journal = [e \in JournalIds |-> NoRow]
    /\ locked = {}
    /\ closing = [c \in Closings |-> ClosingRests]
    /\ crossed = {}
    /\ sealed = {}

-----------------------------------------------------------------------------
Live(e) == journal[e].state # "absent"

\* What the lines of a set of entries come to on one account.
Total(S, a) ==
    MapThenFoldSet(+, 0, LAMBDA e : journal[e].lines[a], LAMBDA T : CHOOSE e \in T : TRUE, S)

Days == {d \in Dates : DayOf[d] = d}

\* A locked period is the part of its month up to its end.
Shut(d) == \E end \in locked : MonthOf[end] = MonthOf[d] /\ DayOf[d] <= end

\* Mutant: the closing entry is looked for in a locked period only.
Closed_locked(end) ==
    Shut(end) /\ \E e \in JournalIds :
        Live(e) /\ journal[e].kind \in {"posing", "closing"} /\ journal[e].date = DayOf[end]

\* Idempotency check #2: an entry dated the midnight of that very day, whose
\* source and memo are a closing's and that is not void, which no route makes it.
Closed(end) ==
    \E e \in JournalIds :
        Live(e) /\ journal[e].kind \in {"posing", "closing"} /\ journal[e].date = DayOf[end]

\* Mutant: reversals are left out.
Balance_reversalsApart(a) == Total({e \in JournalIds : Live(e) /\ journal[e].kind # "reversal"}, a)

\* The query joins first the lines of the account, then, by another LEFT JOIN,
\* their entries: posted, of the company, dated in the period.  A line whose entry
\* is none of these keeps its place in the sum.
Balance(a) == Total({e \in JournalIds : Live(e)}, a)

Stale(c) == [closing[c] EXCEPT !.fresh = FALSE]

Write(e, row) == journal' = [journal EXCEPT ![e] = row]

-----------------------------------------------------------------------------
(* The journal, and the locks.                                              *)

Enter(e, row) == ~Live(e) /\ ~Shut(row.date) /\ Write(e, row)

\* PUT and POST .../post: a draft gets other lines, another date or memo, or is
\* posted.  (It is deleted only when its five years are over: JournalEntries.)
Edit(e, row) ==
    /\ journal[e].state = "draft" /\ ~Shut(journal[e].date) /\ ~Shut(row.date)
    /\ Write(e, row)

\* The original stays posted, a closing entry like any other.
Reverse(e, r) ==
    /\ journal[e].state = "posted" /\ ~Live(r) /\ ~Shut(Now)
    /\ Write(r, NewRow("posted", Now, "reversal", Opposite(journal[e].lines)))

WriteJournal ==
    /\ \E e \in JournalIds :
          \/ \E state \in {"draft", "posted"}, d \in Entered, kind \in {"user", "posing"},
                lines \in {Sale, Cost} :
                LET row == NewRow(state, d, kind, lines) IN Enter(e, row) \/ Edit(e, row)
          \/ \E r \in JournalIds : Reverse(e, r)
    /\ closing' = [c \in Closings |-> Stale(c)]
    /\ UNCHANGED <<locked, crossed, sealed>>

Closers(d) == {c \in Closings : closing[c].step # "idle" /\ closing[c].end = d}

Reseal == sealed' = {d \in Dates : Shut(d)' /\ (d \in sealed \/ Closers(d)' = {})}

LockPeriod(end) ==
    /\ locked' = locked \cup {DayOf[end]}
    /\ UNCHANGED <<journal, closing, crossed>>
    /\ Reseal

\* POST period-lock/unlock names a month, and unlocks what ends with its last day.
UnlockPeriod(end) ==
    /\ \A d \in Days : MonthOf[d] = MonthOf[end] => d <= DayOf[end]
    /\ locked' = locked \ {DayOf[end]}
    /\ UNCHANGED <<journal, closing, crossed>>
    /\ Reseal

-----------------------------------------------------------------------------
(* POST month-end/generate-closing-entries                                  *)

\* Whatever the body says the period starts and ends with; nothing reads its start
\* but the queries, where it has no effect (Balance).
Request(c, end) ==
    /\ closing[c].step = "idle"
    /\ closing' = [closing EXCEPT ![c] = [ClosingRests EXCEPT !.step = "begun", !.end = end]]
    /\ crossed' = IF Closers(end) = {} THEN crossed ELSE crossed \cup {end}
    /\ UNCHANGED <<journal, locked, sealed>>

\* Mutant: nobody asks.
PassLock_unasked(c) ==
    /\ closing[c].step = "begun"
    /\ closing' = [closing EXCEPT ![c].step = "cleared"]
    /\ UNCHANGED <<journal, locked, crossed, sealed>>

\* assertPeriodNotLocked in the route, and idempotency check #1 in the service,
\* which reads the same row again.
PassLock(c) ==
    /\ closing[c].step = "begun"
    /\ ~Shut(closing[c].end)
    /\ closing' = [closing EXCEPT ![c].step = "cleared"]
    /\ UNCHANGED <<journal, locked, crossed, sealed>>

\* Check #2.
FindNoClosing(c) ==
    /\ closing[c].step = "cleared"
    /\ ~Closed(closing[c].end)
    /\ closing' = [closing EXCEPT ![c].step = "unclosed"]
    /\ UNCHANGED <<journal, locked, crossed, sealed>>

ReadIncome(c) ==
    /\ closing[c].step = "unclosed"
    /\ closing' = [closing EXCEPT ![c].step = "income", ![c].read["income"] = Balance("income"),
                                  ![c].fresh = TRUE]
    /\ UNCHANGED <<journal, locked, crossed, sealed>>

ReadExpense(c) ==
    /\ closing[c].step = "income"
    /\ closing' = [closing EXCEPT ![c].step = "expense", ![c].read["expense"] = Balance("expense")]
    /\ UNCHANGED <<journal, locked, crossed, sealed>>

Leave(c) ==
    /\ closing' = [d \in Closings |-> IF d = c THEN ClosingRests ELSE Stale(d)]
    /\ UNCHANGED <<locked, crossed>>
    /\ Reseal

\* The entry and its lines in one transaction, a line against each balance, on
\* whichever side that is; with no balance there is nothing to close.
PostClosing(c, e) ==
    /\ closing[c].step = "expense"
    /\ closing[c].read # Nothing
    /\ ~Live(e)
    /\ Write(e, NewRow("posted", closing[c].end, "closing", Opposite(closing[c].read)))
    /\ Leave(c)

\* Any refusal or failing call.
Abandon(c) ==
    /\ closing[c].step # "idle"
    /\ Leave(c)
    /\ UNCHANGED journal

-----------------------------------------------------------------------------
ClosingStep(c) ==
    \/ \E end \in Dates : Request(c, end)
    \/ PassLock(c) \/ FindNoClosing(c) \/ ReadIncome(c) \/ ReadExpense(c)
    \/ \E e \in JournalIds : PostClosing(c, e)
    \/ Abandon(c)

CloseNext ==
    \/ WriteJournal
    \/ \E end \in Lockable : LockPeriod(end) \/ UnlockPeriod(end)
    \/ \E c \in Closings : ClosingStep(c)

CloseSpec == CloseInit /\ [][CloseNext]_closeVars

-----------------------------------------------------------------------------
(* Properties *)

\* Entries, locks and requests have their types.
CloseTypeOK ==
    /\ journal \in [JournalIds -> Row]
    /\ locked \subseteq Days
    /\ closing \in [Closings -> LocalState]
    /\ crossed \subseteq Dates
    /\ sealed \subseteq {d \in Dates : Shut(d)}

\* The entries closings made, whose date is the end their request named.
ClosingsOf(d) == {e \in JournalIds : Live(e) /\ journal[e].kind = "closing" /\ journal[e].date = d}

\* "refuse to generate closing entries twice for the same period"
\* (month-end.service.ts:333): whatever is unlocked, reversed and tried again, and
\* whatever closings of other ends a month has, a day gets one closing entry for
\* good, unless two closings of that day have been in progress at the same time.
ClosedOnce ==
    \A d \in Days \ crossed : \A e, f \in ClosingsOf(d) : e = f

\* From the first moment of rest after its lock a date gets no closing entry,
\* although a closing asks for the lock long before it writes.
SealedDatesStayUnclosed ==
    [][\A d \in sealed : ClosingsOf(d)' \subseteq ClosingsOf(d)]_closeVars

\* The books of a month, as the reports see them: its posted entries.
Books(m, a) ==
    Total({e \in JournalIds : journal[e].state = "posted" /\ MonthOf[journal[e].date] = m}, a)

NewClosing(d) == ClosingsOf(d)' # ClosingsOf(d)

\* A closing of d that nothing has come across.
Undisturbed(d) == \E c \in Closings : closing[c].end = d /\ closing[c].fresh /\ closing'[c].step = "idle"

\* Nothing is in the accounts but this month's posted entries: no drafts, and the
\* other months come to nothing.
Tidy(m) ==
    /\ \A e \in JournalIds : journal[e].state # "draft"
    /\ \A d \in Dates, a \in Accounts : MonthOf[d] # m => Books(MonthOf[d], a) = 0

\* A closing leaves nothing on the accounts of its month, whatever sales, costs,
\* reversals and earlier closings made them up, when nothing is written meanwhile,
\* no entry is in draft and the other months have nothing on theirs.
TidyCloseEmptiesTheMonth ==
    [][\A d \in Dates :
          NewClosing(d) /\ Undisturbed(d) /\ Tidy(MonthOf[d])
          => \A a \in Accounts : Books(MonthOf[d], a)' = 0]_closeVars
=============================================================================
