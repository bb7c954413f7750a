--------------------------- MODULE JournalEntries ---------------------------
(***************************************************************************)
(* The general journal: how entries are written, edited, posted, reversed  *)
(* and deleted by routes/journal.routes.ts over the transactions of        *)
(* storage.ts, and how the AI suggestions a user accepts are posted        *)
(* (services/autonomous-gl.service.ts), under the month-end period locks.  *)
(*                                                                         *)
(* A handler reads its entry, decides, and writes by id with later calls;  *)
(* each action is one database call with the code up to the next one.      *)
(*                                                                         *)
(* Lines are kept as their net effect on two accounts, debits positive.    *)
(* Input is in tenths of a fils and is checked as it comes; NUMERIC(15,2)  *)
(* rounds every line to whole fils when it is stored.                      *)
(***************************************************************************)
EXTENDS Integers

CONSTANTS
    Entries,     \* journal entry ids
    NoEntry,     \* what an entry reverses that is no reversal
    Requests,    \* handlers that may be in progress at the same time
    Inputs,      \* [split, each, credit]: lines a user may send, see Stored
    Periods,     \* months
    Today,       \* the current month
    OldPeriod,   \* the month the old entries are dated in
    OldEntries,  \* entries from before, past the five-year retention
    Claims,      \* entries the body of a POST may say it reverses
    Sources      \* {"manual"}, or with "system" where the AI drafts entries too

ASSUME JournalAssumption ==
    /\ Entries # {} /\ NoEntry \notin Entries
    /\ OldEntries \subseteq Entries /\ Claims \subseteq Entries
    /\ {Today, OldPeriod} \subseteq Periods
    /\ Inputs \subseteq [split : Nat \ {0}, each : Nat \ {0}, credit : Nat \ {0}]
    /\ Sources \subseteq {"manual", "system"}

VARIABLES
    entry,    \* the journal_entries table, each row with the effect of its lines
    locked,   \* the periods month_end_close has locked
    request   \* the local state of every handler

\* No variables of the code, and read by no action.
VARIABLES
    sealed,   \* the periods locked ever since a moment at which no handler was in
              \* progress
    crossed,  \* the entries that two handlers, or a handler and an acceptance,
              \* have been on at the same time
    claimed   \* the entries whose body named an entry they reverse

vars == <<entry, locked, request, sealed, crossed, claimed>>

-----------------------------------------------------------------------------
Lines == [left : Int, right : Int]

NoLines == [left |-> 0, right |-> 0]

\* JOURNAL_BALANCE_TOLERANCE is one fils, ten units of the input.
Near(a, b, tolerance) == a - b <= tolerance /\ b - a <= tolerance

\* Input debits one account with `split` lines of `each` and credits another
\* with one line: the routes and assertBalanced add up what was sent.
Accepted(x) == Near(x.split * x.each, x.credit, 10)

RoundToFils(a) == (a + 5) \div 10

Stored(x) == [left |-> x.split * RoundToFils(x.each), right |-> -RoundToFils(x.credit)]

Balanced(lines) == Near(lines.left, -lines.right, 1)

Swapped(lines) == [left |-> -lines.left, right |-> -lines.right]

-----------------------------------------------------------------------------
Statuses == {"absent", "draft", "posted", "void", "deleted"}

Row == [status : Statuses, lines : Lines, date : Periods, source : {"manual", "system"},
        reverses : Entries \cup {NoEntry}]

Steps == {"idle", "insert", "writeEdit", "readPost", "writePost", "readReverse",
          "insertReversal", "delete"}

\* edit is what is to be written, check the periods whose lock has not been
\* read yet.
LocalState == [step : Steps, id : Entries, edit : Row, check : SUBSET Periods]

Local(step, e, edit, check) == [step |-> step, id |-> e, edit |-> edit, check |-> check]

NewRow(status, lines, date, source, reverses) ==
    [status |-> status, lines |-> lines, date |-> date, source |-> source, reverses |-> reverses]

NoRow == NewRow("absent", NoLines, Today, "manual", NoEntry)

AnyEntry == CHOOSE e \in Entries : TRUE

Resting == Local("idle", AnyEntry, NoRow, {})

\* Old entries: drafts, posted ones, and void ones of an earlier version.
OldRows == {NewRow(status, Stored(x), OldPeriod, "manual", NoEntry) :
               status \in {"draft", "posted", "void"},
               x \in {y \in Inputs : Accepted(y) /\ Balanced(Stored(y))}}

Init ==
    /\ \E rows \in [OldEntries -> OldRows] :
          entry = [e \in Entries |-> IF e \in OldEntries THEN rows[e] ELSE NoRow]
    /\ locked = {}
    /\ request = [r \in Requests |-> Resting]
    /\ sealed = {} /\ crossed = {} /\ claimed = {}

-----------------------------------------------------------------------------
Idle(r) == request[r].step = "idle"

Live(row) == row.status \in {"draft", "posted", "void"}

\* r stands before this step and has passed every period-lock check before it.
At(r, step) == request[r].step = step /\ request[r].check = {}

\* r is on e; a handler that is to insert an entry is on none yet.
On(r, e) == ~Idle(r) /\ request[r].step # "insert" /\ request[r].id = e

\* A handler has read e and goes on to a step.
Begin(r, e, step, edit, check) ==
    /\ Idle(r)
    /\ request' = [request EXCEPT ![r] = Local(step, e, edit, check)]
    /\ crossed' = IF step # "insert" /\ \E q \in Requests : On(q, e)
                  THEN crossed \cup {e} ELSE crossed
    /\ UNCHANGED <<entry, locked, sealed, claimed>>

Finish(r) ==
    /\ request' = [request EXCEPT ![r] = Resting]
    /\ UNCHANGED crossed
    /\ sealed' = IF \A q \in Requests \ {r} : Idle(q) THEN locked ELSE sealed

Put(r, e, row) ==
    /\ entry' = [entry EXCEPT ![e] = row]
    /\ Finish(r)
    /\ UNCHANGED locked

Write(r, e, row) == Put(r, e, row) /\ UNCHANGED claimed

\* Every refusal and every failing call; a transaction leaves nothing behind.
GiveUp(r) ==
    /\ ~Idle(r)
    /\ Finish(r)
    /\ UNCHANGED <<entry, locked, claimed>>

PassLock(r, p) ==
    /\ p \in request[r].check \ locked
    /\ request' = [request EXCEPT ![r].check = @ \ {p}]
    /\ UNCHANGED <<entry, locked, sealed, crossed, claimed>>

LockPeriod(p) ==
    /\ locked' = locked \cup {p}
    /\ sealed' = IF \A r \in Requests : Idle(r) THEN locked' ELSE sealed
    /\ UNCHANGED <<entry, request, crossed, claimed>>

UnlockPeriod(p) ==
    /\ locked' = locked \ {p}
    /\ sealed' = sealed \ {p}
    /\ UNCHANGED <<entry, request, crossed, claimed>>

-----------------------------------------------------------------------------
(* POST journal, and the entries the AI drafts or a review posts at once.    *)

\* The rest of the body goes into the row, reversed_entry_id with it, whatever the
\* lines are; the AI names none.
CreateBegin(r, x, date, status, source, reverses) ==
    /\ Idle(r) /\ Accepted(x)
    /\ source = "system" => reverses = NoEntry
    /\ Begin(r, AnyEntry, "insert", NewRow(status, Stored(x), date, source, reverses), {date})

\* reversed_entry_id is a foreign key: what it names has to be there.
Insert(r, e) ==
    LET row == request[r].edit IN
    /\ At(r, "insert")
    /\ entry[e].status = "absent"
    /\ row.reverses # NoEntry => Live(entry[row.reverses])
    /\ Put(r, e, row)
    /\ claimed' = IF row.reverses = NoEntry THEN claimed ELSE claimed \cup {e}

-----------------------------------------------------------------------------
(* PUT journal/:id                                                          *)

\* Mutant: a posted entry may be edited as well.
EditBegin_posted(r, e, x, date, status) ==
    /\ entry[e].status \in {"draft", "posted"}
    /\ Idle(r) /\ Accepted(x)
    /\ Begin(r, e, "writeEdit", [entry[e] EXCEPT !.status = status, !.lines = Stored(x), !.date = date],
             {entry[e].date, date})

\* Mutant: only the lock of the new month is asked for.
EditBegin_newMonth(r, e, x, date, status) ==
    /\ entry[e].status = "draft"
    /\ Idle(r) /\ Accepted(x)
    /\ Begin(r, e, "writeEdit", [entry[e] EXCEPT !.status = status, !.lines = Stored(x), !.date = date],
             {date})

\* status is the one requested, or "draft", the one read, where none is.
EditBegin(r, e, x, date, status) ==
    /\ entry[e].status = "draft"
    /\ Idle(r) /\ Accepted(x)
    /\ Begin(r, e, "writeEdit", [entry[e] EXCEPT !.status = status, !.lines = Stored(x), !.date = date],
             {entry[e].date, date})

\* Mutant: the old lines go, the new ones come one by one.
WriteEdit_noTransaction(r) ==
    LET e == request[r].id  edit == request[r].edit IN
    /\ At(r, "writeEdit")
    /\ Live(entry[e])
    /\ \E lines \in {edit.lines, [edit.lines EXCEPT !.right = 0]} :
          Write(r, e, [edit EXCEPT !.lines = lines])

\* updateJournalEntryWithLines: by id, whatever the status is by now.  Without
\* a requested status the row keeps its own.
WriteEdit(r) ==
    LET e == request[r].id  edit == request[r].edit IN
    /\ At(r, "writeEdit")
    /\ Live(entry[e])
    /\ \/ Write(r, e, edit)
       \/ edit.status = "draft" /\ Write(r, e, [edit EXCEPT !.status = entry[e].status])

-----------------------------------------------------------------------------
(* POST journal/:id/post, and the acceptance of an AI draft                  *)

PostBegin(r, e) ==
    /\ entry[e].status = "draft"
    /\ Begin(r, e, "readPost", [NoRow EXCEPT !.date = entry[e].date], {})

\* The stored lines have to balance; the lock of the month read before is next.
ReadPost(r) ==
    LET e == request[r].id IN
    /\ At(r, "readPost")
    /\ Live(entry[e]) => Balanced(entry[e].lines)
    /\ request' = [request EXCEPT ![r].step = "writePost", ![r].check = {request[r].edit.date}]
    /\ UNCHANGED <<entry, locked, sealed, crossed, claimed>>

WritePost(r) ==
    LET e == request[r].id IN
    /\ At(r, "writePost")
    /\ Live(entry[e])
    /\ Write(r, e, [entry[e] EXCEPT !.status = "posted"])

\* processUserFeedback, "accept" of a drafted suggestion: one conditional
\* UPDATE, with no look at the period.
AcceptDraft(e) ==
    /\ entry[e].status = "draft" /\ entry[e].source = "system"
    /\ entry' = [entry EXCEPT ![e].status = "posted"]
    /\ crossed' = IF \E r \in Requests : On(r, e) THEN crossed \cup {e} ELSE crossed
    /\ UNCHANGED <<locked, request, sealed, claimed>>

-----------------------------------------------------------------------------
(* POST journal/:id/reverse                                                 *)

ReverseBegin(r, e) ==
    /\ entry[e].status = "posted"
    /\ Begin(r, e, "readReverse", NoRow, {Today})

\* Mutant: debits and credits are not swapped.
ReadReverse_copies(r) ==
    LET e == request[r].id IN
    /\ At(r, "readReverse")
    /\ Live(entry[e])
    /\ Balanced(entry[e].lines)
    /\ request' = [request EXCEPT ![r].step = "insertReversal",
                      ![r].edit = NewRow("posted", entry[e].lines, Today, "manual", e)]
    /\ UNCHANGED <<entry, locked, sealed, crossed, claimed>>

ReadReverse(r) ==
    LET e == request[r].id IN
    /\ At(r, "readReverse")
    /\ Live(entry[e])
    /\ Balanced(entry[e].lines)
    /\ request' = [request EXCEPT ![r].step = "insertReversal",
                      ![r].edit = NewRow("posted", Swapped(entry[e].lines), Today, "manual", e)]
    /\ UNCHANGED <<entry, locked, sealed, crossed, claimed>>

\* The foreign key again: the original has to be there still.
InsertReversal(r, e) ==
    /\ At(r, "insertReversal")
    /\ entry[e].status = "absent"
    /\ Live(entry[request[r].id])
    /\ Write(r, e, request[r].edit)

-----------------------------------------------------------------------------
(* DELETE journal/:id                                                       *)

DeleteBegin(r, e) ==
    /\ e \in OldEntries
    /\ entry[e].status = "draft"
    /\ Begin(r, e, "delete", NoRow, {})

\* By id; the foreign key keeps an entry that another one points to.
Delete(r) ==
    LET e == request[r].id IN
    /\ At(r, "delete")
    /\ \A f \in Entries : Live(entry[f]) => entry[f].reverses # e
    /\ Write(r, e, [entry[e] EXCEPT !.status = "deleted"])

-----------------------------------------------------------------------------
Creation(r) ==
    \/ \E x \in Inputs, date \in Periods, status \in {"draft", "posted"}, source \in Sources,
          reverses \in Claims \cup {NoEntry} : CreateBegin(r, x, date, status, source, reverses)
    \/ \E e \in Entries : Insert(r, e)

Edit(r) ==
    \/ \E e \in Entries, x \in Inputs, date \in Periods, status \in {"draft", "posted"} :
          EditBegin(r, e, x, date, status)
    \/ WriteEdit(r)

Posting(r) == (\E e \in Entries : PostBegin(r, e)) \/ ReadPost(r) \/ WritePost(r)

Reversal(r) ==
    \/ \E e \in Entries : ReverseBegin(r, e)
    \/ ReadReverse(r)
    \/ \E e \in Entries : InsertReversal(r, e)

Deletion(r) == (\E e \in Entries : DeleteBegin(r, e)) \/ Delete(r)

Handler(r) ==
    \/ Creation(r) \/ Edit(r) \/ Posting(r) \/ Reversal(r) \/ Deletion(r)
    \/ (\E p \in Periods : PassLock(r, p))
    \/ GiveUp(r)

Next ==
    \/ \E r \in Requests : Handler(r)
    \/ \E e \in Entries : AcceptDraft(e)
    \/ \E p \in Periods : LockPeriod(p) \/ UnlockPeriod(p)

Spec == Init /\ [][Next]_vars

-----------------------------------------------------------------------------
TypeOK ==
    /\ entry \in [Entries -> Row]
    /\ locked \subseteq Periods /\ sealed \subseteq locked
    /\ crossed \subseteq Entries /\ claimed \subseteq Entries
    /\ request \in [Requests -> LocalState]

\* Debits equal credits, to a fils, in every stored entry, whatever handlers
\* edit, post and reverse at the same time (docs/TRUST.md:44).
EntriesBalanced == \A e \in Entries : Live(entry[e]) => Balanced(entry[e].lines)

\* Posted entries are immutable, and so are void ones (docs/TRUST.md:45), unless
\* two handlers have been on the entry at the same time.
PostedIsImmutable ==
    [][\A e \in Entries :
          entry[e].status \in {"posted", "void"} /\ e \notin crossed => entry'[e] = entry[e]]_vars

\* A reversal that the reverse route made is posted and takes back
\* exactly what its original, still posted, put into the books, as long as no two
\* handlers have been on either of them at the same time.  (What a body merely says
\* reverses an entry is like any other entry made by hand.)
ReversalsMirror ==
    \A e \in Entries :
        LET original == entry[entry[e].reverses] IN
        /\ Live(entry[e]) /\ entry[e].reverses # NoEntry /\ e \notin claimed
        /\ {e, entry[e].reverses} \cap crossed = {}
        => /\ entry[e].status = "posted" /\ original.status = "posted"
           /\ entry[e].lines = Swapped(original.lines)

\* What may still happen to e in a closed month p: nothing, or its deletion as
\* a draft.
Frozen(e, p) ==
    entry'[e] # entry[e] =>
        \/ entry[e].status = "draft" /\ entry'[e].status = "deleted"
        \/ /\ Live(entry[e]) => entry[e].date # p
           /\ entry'[e].date # p

\* An entry the AI has drafted is posted, and nothing else about it changes.
Acceptance(e) ==
    /\ entry[e].status = "draft" /\ entry[e].source = "system"
    /\ entry'[e] = [entry[e] EXCEPT !.status = "posted"]

\* A month is closed from the first moment of rest after it is locked: no entry
\* enters it, leaves it or changes in it, unless the AI's draft is accepted.
\* (Before that, a handler that passed its check may still write, and one that
\* read the entry before may then write again, although it began after the lock.)
FrozenButForAcceptance ==
    [][\A p \in sealed, e \in Entries : Frozen(e, p) \/ Acceptance(e)]_vars

\* "VAT/CT/journal/autopilot posting all call assertPeriodNotLocked"
\* (docs/TRUST.md:46-48): the same of every entry, the AI's drafts included.
LockedMonthsAreFrozen == [][\A p \in sealed, e \in Entries : Frozen(e, p)]_vars
=============================================================================
