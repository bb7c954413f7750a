-------------------------- MODULE InvoiceLifecycle --------------------------
(***************************************************************************)
(* A sales invoice from creation to deletion: its row, the journal entries *)
(* and payments that belong to it, and the handlers that change them       *)
(* (routes/invoices.routes.ts, services/invoice-posting.service.ts, the    *)
(* payment and deletion transactions of storage.ts).                      *)
(*                                                                         *)
(* A handler is a sequence of awaited database calls.  Every action below  *)
(* is one of those calls, together with the code up to the next one, so    *)
(* handlers interleave exactly where the server lets them; a transaction   *)
(* under a row lock is one action.  What a handler read is kept in its     *)
(* local record and used later, stale or not.                              *)
(*                                                                         *)
(* The general ledger is kept as what the queries of these handlers can    *)
(* tell apart: for each invoice, how many posted entries carry it as their *)
(* "invoice" source, their net effect in AED, and the AED its payment      *)
(* entries cleared.                                                        *)
(***************************************************************************)
EXTENDS InvoiceStateMachine, FiniteSets

CONSTANTS
    Invoices,    \* invoice ids
    Requests,    \* handlers that may be in progress at the same time
    Totals,      \* document totals, in the invoice's currency
    Rates,       \* AED per unit of the invoice's currency (1: an AED invoice)
    Periods,     \* months
    Today,       \* the current month
    OldPeriod,   \* the month old drafts and their entries are dated in
    OldInvoices, \* drafts made, and perhaps posted, by an earlier version; past retention
    BodyStatuses, \* the statuses the body of a POST or PUT may carry
    CrashTargets, \* the statuses a handler may die before setting, its entries being in
    LocksAtRest, \* whether months are locked only while no handler is in progress
    MaxPosted    \* BOUND: posted revenue entries per invoice

ASSUME LifecycleAssumption ==
    /\ Totals \subseteq Nat \ {0} /\ Totals # {}
    /\ Rates \subseteq Nat \ {0} /\ 1 \in Rates
    /\ {Today, OldPeriod} \subseteq Periods
    /\ OldInvoices \subseteq Invoices /\ Invoices # {}
    /\ BodyStatuses \subseteq Statuses /\ CrashTargets \subseteq Statuses
    /\ LocksAtRest \in BOOLEAN
    /\ MaxPosted \in Nat

VARIABLES
    invoice,   \* the invoices table
    paid,      \* SUM(amount) of an invoice's payment rows
    ledger,    \* the journal entries of each invoice
    volume,    \* number of posted entries dated in each period
    locked,    \* the periods month_end_close has locked
    request,   \* the local state of every handler
    dictated   \* history: invoices whose status the body of a POST or PUT wrote last

vars == <<invoice, paid, ledger, volume, locked, request, dictated>>

RowStates == Statuses \cup {"absent", "deleted"}

Row == [status : RowStates, total : Totals, date : Periods, rate : Rates]

\* draft: the amount of a draft entry (0: none).  posted and sales: number and
\* net AED of the posted entries with source "invoice".  cash: AED cleared by
\* the entries with source "payment".
LedgerRow == [draft : Nat, posted : Nat, sales : Int, cash : Int]

Steps == {"idle", "insert", "sumPayments", "recordPayment", "setStatus",
          "findRevenue", "postRevenue", "findDrafts", "postDrafts",
          "findOriginal", "postReversal", "checkPosted", "writeEdit",
          "checkEntries", "deleteRows"}

Targets == Statuses \cup {"absent"}

\* target is the status to set at the end ("absent": none); edit the row to
\* write, of status "absent" if the body names none; check the periods whose
\* lock has not been read yet.
LocalState ==
    [step : Steps, inv : Invoices, snap : Row, edit : Row, target : Targets,
     amount : Nat, date : Periods, check : SUBSET Periods]

ARow == [status |-> "absent", total |-> CHOOSE t \in Totals : TRUE, date |-> Today, rate |-> 1]

Resting == [step |-> "idle", inv |-> CHOOSE i \in Invoices : TRUE, snap |-> ARow,
            edit |-> ARow, target |-> "absent", amount |-> 0, date |-> Today, check |-> {}]

NoEntries == [draft |-> 0, posted |-> 0, sales |-> 0, cash |-> 0]

\* An old draft has no entry, a draft entry, or the posted entry that was made
\* when drafts still posted automatically.
OldLedger(row) ==
    LET amount == row.total * row.rate IN
    {NoEntries, [NoEntries EXCEPT !.draft = amount],
     [NoEntries EXCEPT !.posted = 1, !.sales = amount]}

Init ==
    /\ invoice \in [Invoices -> Row]
    /\ \A i \in Invoices :
          IF i \in OldInvoices THEN invoice[i].status = "draft" /\ invoice[i].date = OldPeriod
          ELSE invoice[i] = ARow
    /\ ledger \in [Invoices -> UNION {OldLedger(row) : row \in Row}]
    /\ \A i \in Invoices :
          ledger[i] \in IF i \in OldInvoices THEN OldLedger(invoice[i]) ELSE {NoEntries}
    /\ paid = [i \in Invoices |-> 0]
    /\ volume = [p \in Periods |-> 0]
    /\ locked = {}
    /\ request = [r \in Requests |-> Resting]
    /\ dictated = {}

-----------------------------------------------------------------------------
Exists(i) == invoice[i].status \notin {"absent", "deleted"}

\* r stands before this step and has passed every period-lock check before it.
At(r, step) == request[r].step = step /\ request[r].check = {}

Idle(r) == request[r].step = "idle"

\* A handler starts with the invoice it read.
Begin(r, i, local) ==
    /\ Idle(r)
    /\ request' = [request EXCEPT ![r] = [local EXCEPT !.inv = i, !.snap = invoice[i]]]

Goto(r, step) == request' = [request EXCEPT ![r].step = step]

Finish(r) == request' = [request EXCEPT ![r] = Resting]

\* A posted entry with source "invoice": delta is its effect in AED, p its month.
PostSale(i, delta, p) ==
    /\ ledger[i].posted < MaxPosted
    /\ ledger' = [ledger EXCEPT ![i].posted = @ + 1, ![i].sales = @ + delta]
    /\ volume' = [volume EXCEPT ![p] = @ + 1]

-----------------------------------------------------------------------------
(* assertPeriodNotLocked reads month_end_close, and nothing holds the        *)
(* answer until the write it guards.                                        *)

PassLock(r, p) ==
    /\ p \in request[r].check \ locked
    /\ request' = [request EXCEPT ![r].check = @ \ {p}]
    /\ UNCHANGED <<invoice, paid, ledger, volume, locked, dictated>>

Quiet == \A r \in Requests : Idle(r)

LockPeriod(p) ==
    /\ LocksAtRest => Quiet
    /\ locked' = locked \cup {p}
    /\ UNCHANGED <<invoice, paid, ledger, volume, request, dictated>>

UnlockPeriod(p) ==
    /\ locked' = locked \ {p}
    /\ UNCHANGED <<invoice, paid, ledger, volume, request, dictated>>

\* Every early return, and a failing call that ends the handler, or the server's
\* end: with CrashTargets also when its entry is in and its status is not.
GiveUp(r) ==
    /\ ~Idle(r)
    /\ request[r].step = "setStatus" => request[r].target \in CrashTargets
    /\ Finish(r)
    /\ UNCHANGED <<invoice, paid, ledger, volume, locked, dictated>>

-----------------------------------------------------------------------------
(* POST /api/invoices: the row is the body's, its status included.          *)

CreateBegin(r, row) ==
    /\ Idle(r)
    /\ row.status \in BodyStatuses \cup {"draft"}
    /\ request' = [request EXCEPT ![r] =
                      [Resting EXCEPT !.step = "insert", !.edit = row, !.check = {row.date}]]
    /\ UNCHANGED <<invoice, paid, ledger, volume, locked, dictated>>

Insert(r, i) ==
    LET row == request[r].edit IN
    /\ At(r, "insert")
    /\ invoice[i].status = "absent"
    /\ invoice' = [invoice EXCEPT ![i] = row]
    /\ dictated' = IF row.status = "draft" THEN dictated ELSE dictated \cup {i}
    /\ Finish(r)
    /\ UNCHANGED <<paid, ledger, volume, locked>>

-----------------------------------------------------------------------------
(* PATCH /api/invoices/:id/status                                           *)

Issues(from, to) == from = "draft" /\ to \in {"sent", "posted"}

FirstStep(from, to) ==
    IF to = "paid" THEN "sumPayments"
    ELSE IF Issues(from, to) THEN "findRevenue"
    ELSE IF to \in {"void", "cancelled"} THEN "findOriginal"
    ELSE "setStatus"

StatusBegin(r, i, to) ==
    LET from == invoice[i].status IN
    /\ Exists(i)
    /\ from # to /\ CanTransition(from, to)
    /\ Begin(r, i, [Resting EXCEPT
          !.step = FirstStep(from, to), !.target = to,
          !.check = IF to = "paid" \/ Issues(from, to) THEN {invoice[i].date} ELSE {}])
    /\ UNCHANGED <<invoice, paid, ledger, volume, locked, dictated>>

\* Mutant: a remainder of one unit is taken for a rounding difference.
SumPayments_tolerant(r) ==
    LET remaining == request[r].snap.total - paid[request[r].inv] IN
    /\ At(r, "sumPayments")
    /\ IF remaining > 1
       THEN request' = [request EXCEPT ![r].step = "recordPayment", ![r].amount = remaining]
       ELSE Goto(r, "setStatus")
    /\ UNCHANGED <<invoice, paid, ledger, volume, locked, dictated>>

\* getInvoicePaidTotal: the remainder is taken from the invoice read before.
SumPayments(r) ==
    LET remaining == request[r].snap.total - paid[request[r].inv] IN
    /\ At(r, "sumPayments")
    /\ IF remaining > 0
       THEN request' = [request EXCEPT ![r].step = "recordPayment", ![r].amount = remaining]
       ELSE Goto(r, "setStatus")
    /\ UNCHANGED <<invoice, paid, ledger, volume, locked, dictated>>

\* Revenue is in: an issuing handler goes on to the status, a repairing one ends.
AfterRevenue(r) == IF request[r].target = "absent" THEN Finish(r) ELSE Goto(r, "setStatus")

\* postInvoiceRevenueJournal: skip an invoice that carries a posted entry.
FindRevenue(r) ==
    /\ At(r, "findRevenue")
    /\ IF ledger[request[r].inv].posted > 0 THEN AfterRevenue(r) ELSE Goto(r, "postRevenue")
    /\ UNCHANGED <<invoice, paid, ledger, volume, locked, dictated>>

PostRevenue(r) ==
    LET snap == request[r].snap IN
    /\ At(r, "postRevenue")
    /\ PostSale(request[r].inv, snap.total * snap.rate, snap.date)
    /\ AfterRevenue(r)
    /\ UNCHANGED <<invoice, paid, locked, dictated>>

\* Mutant: the month of the reversal is not asked for.
FindOriginal_unlocked(r) ==
    /\ At(r, "findOriginal")
    /\ Goto(r, IF ledger[request[r].inv].posted > 0 THEN "postReversal" ELSE "setStatus")
    /\ UNCHANGED <<invoice, paid, ledger, volume, locked, dictated>>

\* Mutant: reverses whether or not there is an entry to reverse.
FindOriginal_blind(r) ==
    /\ At(r, "findOriginal")
    /\ request' = [request EXCEPT ![r].step = "postReversal", ![r].check = {Today}]
    /\ UNCHANGED <<invoice, paid, ledger, volume, locked, dictated>>

FindOriginal(r) ==
    /\ At(r, "findOriginal")
    /\ IF ledger[request[r].inv].posted > 0
       THEN request' = [request EXCEPT ![r].step = "postReversal", ![r].check = {Today}]
       ELSE Goto(r, "setStatus")
    /\ UNCHANGED <<invoice, paid, ledger, volume, locked, dictated>>

\* The reversal is built from the invoice row, in the invoice's currency.
PostReversal(r) ==
    /\ At(r, "postReversal")
    /\ PostSale(request[r].inv, -request[r].snap.total, Today)
    /\ Goto(r, "setStatus")
    /\ UNCHANGED <<invoice, paid, locked, dictated>>

\* updateInvoiceStatus: whatever the status has become meanwhile.
SetStatus(r) ==
    LET i == request[r].inv IN
    /\ At(r, "setStatus")
    /\ invoice' = IF Exists(i) THEN [invoice EXCEPT ![i].status = request[r].target] ELSE invoice
    /\ dictated' = dictated \ {i}
    /\ Finish(r)
    /\ UNCHANGED <<paid, ledger, volume, locked>>

-----------------------------------------------------------------------------
(* POST payments and the payment of PATCH status: recordInvoicePayment runs  *)
(* in one transaction under the invoice's row lock.                         *)

PayBegin(r, i, amount, date) ==
    /\ Exists(i)
    /\ ~IsTerminal(invoice[i].status)
    /\ Begin(r, i, [Resting EXCEPT !.step = "recordPayment", !.amount = amount,
                                   !.date = date, !.check = {date}])
    /\ UNCHANGED <<invoice, paid, ledger, volume, locked, dictated>>

\* The effects of a payment that passed the checks under the row lock.
PaymentEffects(r) ==
    LET i == request[r].inv  amount == request[r].amount  row == invoice[i] IN
    /\ paid' = [paid EXCEPT ![i] = @ + amount]
    /\ ledger' = [ledger EXCEPT ![i].cash = @ + amount * row.rate]
    /\ volume' = [volume EXCEPT ![request[r].date] = @ + 1]
    /\ invoice' = [invoice EXCEPT ![i].status =
                      StatusFromPayments(row.status, row.total, paid[i] + amount)]
    /\ dictated' = dictated \ {i}
    /\ Finish(r)
    /\ UNCHANGED locked

\* Mutant: no transaction, so the entry can be committed without the payment row.
RecordPayment_noTransaction(r) ==
    LET i == request[r].inv  amount == request[r].amount IN
    /\ At(r, "recordPayment")
    /\ Exists(i) /\ ~IsTerminal(invoice[i].status)
    /\ amount <= invoice[i].total - paid[i]
    /\ \/ PaymentEffects(r)
       \/ /\ ledger' = [ledger EXCEPT ![i].cash = @ + amount * invoice[i].rate]
          /\ volume' = [volume EXCEPT ![request[r].date] = @ + 1]
          /\ Finish(r)
          /\ UNCHANGED <<invoice, paid, locked, dictated>>

\* Mutant: the balance is not read again under the lock.
RecordPayment_unchecked(r) ==
    LET i == request[r].inv IN
    /\ At(r, "recordPayment")
    /\ Exists(i) /\ ~IsTerminal(invoice[i].status)
    /\ request[r].amount <= request[r].snap.total
    /\ PaymentEffects(r)

RecordPayment(r) ==
    LET i == request[r].inv IN
    /\ At(r, "recordPayment")
    /\ Exists(i)
    /\ ~IsTerminal(invoice[i].status)
    /\ request[r].amount <= invoice[i].total - paid[i]
    /\ PaymentEffects(r)

-----------------------------------------------------------------------------
(* POST /api/invoices/:id/post: post what is there in draft, or repair an    *)
(* issued invoice that has no entry of any source.                          *)

PostBegin(r, i) ==
    /\ Exists(i)
    /\ Begin(r, i, [Resting EXCEPT !.step = "findDrafts"])
    /\ UNCHANGED <<invoice, paid, ledger, volume, locked, dictated>>

FindDrafts(r) ==
    LET entries == ledger[request[r].inv]  snap == request[r].snap IN
    /\ At(r, "findDrafts")
    /\ \/ /\ entries.draft # 0
          /\ request' = [request EXCEPT ![r].step = "postDrafts", ![r].check = {OldPeriod}]
       \/ /\ entries = NoEntries
          /\ snap.status \in {"sent", "posted", "partial", "paid"}
          /\ request' = [request EXCEPT ![r].step = "findRevenue", ![r].check = {snap.date}]
    /\ UNCHANGED <<invoice, paid, ledger, volume, locked, dictated>>

PostDrafts(r) ==
    LET i == request[r].inv IN
    /\ At(r, "postDrafts")
    /\ ledger[i].draft # 0
    /\ ledger[i].posted < MaxPosted
    /\ ledger' = [ledger EXCEPT ![i].posted = @ + 1, ![i].draft = 0,
                                ![i].sales = @ + ledger[i].draft]
    /\ volume' = [volume EXCEPT ![OldPeriod] = @ + 1]
    /\ Finish(r)
    /\ UNCHANGED <<invoice, paid, locked, dictated>>

-----------------------------------------------------------------------------
(* PUT /api/invoices/:id                                                    *)

EditBegin(r, i, row) ==
    /\ Exists(i)
    /\ ~IsTerminal(invoice[i].status)
    /\ row.status \in BodyStatuses \cup {"absent"}
    /\ Begin(r, i, [Resting EXCEPT !.step = "checkPosted", !.edit = row])
    /\ UNCHANGED <<invoice, paid, ledger, volume, locked, dictated>>

\* Mutant: a posted entry does not hold the amount.
CheckPosted_unguarded(r) ==
    LET snap == request[r].snap  edit == request[r].edit IN
    /\ At(r, "checkPosted")
    /\ request' = [request EXCEPT ![r].step = "writeEdit", ![r].check = {snap.date, edit.date}]
    /\ UNCHANGED <<invoice, paid, ledger, volume, locked, dictated>>

CheckPosted(r) ==
    LET snap == request[r].snap  edit == request[r].edit IN
    /\ At(r, "checkPosted")
    /\ ledger[request[r].inv].posted > 0 => edit.total = snap.total
    /\ request' = [request EXCEPT ![r].step = "writeEdit", ![r].check = {snap.date, edit.date}]
    /\ UNCHANGED <<invoice, paid, ledger, volume, locked, dictated>>

\* updateInvoice writes the body's columns, whatever the row has become: the
\* status too, and asks no transition table about it.
WriteEdit(r) ==
    LET i == request[r].inv  edit == request[r].edit
        status == IF edit.status = "absent" THEN invoice[i].status ELSE edit.status IN
    /\ At(r, "writeEdit")
    /\ Exists(i)
    /\ invoice' = [invoice EXCEPT ![i] = [edit EXCEPT !.status = status]]
    /\ dictated' = IF status = invoice[i].status THEN dictated ELSE dictated \cup {i}
    /\ Finish(r)
    /\ UNCHANGED <<paid, ledger, volume, locked>>

-----------------------------------------------------------------------------
(* DELETE /api/invoices/:id, for invoices past their retention.  The reads   *)
(* and the deletes of safeDeleteInvoice share a transaction but no lock.    *)

DeleteBegin(r, i) ==
    /\ i \in OldInvoices
    /\ Exists(i)
    /\ Begin(r, i, [Resting EXCEPT !.step = "checkEntries"])
    /\ UNCHANGED <<invoice, paid, ledger, volume, locked, dictated>>

CheckEntries(r) ==
    LET i == request[r].inv IN
    /\ At(r, "checkEntries")
    /\ Exists(i)
    /\ ledger[i].posted = 0 /\ ledger[i].cash = 0
    /\ request' = [request EXCEPT ![r].step = "deleteRows", ![r].amount = ledger[i].draft]
    /\ UNCHANGED <<invoice, paid, ledger, volume, locked, dictated>>

\* The row, its payment rows, and the entries read before, whatever their
\* status is by now.
DeleteRows(r) ==
    LET i == request[r].inv  amount == request[r].amount IN
    /\ At(r, "deleteRows")
    /\ invoice' = [invoice EXCEPT ![i].status = "deleted"]
    /\ paid' = [paid EXCEPT ![i] = 0]
    /\ IF amount # 0 /\ ledger[i].draft = 0 /\ Exists(i)
       THEN /\ ledger' = [ledger EXCEPT ![i].posted = @ - 1, ![i].sales = @ - amount]
            /\ volume' = [volume EXCEPT ![OldPeriod] = @ - 1]
       ELSE /\ ledger' = [ledger EXCEPT ![i].draft = 0]
            /\ UNCHANGED volume
    /\ Finish(r)
    /\ UNCHANGED <<locked, dictated>>

-----------------------------------------------------------------------------
Amounts == 1..(CHOOSE t \in Totals : \A u \in Totals : u <= t)

Creation(r) ==
    \/ \E row \in Row : CreateBegin(r, row)
    \/ \E i \in Invoices : Insert(r, i)

StatusChange(r) ==
    \/ \E i \in Invoices, to \in Statuses : StatusBegin(r, i, to)
    \/ SumPayments(r) \/ FindRevenue(r) \/ PostRevenue(r)
    \/ FindOriginal(r) \/ PostReversal(r) \/ SetStatus(r)

Payment(r) ==
    \/ \E i \in Invoices, amount \in Amounts, date \in Periods : PayBegin(r, i, amount, date)
    \/ RecordPayment(r)

Posting(r) == (\E i \in Invoices : PostBegin(r, i)) \/ FindDrafts(r) \/ PostDrafts(r)

Edit(r) ==
    \/ \E i \in Invoices, row \in Row : EditBegin(r, i, row)
    \/ CheckPosted(r) \/ WriteEdit(r)

Deletion(r) == (\E i \in Invoices : DeleteBegin(r, i)) \/ CheckEntries(r) \/ DeleteRows(r)

Handler(r) ==
    \/ Creation(r) \/ StatusChange(r) \/ Payment(r) \/ Posting(r) \/ Edit(r) \/ Deletion(r)
    \/ (\E p \in Periods : PassLock(r, p))
    \/ GiveUp(r)

Next ==
    \/ \E r \in Requests : Handler(r)
    \/ \E p \in Periods : LockPeriod(p) \/ UnlockPeriod(p)

Spec == Init /\ [][Next]_vars

-----------------------------------------------------------------------------
TypeOK ==
    /\ invoice \in [Invoices -> Row]
    /\ paid \in [Invoices -> Nat]
    /\ ledger \in [Invoices -> LedgerRow]
    /\ volume \in [Periods -> Int]
    /\ locked \subseteq Periods
    /\ request \in [Requests -> LocalState]
    /\ dictated \subseteq Invoices

\* The cash the ledger has cleared for an AED invoice is what its payment rows
\* add up to: recordInvoicePayment writes both or neither, and the deletion
\* transaction refuses an invoice with cash, in any interleaving.
CashMatchesPayments ==
    Rates = {1} => \A i \in Invoices : Exists(i) => ledger[i].cash = paid[i]

\* Customers are never overpaid: payments entered at the same time, and the
\* remainder a status change computed earlier, cannot exceed the document
\* (whose total, in the runs that check this, is never edited).
NeverOverpaid == \A i \in Invoices : paid[i] <= invoice[i].total

\* "paid" is said only of an invoice whose payments cover its total, also by
\* the branch of PATCH status that sets it from a sum read earlier; unless the
\* body of a POST or PUT said so itself, which asks nobody.
PaidMeansSettled ==
    \A i \in Invoices :
        invoice[i].status = "paid" /\ i \notin dictated => paid[i] >= invoice[i].total

\* Between requests the ledger agrees with the documents: a voided or
\* cancelled invoice recognises nothing, any other one nothing or its total;
\* one that the body of a PUT voided may be left with its total recognised.
BooksFollowInvoice ==
    Quiet => \A i \in Invoices :
        \/ ledger[i].posted = 0 /\ ledger[i].sales = 0
        \/ invoice[i].status \in {"void", "cancelled"} /\ ledger[i].sales = 0
        \/ /\ Exists(i)
           /\ invoice[i].status \in {"void", "cancelled"} => i \in dictated
           /\ ledger[i].sales = invoice[i].total * invoice[i].rate

\* A month locked at rest takes no more sales, reversals and drafts, by whatever
\* route they come and whichever date that route asks the lock about; only a
\* payment can get in, see LockedPeriodsStayClosed.
ClosedMonthsTakeNoSales ==
    [][\A p \in locked : volume'[p] # volume[p] => paid' # paid]_vars

\* The ledger implements the promise of RevenueRecognition: the number of
\* posted entries says how far the invoice has come, their net effect is the
\* revenue shown.
Revenue ==
    INSTANCE RevenueRecognition WITH
        phase <- [i \in Invoices |->
                     IF ledger[i].posted = 0 THEN "unrecognised"
                     ELSE IF ledger[i].posted = 1 THEN "recognised" ELSE "reversed"],
        amount <- [i \in Invoices |-> ledger[i].sales]

\* Revenue is recognised at most once and taken back at most once, in full.
RecognisedOnceReversedOnce == Revenue!Spec

-----------------------------------------------------------------------------
(* What comments of the source say, and the handlers do not keep in general. *)

\* Voiding takes back all the revenue of the invoice (invoices.routes.ts:692-693).
VoidLeavesNoRevenue ==
    Quiet => \A i \in Invoices :
        invoice[i].status \in {"void", "cancelled"} => ledger[i].sales = 0

\* Once a month-end is locked no entry is created in that month
\* (period-lock.service.ts:7-9), here even when months are locked at rest.
LockedPeriodsStayClosed == [][\A p \in locked : volume'[p] = volume[p]]_vars
=============================================================================
