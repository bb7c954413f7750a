----------------------------- MODULE BillPayments -----------------------------
(***************************************************************************)
(* Vendor bills and their payments (routes/bill-pay.routes.ts) and the     *)
(* entries they post (services/bill-posting.service.ts).                   *)
(*                                                                         *)
(* No route opens a transaction: a handler reads the bill once, and then   *)
(* writes the bill, its line, a payment row and the journal with separate  *)
(* awaited calls.  Each action is one of those calls with the code up to   *)
(* the next one, and a handler may end after any of them.                  *)
(*                                                                         *)
(* Money is in fils.  A bill has one line item.  Bills are in AED: the     *)
(* exchange rate is fixed when the bill is made and no route edits it.     *)
(***************************************************************************)
EXTENDS Integers, FiniteSets, FiniteSetsExt

CONSTANTS
    Bills,      \* bill ids
    Payments,   \* payment ids
    Requests,   \* handlers that may be in progress at the same time
    LineItems,  \* [net, vat]: what a bill may charge
    Amounts,    \* what a payment may pay
    Periods,    \* months
    OldBills,   \* bills whose retention has expired
    Lockable    \* months an accountant may lock

ASSUME BillAssumption ==
    /\ Bills # {} /\ Payments # {} /\ Periods # {}
    /\ LineItems # {} /\ LineItems \subseteq [net : Nat, vat : Nat]
    /\ Amounts \subseteq Nat \ {0}
    /\ OldBills \subseteq Bills /\ Lockable \subseteq Periods

VARIABLES
    bill,      \* vendor_bills
    line,      \* the amount of bill_line_items, 0 where there is no row
    payment,   \* bill_payments
    payable,   \* the posted entries with source "bill": how many, and their credit to A/P
    cleared,   \* number of posted entries with source "bill_payment" of each payment
    volume,    \* number of these entries dated in each month
    locked,    \* the months month_end_close has locked
    request    \* the local state of every handler

\* No variables of the code, and read by no action:
VARIABLES
    sealed,    \* months locked ever since a moment with no handler in progress
    past,      \* of each bill: whether two handlers were ever on it at the same time
               \* ("crossed"), or else one died between two writes ("torn")
    restated   \* bills whose total was edited under a payment or a posted payable

stored == <<bill, line, payment, payable, cleared, volume>>

history == <<sealed, past, restated>>

vars == <<bill, line, payment, payable, cleared, volume, locked, request,
          sealed, past, restated>>

-----------------------------------------------------------------------------
Statuses == {"absent", "pending", "approved", "partial", "paid", "deleted"}

\* Who accounts for the VAT: reverse_charge of the bill.
Charges == {"vendor", "reverse"}

Row == [status : Statuses, net : Nat, vat : Nat, total : Nat, paid : Nat,
        charge : Charges, date : Periods]

PaymentRow == [state : {"absent", "live", "removed"}, bill : Bills, amount : Nat, date : Periods]

Steps == {"idle", "insertBill", "insertLine", "writeBill", "dropLine", "readLine",
          "findPayable", "postPayable", "setApproved", "insertPayment", "findCleared",
          "postPayment", "undoPayment", "setPaid", "listPayments", "nextPayment"}

\* snap is the bill as the handler read it, edit the values it is to write,
\* fields which of them a PATCH changes, check the months not yet asserted open.
LocalState ==
    [step : Steps, mode : {"write", "approve", "pay", "backfill"}, bill : Bills, snap : Row,
     edit : Row, fields : SUBSET {"date", "line"}, line : Nat, amount : Nat, date : Periods,
     payment : Payments, todo : SUBSET Payments, check : SUBSET Periods]

AnyPeriod == CHOOSE p \in Periods : TRUE

NoBill == [status |-> "absent", net |-> 0, vat |-> 0, total |-> 0, paid |-> 0,
           charge |-> "vendor", date |-> AnyPeriod]

NoPayment == [state |-> "absent", bill |-> CHOOSE b \in Bills : TRUE, amount |-> 0,
              date |-> AnyPeriod]

Resting ==
    [step |-> "idle", mode |-> "write", bill |-> CHOOSE b \in Bills : TRUE, snap |-> NoBill,
     edit |-> NoBill, fields |-> {}, line |-> 0, amount |-> 0, date |-> AnyPeriod,
     payment |-> CHOOSE p \in Payments : TRUE, todo |-> {}, check |-> {}]

Init ==
    /\ bill = [b \in Bills |-> NoBill]
    /\ line = [b \in Bills |-> 0]
    /\ payment = [p \in Payments |-> NoPayment]
    /\ payable = [b \in Bills |-> [posted |-> 0, amount |-> 0]]
    /\ cleared = [p \in Payments |-> 0]
    /\ volume = [p \in Periods |-> 0]
    /\ locked = {}
    /\ request = [r \in Requests |-> Resting]
    /\ sealed = {} /\ restated = {}
    /\ past = [b \in Bills |-> "clean"]

-----------------------------------------------------------------------------
Exists(b) == bill[b].status \notin {"absent", "deleted"}

Idle(r) == request[r].step = "idle"

\* r stands before this step and has passed every period-lock check before it.
At(r, step) == request[r].step = step /\ request[r].check = {}

\* No handler but r is on bill b.
Alone(r, b) == \A q \in Requests \ {r} : Idle(q) \/ request[q].bill # b

\* A handler starts on bill b with this local state.
Begin(r, b, local) ==
    /\ Idle(r)
    /\ request' = [request EXCEPT ![r] = [local EXCEPT !.bill = b]]
    /\ past' = IF Alone(r, b) THEN past ELSE [past EXCEPT ![b] = "crossed"]
    /\ UNCHANGED <<stored, locked, sealed, restated>>

Goto(r, step) ==
    /\ request' = [request EXCEPT ![r].step = step]
    /\ UNCHANGED <<sealed, past>>

Finish(r) ==
    /\ request' = [request EXCEPT ![r] = Resting]
    /\ sealed' = IF \A q \in Requests \ {r} : Idle(q) THEN locked ELSE sealed

-----------------------------------------------------------------------------
(* assertPeriodNotLocked, and the months an accountant locks and reopens.    *)

PassLock(r, p) ==
    /\ p \in request[r].check \ locked
    /\ request' = [request EXCEPT ![r].check = @ \ {p}]
    /\ UNCHANGED <<stored, locked, history>>

LockPeriod(p) ==
    /\ locked' = locked \cup {p}
    /\ sealed' = IF \A r \in Requests : Idle(r) THEN sealed \cup {p} ELSE sealed
    /\ UNCHANGED <<stored, request, past, restated>>

UnlockPeriod(p) ==
    /\ locked' = locked \ {p}
    /\ sealed' = sealed \ {p}
    /\ UNCHANGED <<stored, request, past, restated>>

\* Between these writes and the next the rows do not agree with each other.
Midway(local) ==
    \/ local.step \in {"insertLine", "dropLine", "undoPayment", "setPaid"}
    \/ local.mode = "pay" /\ local.step \in {"findCleared", "postPayment"}

\* An early return, a failing call that ends the handler, or a crash.
GiveUp(r) ==
    /\ ~Idle(r)
    /\ Finish(r)
    /\ past' = IF Midway(request[r]) /\ past[request[r].bill] = "clean"
               THEN [past EXCEPT ![request[r].bill] = "torn"] ELSE past
    /\ UNCHANGED <<stored, locked, restated>>

-----------------------------------------------------------------------------
(* POST and PATCH bills, DELETE.  A reverse-charge bill owes its net amount   *)
(* when it is made; an edit always writes net + vat.                         *)

Create(r, b, item, charge, d) ==
    LET row == [NoBill EXCEPT !.status = "pending", !.net = item.net, !.vat = item.vat,
                              !.total = IF charge = "reverse" THEN item.net
                                                               ELSE item.net + item.vat,
                              !.charge = charge, !.date = d]
    IN  /\ bill[b].status = "absent" /\ Alone(r, b)
        /\ Begin(r, b, [Resting EXCEPT !.step = "insertBill", !.edit = row, !.check = {d}])

InsertBill(r) ==
    LET local == request[r] IN
    /\ At(r, "insertBill")
    /\ bill' = [bill EXCEPT ![local.bill] = local.edit]
    /\ Goto(r, "insertLine")
    /\ UNCHANGED <<line, payment, payable, cleared, volume, locked, restated>>

\* The foreign key refuses the line of a bill that is gone.
InsertLine(r) ==
    LET local == request[r] IN
    /\ At(r, "insertLine")
    /\ Exists(local.bill)
    /\ line' = [line EXCEPT ![local.bill] = @ + local.edit.net]
    /\ Finish(r)
    /\ UNCHANGED <<bill, payment, payable, cleared, volume, locked, past, restated>>

Edit(r, b, fields, item, d) ==
    LET values == [NoBill EXCEPT !.net = item.net, !.vat = item.vat,
                                 !.total = item.net + item.vat, !.date = d]
        checks == {bill[b].date} \cup (IF "date" \in fields THEN {d} ELSE {})
    IN  /\ Exists(b) /\ fields # {}
        /\ "date" \in fields <=> d # bill[b].date
        /\ Begin(r, b, [Resting EXCEPT !.step = "writeBill", !.edit = values,
                                       !.fields = fields, !.check = checks])

\* The UPDATE asks for the id alone, whatever the status is by now.
WriteBill(r) ==
    LET local == request[r]
        b     == local.bill
        dated == IF "date" \in local.fields THEN [bill[b] EXCEPT !.date = local.edit.date]
                                            ELSE bill[b]
        row   == IF "line" \in local.fields
                 THEN [dated EXCEPT !.net = local.edit.net, !.vat = local.edit.vat,
                                    !.total = local.edit.total]
                 ELSE dated
    IN  /\ At(r, "writeBill") /\ Exists(b)
        /\ bill' = [bill EXCEPT ![b] = row]
        /\ IF "line" \in local.fields THEN Goto(r, "dropLine")
                                      ELSE Finish(r) /\ UNCHANGED past
        /\ restated' = IF /\ "line" \in local.fields
                          /\ payable[b].posted > 0 \/ bill[b].paid > 0 \/ ~Alone(r, b)
                       THEN restated \cup {b} ELSE restated
        /\ UNCHANGED <<line, payment, payable, cleared, volume, locked>>

DropLine(r) ==
    /\ At(r, "dropLine")
    /\ line' = [line EXCEPT ![request[r].bill] = 0]
    /\ Goto(r, "insertLine")
    /\ UNCHANGED <<bill, payment, payable, cleared, volume, locked, restated>>

\* The retention of a row does not change, so its read and the DELETE are one
\* step; the line and the payments go with the bill, its entries stay.
DeleteBill(b) ==
    /\ b \in OldBills /\ Exists(b)
    /\ bill' = [bill EXCEPT ![b].status = "deleted"]
    /\ line' = [line EXCEPT ![b] = 0]
    /\ payment' = [p \in Payments |->
                      IF payment[p].state = "live" /\ payment[p].bill = b
                      THEN [payment[p] EXCEPT !.state = "removed"] ELSE payment[p]]
    /\ UNCHANGED <<payable, cleared, volume, locked, request, history>>

-----------------------------------------------------------------------------
(* Approval, and postBillApprovalJournal, which the backfill calls too.      *)

Approve(r, b) ==
    /\ bill[b].status = "pending"
    /\ Begin(r, b, [Resting EXCEPT !.step = "readLine", !.mode = "approve",
                                   !.snap = bill[b], !.check = {bill[b].date}])

ReadLine(r) ==
    /\ At(r, "readLine")
    /\ request' = [request EXCEPT ![r].line = line[request[r].bill], ![r].step = "findPayable"]
    /\ UNCHANGED <<stored, locked, history>>

AfterPayable(r) == IF request[r].mode = "approve" THEN "setApproved" ELSE "listPayments"

\* Is there a posted entry for this bill?
FindPayable(r) ==
    /\ At(r, "findPayable")
    /\ Goto(r, IF payable[request[r].bill].posted > 0 THEN AfterPayable(r) ELSE "postPayable")
    /\ UNCHANGED <<stored, locked, restated>>

\* Mutant: VAT under reverse charge is owed to the vendor as well.
PayableOf_alwaysVat(local) == local.line + local.snap.vat

\* A/P is credited for the line, as read, and for the VAT the vendor charges.
PayableOf(local) ==
    IF local.snap.charge = "reverse" THEN local.line ELSE local.line + local.snap.vat

PostPayable(r) ==
    LET local == request[r] IN
    /\ At(r, "postPayable")
    /\ payable' = [payable EXCEPT ![local.bill].posted = @ + 1,
                                  ![local.bill].amount = @ + PayableOf(local)]
    /\ volume' = [volume EXCEPT ![local.snap.date] = @ + 1]
    /\ Goto(r, AfterPayable(r))
    /\ UNCHANGED <<bill, line, payment, cleared, locked, restated>>

SetApproved(r) ==
    LET b == request[r].bill IN
    /\ At(r, "setApproved") /\ Exists(b)
    /\ bill' = [bill EXCEPT ![b].status = "approved"]
    /\ Finish(r)
    /\ UNCHANGED <<line, payment, payable, cleared, volume, locked, past, restated>>

-----------------------------------------------------------------------------
(* Payment.  The route asks for no status; 0.01, one fils, is tolerated.     *)

Tolerance == 1

\* Mutant: what was paid before is not counted.
Fits_total(row, amount) == amount <= row.total + Tolerance

Fits(row, amount) == amount <= row.total - row.paid + Tolerance

\* Mutant: the month the payment is dated in is not asked for.
Pay_unlocked(r, b, amount, d) ==
    /\ Exists(b)
    /\ Fits(bill[b], amount)
    /\ Begin(r, b, [Resting EXCEPT !.step = "insertPayment", !.mode = "pay",
                                   !.snap = bill[b], !.amount = amount, !.date = d])

Pay(r, b, amount, d) ==
    /\ Exists(b)
    /\ Fits(bill[b], amount)
    /\ Begin(r, b, [Resting EXCEPT !.step = "insertPayment", !.mode = "pay",
                                   !.snap = bill[b], !.amount = amount, !.date = d, !.check = {d}])

InsertPayment(r, p) ==
    LET local == request[r] IN
    /\ At(r, "insertPayment") /\ Exists(local.bill)
    /\ payment[p].state = "absent"
    /\ payment' = [payment EXCEPT ![p] = [state |-> "live", bill |-> local.bill,
                                          amount |-> local.amount, date |-> local.date]]
    /\ request' = [request EXCEPT ![r].payment = p, ![r].step = "findCleared"]
    /\ UNCHANGED <<bill, line, payable, cleared, volume, locked, history>>

AfterPosting(r) == IF request[r].mode = "pay" THEN "setPaid" ELSE "nextPayment"

\* postBillPaymentJournal: is there a posted entry for this payment?
FindCleared(r) ==
    /\ At(r, "findCleared")
    /\ Goto(r, IF cleared[request[r].payment] > 0 THEN AfterPosting(r) ELSE "postPayment")
    /\ UNCHANGED <<stored, locked, restated>>

PostPayment(r) ==
    LET local == request[r] IN
    /\ At(r, "postPayment")
    /\ cleared' = [cleared EXCEPT ![local.payment] = @ + 1]
    /\ volume' = [volume EXCEPT ![local.date] = @ + 1]
    /\ Goto(r, AfterPosting(r))
    /\ UNCHANGED <<bill, line, payment, payable, locked, restated>>

\* Posting throws: the route takes its payment row back and answers an error.
PostFails(r) ==
    /\ request[r].mode = "pay"
    /\ At(r, "findCleared") \/ At(r, "postPayment")
    /\ Goto(r, "undoPayment")
    /\ UNCHANGED <<stored, locked, restated>>

\* Mutant: the payment row is left where it is.
UndoPayment_keepsRow(r) ==
    /\ At(r, "undoPayment")
    /\ Finish(r)
    /\ UNCHANGED <<stored, locked, past, restated>>

UndoPayment(r) ==
    /\ At(r, "undoPayment")
    /\ payment' = [payment EXCEPT ![request[r].payment].state = "removed"]
    /\ Finish(r)
    /\ UNCHANGED <<bill, line, payable, cleared, volume, locked, past, restated>>

\* amount_paid is the sum the handler began with plus its own payment.
SetPaid(r) ==
    LET local == request[r]
        b     == local.bill
        sum   == local.snap.paid + local.amount
    IN  /\ At(r, "setPaid") /\ Exists(b)
        /\ bill' = [bill EXCEPT ![b].paid = sum,
                                ![b].status = IF sum >= local.snap.total - Tolerance
                                              THEN "paid" ELSE "partial"]
        /\ Finish(r)
        /\ UNCHANGED <<line, payment, payable, cleared, volume, locked, past, restated>>

-----------------------------------------------------------------------------
(* The backfill handles its bills one after the other and an error ends only *)
(* the bill it is about: one handler here is its pass over one bill, begun   *)
(* when the list of bills was read.                                          *)

Backfill(r, b) ==
    /\ bill[b].status \in {"approved", "paid", "partial"}
    /\ Begin(r, b, [Resting EXCEPT !.step = "readLine", !.mode = "backfill",
                                   !.snap = bill[b], !.check = {bill[b].date}])

ListPayments(r) ==
    LET rows == {p \in Payments : payment[p].state = "live" /\ payment[p].bill = request[r].bill}
    IN  /\ At(r, "listPayments")
        /\ request' = [request EXCEPT ![r].todo = rows, ![r].step = "nextPayment"]
        /\ UNCHANGED <<stored, locked, history>>

\* A payment with an entry is passed over; another's month must be open.
NextPayment(r, p) ==
    LET rest == [request[r] EXCEPT !.todo = @ \ {p}]
        turn == [rest EXCEPT !.payment = p, !.date = payment[p].date,
                             !.check = {payment[p].date}, !.step = "findCleared"]
    IN  /\ At(r, "nextPayment")
        /\ p \in request[r].todo
        /\ request' = [request EXCEPT ![r] = IF cleared[p] > 0 THEN rest ELSE turn]
        /\ UNCHANGED <<stored, locked, history>>

\* Mutant: the first payment that has its entry ends the loop.
EndBackfill_early(r) ==
    /\ At(r, "nextPayment")
    /\ Finish(r)
    /\ UNCHANGED <<stored, locked, past, restated>>

EndBackfill(r) ==
    /\ At(r, "nextPayment") /\ request[r].todo = {}
    /\ Finish(r)
    /\ UNCHANGED <<stored, locked, past, restated>>

-----------------------------------------------------------------------------
Handler(r) ==
    \/ InsertBill(r) \/ InsertLine(r) \/ WriteBill(r) \/ DropLine(r)
    \/ ReadLine(r) \/ FindPayable(r) \/ PostPayable(r) \/ SetApproved(r)
    \/ FindCleared(r) \/ PostPayment(r) \/ PostFails(r) \/ UndoPayment(r) \/ SetPaid(r)
    \/ ListPayments(r) \/ EndBackfill(r) \/ GiveUp(r)
    \/ \E p \in Payments : InsertPayment(r, p) \/ NextPayment(r, p)
    \/ \E p \in Periods : PassLock(r, p)

Request(r, b) ==
    \/ \E item \in LineItems, d \in Periods :
          \/ \E charge \in Charges : Create(r, b, item, charge, d)
          \/ \E fields \in SUBSET {"date", "line"} : Edit(r, b, fields, item, d)
    \/ \E amount \in Amounts, d \in Periods : Pay(r, b, amount, d)
    \/ Approve(r, b) \/ Backfill(r, b)

Next ==
    \/ \E r \in Requests : Handler(r) \/ \E b \in Bills : Request(r, b)
    \/ \E b \in Bills : DeleteBill(b)
    \/ \E p \in Lockable : LockPeriod(p) \/ UnlockPeriod(p)

Spec == Init /\ [][Next]_vars

-----------------------------------------------------------------------------
(* Properties *)

\* The rows, the entries and every handler's local state have their types.
TypeOK ==
    /\ bill \in [Bills -> Row]
    /\ line \in [Bills -> Nat]
    /\ payment \in [Payments -> PaymentRow]
    /\ payable \in [Bills -> [posted : Nat, amount : Nat]]
    /\ cleared \in [Payments -> Nat]
    /\ volume \in [Periods -> Nat]
    /\ locked \in SUBSET Periods
    /\ request \in [Requests -> LocalState]
    /\ sealed \in SUBSET Periods
    /\ past \in [Bills -> {"clean", "torn", "crossed"}]
    /\ restated \in SUBSET Bills

AtRest(b) == \A r \in Requests : Idle(r) \/ request[r].bill # b

PaidOut(b) ==
    MapThenSumSet(LAMBDA p : payment[p].amount,
                  {p \in Payments : payment[p].state = "live" /\ payment[p].bill = b})

\* Bill, payment rows and ledger tell the same, after any sequence of payments, failed
\* and taken back, edits, approvals and backfills, on a bill whose handlers never
\* overlapped and never died half way: amount_paid is what the rows add up to, every
\* row is in the ledger once, whether its route or the backfill posted it, and no
\* payment taken back is.
PaymentsTie ==
    \A b \in Bills : past[b] = "clean" /\ Exists(b) /\ AtRest(b) =>
        /\ bill[b].paid = PaidOut(b)
        /\ \A p \in Payments : payment[p].state # "absent" /\ payment[p].bill = b =>
              cleared[p] = IF payment[p].state = "live" THEN 1 ELSE 0

\* A/P is credited once, for what the vendor is owed, however often approval is
\* retried and the backfill run, until an edit restates the bill.
PayableOnce ==
    \A b \in Bills \ restated :
        past[b] = "clean" /\ Exists(b) /\ payable[b].posted > 0 =>
            payable[b] = [posted |-> 1,
                          amount |-> bill[b].net
                                     + (IF bill[b].charge = "reverse" THEN 0 ELSE bill[b].vat)]

\* amount_paid never passes the total by more than the tolerated fils, even
\* when payments overlap or die and are sent again: each handler writes a sum it
\* has checked, though it may be a sum that forgets a payment.
RecordedWithinTotal ==
    \A b \in Bills \ restated : Exists(b) => bill[b].paid <= bill[b].total + Tolerance

\* Nothing is dated in a month that was locked while no handler ran.
ClosedMonthsTakeNoBills == [][\A p \in sealed : volume'[p] = volume[p]]_vars

\* When the backfill comes to the end of a bill, the bill's payable and every
\* payment it has are in the ledger: also of a bill paid before it was
\* approved, and of a payment whose route died before its entry.
BackfillRepairs ==
    [][\A r \in Requests :
          LET b == request[r].bill IN
          EndBackfill(r) /\ past[b] # "crossed" =>
              /\ payable[b].posted > 0
              /\ \A p \in Payments :
                    payment[p].state = "live" /\ payment[p].bill = b => cleared[p] > 0]_vars

\* "if a journal entry already exists for (source, sourceId) the helper is a
\* no-op, so retried approvals cannot double-post" (bill-posting.service.ts:21).
RetriedApprovalsPostOnce == \A b \in Bills : payable[b].posted <= 1

\* "For reverse-charge bills the vendor does not charge VAT - the cash payable
\* is just the subtotal" (bill-pay.routes.ts:275): the total a payment is
\* checked against is the net amount.
ReverseChargeOwesNet == \A b \in Bills : bill[b].charge = "reverse" => bill[b].total = bill[b].net

=============================================================================
