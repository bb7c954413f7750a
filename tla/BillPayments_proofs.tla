------------------------- MODULE BillPayments_proofs -------------------------
(***************************************************************************)
(* Proofs about bills and their payments, for any number of bills,         *)
(* payments, handlers and months: types are kept, amount_paid stays within *)
(* the total, closed months take no entry of a bill, a payable is posted   *)
(* once, a backfill that ends leaves nothing to repair, and amount_paid,   *)
(* the payment rows and the ledger tell the same.                          *)
(***************************************************************************)
EXTENDS BillPayments, SumTheorems, TLAPS

USE BillAssumption

\* A handler that has a month still to write in has not yet asked whether the
\* month is open, or the month is not sealed.
Held(local) ==
    /\ local.step \in {"readLine", "findPayable", "postPayable"} /\ local.snap.date \in sealed
          => local.snap.date \in local.check
    /\ local.step \in {"insertPayment", "findCleared", "postPayment"} /\ local.date \in sealed
          => local.date \in local.check

SealInv == sealed \subseteq locked /\ \A r \in Requests : Held(request[r])

\* A payment in progress was found to fit the bill as it stands, unless the bill
\* was restated; a bill is inserted by the one handler that is on it.
Fitting(local) ==
    local.mode = "pay" /\ local.step # "idle" =>
        /\ bill[local.bill].status # "absent"
        /\ local.bill \notin restated =>
              /\ local.snap.total = bill[local.bill].total
              /\ local.snap.paid + local.amount <= local.snap.total + Tolerance

Writing == {"insertBill", "insertLine", "writeBill", "dropLine"}

Shaped(local) ==
    /\ local.step \in Writing => local.mode = "write"
    /\ local.step = "setPaid" => local.mode = "pay"

Inserting(r) ==
    request[r].step = "insertBill" =>
        /\ bill[request[r].bill].status = "absent" /\ request[r].edit.paid = 0
        /\ Alone(r, request[r].bill)

PaidInv ==
    /\ RecordedWithinTotal
    /\ \A r \in Requests : Fitting(request[r]) /\ Shaped(request[r]) /\ Inserting(r)

-----------------------------------------------------------------------------
LEMMA AnyPeriodType == AnyPeriod \in Periods
  BY DEF AnyPeriod

LEMMA NoBillType == NoBill \in Row
  BY AnyPeriodType DEF NoBill, Row, Statuses, Charges

LEMMA RestingType == Resting \in LocalState /\ Resting.step = "idle"
<1>1. (CHOOSE b \in Bills : TRUE) \in Bills /\ (CHOOSE p \in Payments : TRUE) \in Payments
  OBVIOUS
<1> QED BY <1>1, NoBillType, AnyPeriodType DEF Resting, LocalState, Steps

LEMMA InitType == Init => TypeOK
<1>1. NoPayment \in PaymentRow
  BY AnyPeriodType DEF NoPayment, PaymentRow
<1>2. ASSUME Init PROVE payable \in [Bills -> [posted : Nat, amount : Nat]]
  BY <1>2 DEF Init
<1> QED BY <1>1, <1>2, NoBillType, RestingType DEF Init, TypeOK

\* The local state a request begins with.
LEMMA BeginType ==
    ASSUME TypeOK, NEW r \in Requests, NEW b \in Bills, NEW local \in LocalState, Begin(r, b, local)
    PROVE  TypeOK'
<1>1. [local EXCEPT !.bill = b] \in LocalState
  BY DEF LocalState
<1>2. request' \in [Requests -> LocalState]
  BY <1>1 DEF Begin, TypeOK
<1>3. past' \in [Bills -> {"clean", "torn", "crossed"}]
  BY DEF Begin, TypeOK
<1> QED BY <1>2, <1>3 DEF Begin, TypeOK, stored

LEMMA RequestType ==
    ASSUME TypeOK, NEW r \in Requests, NEW b \in Bills, Request(r, b)
    PROVE  TypeOK'
<1>1. ASSUME NEW item \in LineItems, NEW charge \in Charges, NEW d \in Periods,
             Create(r, b, item, charge, d)
      PROVE  TypeOK'
  <2> DEFINE row == [NoBill EXCEPT !.status = "pending", !.net = item.net, !.vat = item.vat,
                               !.total = IF charge = "reverse" THEN item.net
                                                               ELSE item.net + item.vat,
                               !.charge = charge, !.date = d]
  <2>1. row \in Row
    <3>1. item.net \in Nat /\ item.vat \in Nat /\ item.net + item.vat \in Nat
      OBVIOUS
    <3> QED BY <3>1, AnyPeriodType DEF NoBill, Row, Statuses, Charges
  <2>2. [Resting EXCEPT !.step = "insertBill", !.edit = row, !.check = {d}] \in LocalState
    BY <2>1, RestingType DEF LocalState, Steps
  <2> QED BY <1>1, <2>2, BeginType DEF Create
<1>2. ASSUME NEW item \in LineItems, NEW fields \in SUBSET {"date", "line"}, NEW d \in Periods,
             Edit(r, b, fields, item, d)
      PROVE  TypeOK'
  <2> DEFINE values == [NoBill EXCEPT !.net = item.net, !.vat = item.vat,
                                  !.total = item.net + item.vat, !.date = d]
             checks == {bill[b].date} \cup (IF "date" \in fields THEN {d} ELSE {})
  <2>1. values \in Row
    <3>1. item.net \in Nat /\ item.vat \in Nat /\ item.net + item.vat \in Nat
      OBVIOUS
    <3> QED BY <3>1, AnyPeriodType DEF NoBill, Row, Statuses, Charges
  <2>2. checks \in SUBSET Periods
    BY DEF TypeOK, Row
  <2>3. [Resting EXCEPT !.step = "writeBill", !.edit = values, !.fields = fields,
                        !.check = checks] \in LocalState
    BY <2>1, <2>2, RestingType DEF LocalState, Steps
  <2> QED BY <1>2, <2>3, BeginType DEF Edit
<1>3. ASSUME NEW amount \in Amounts, NEW d \in Periods, Pay(r, b, amount, d) PROVE TypeOK'
  <2>1. [Resting EXCEPT !.step = "insertPayment", !.mode = "pay", !.snap = bill[b],
                        !.amount = amount, !.date = d, !.check = {d}] \in LocalState
    BY RestingType DEF LocalState, Steps, TypeOK
  <2> QED BY <1>3, <2>1, BeginType DEF Pay
<1>4. CASE Approve(r, b)
  <2>1. [Resting EXCEPT !.step = "readLine", !.mode = "approve",
                        !.snap = bill[b], !.check = {bill[b].date}] \in LocalState
    <3>1. bill[b] \in Row /\ {bill[b].date} \in SUBSET Periods
      BY DEF TypeOK, Row
    <3> QED BY <3>1, RestingType DEF LocalState, Steps
  <2> QED BY <1>4, <2>1, BeginType DEF Approve
<1>5. CASE Backfill(r, b)
  <2>1. [Resting EXCEPT !.step = "readLine", !.mode = "backfill",
                        !.snap = bill[b], !.check = {bill[b].date}] \in LocalState
    <3>1. bill[b] \in Row /\ {bill[b].date} \in SUBSET Periods
      BY DEF TypeOK, Row
    <3> QED BY <3>1, RestingType DEF LocalState, Steps
  <2> QED BY <1>5, <2>1, BeginType DEF Backfill
<1> QED BY <1>1, <1>2, <1>3, <1>4, <1>5 DEF Request

\* The local state a handler steps to: it goes on to a step, or is done.
LEMMA GotoType ==
    ASSUME TypeOK, NEW r \in Requests, NEW step \in Steps, Goto(r, step)
    PROVE  request' \in [Requests -> LocalState]
<1>1. request[r] \in LocalState
  BY DEF TypeOK
<1>2. [request[r] EXCEPT !.step = step] \in LocalState
  BY <1>1 DEF LocalState
<1> QED BY <1>2 DEF Goto, TypeOK

LEMMA FinishType ==
    ASSUME TypeOK, NEW r \in Requests, Finish(r)
    PROVE  request' \in [Requests -> LocalState] /\ sealed' \in SUBSET Periods
BY RestingType DEF Finish, TypeOK

LEMMA AfterType ==
    ASSUME NEW r \in Requests PROVE AfterPayable(r) \in Steps /\ AfterPosting(r) \in Steps
BY DEF AfterPayable, AfterPosting, Steps

LEMMA HandlerType ==
    ASSUME TypeOK, NEW r \in Requests, Handler(r)
    PROVE  TypeOK'
<1> DEFINE local == request[r]
<1>0. /\ local.bill \in Bills /\ local.edit \in Row /\ local.snap \in Row /\ local.line \in Nat
      /\ local.payment \in Payments /\ local.amount \in Nat /\ local.date \in Periods
      /\ local.fields \in SUBSET {"date", "line"} /\ local.check \in SUBSET Periods
      /\ local.todo \in SUBSET Payments
  BY DEF TypeOK, LocalState
<1>l. request[r] \in LocalState
  BY DEF TypeOK
<1> HIDE DEF local
<1>1. CASE InsertBill(r)
  <2>1. bill' = [bill EXCEPT ![local.bill] = local.edit]
    BY <1>1 DEF InsertBill, local
  <2>2. "insertLine" \in Steps
    BY DEF Steps
  <2> QED BY <1>0, <1>1, <2>1, <2>2, GotoType DEF InsertBill, Goto, TypeOK
<1>2. CASE InsertLine(r)
  <2>1. line' = [line EXCEPT ![local.bill] = @ + local.edit.net]
    BY <1>2 DEF InsertLine, local
  <2>2. local.edit.net \in Nat /\ line[local.bill] \in Nat
    BY <1>0 DEF Row, TypeOK
  <2>3. line' \in [Bills -> Nat]
    BY <1>0, <2>1, <2>2 DEF TypeOK
  <2> QED BY <1>2, <2>3, FinishType DEF InsertLine, TypeOK
<1>3. CASE WriteBill(r)
  <2>1. PICK row \in Row : bill' = [bill EXCEPT ![local.bill] = row]
    <3> DEFINE b == local.bill
               dated == IF "date" \in local.fields THEN [bill[b] EXCEPT !.date = local.edit.date]
                                                   ELSE bill[b]
               row == IF "line" \in local.fields
                      THEN [dated EXCEPT !.net = local.edit.net, !.vat = local.edit.vat,
                                         !.total = local.edit.total]
                      ELSE dated
    <3>1. bill[b] \in Row
      BY <1>0 DEF TypeOK
    <3>2. dated \in Row
      BY <1>0, <3>1 DEF Row
    <3> HIDE DEF dated
    <3>3. row \in Row
      BY <1>0, <3>2 DEF Row
    <3>4. bill' = [bill EXCEPT ![b] = row]
      BY <1>3 DEF WriteBill, local, dated
    <3> QED BY <3>3, <3>4
  <2>2. request' \in [Requests -> LocalState] /\ sealed' \in SUBSET Periods
        /\ past' \in [Bills -> {"clean", "torn", "crossed"}]
    <3>1. CASE Goto(r, "dropLine")
      BY <3>1, GotoType DEF Goto, Steps, TypeOK
    <3>2. CASE Finish(r) /\ UNCHANGED past
      BY <3>2, FinishType DEF TypeOK
    <3> QED BY <1>3, <3>1, <3>2 DEF WriteBill
  <2>3. restated' \in SUBSET Bills
    BY <1>0, <1>3 DEF WriteBill, TypeOK, local
  <2>4. bill' \in [Bills -> Row]
    BY <1>0, <2>1 DEF TypeOK
  <2>5. UNCHANGED <<line, payment, payable, cleared, volume, locked>>
    BY <1>3 DEF WriteBill
  <2> QED BY <2>2, <2>3, <2>4, <2>5 DEF TypeOK
<1>4. CASE DropLine(r)
  <2>1. line' \in [Bills -> Nat]
    BY <1>4 DEF DropLine, TypeOK
  <2>2. "insertLine" \in Steps
    BY DEF Steps
  <2> QED BY <1>4, <2>1, <2>2, GotoType DEF DropLine, Goto, TypeOK
<1>5. CASE ReadLine(r)
  <2>1. line[local.bill] \in Nat
    BY <1>0 DEF TypeOK
  <2>2. [request[r] EXCEPT !.line = line[local.bill], !.step = "findPayable"] \in LocalState
    BY <1>l, <2>1 DEF LocalState, Steps
  <2>3. request' \in [Requests -> LocalState]
    BY <1>5, <2>2 DEF ReadLine, TypeOK, local
  <2> QED BY <1>5, <2>3 DEF ReadLine, TypeOK, stored, history
<1>6. CASE FindPayable(r)
  <2>1. (IF payable[request[r].bill].posted > 0 THEN AfterPayable(r) ELSE "postPayable") \in Steps
    BY AfterType DEF Steps
  <2> QED BY <1>6, <2>1, GotoType DEF FindPayable, Goto, TypeOK, stored
<1>7. CASE PostPayable(r)
  <2>1. PayableOf(local) \in Nat
    BY <1>0 DEF PayableOf, Row
  <2>2. payable' = [payable EXCEPT ![local.bill].posted = @ + 1,
                                   ![local.bill].amount = @ + PayableOf(local)]
        /\ volume' = [volume EXCEPT ![local.snap.date] = @ + 1]
    BY <1>7 DEF PostPayable, local
  <2>3. payable' \in [Bills -> [posted : Nat, amount : Nat]]
    BY <1>0, <2>1, <2>2 DEF TypeOK
  <2>4. local.snap.date \in Periods
    BY <1>0 DEF Row
  <2>5. volume' \in [Periods -> Nat]
    BY <2>2, <2>4 DEF TypeOK
  <2> QED BY <1>7, <2>3, <2>5, AfterType, GotoType DEF PostPayable, Goto, TypeOK
<1>8. CASE SetApproved(r)
  <2>1. bill' = [bill EXCEPT ![local.bill].status = "approved"]
    BY <1>8 DEF SetApproved, local
  <2>2. bill' \in [Bills -> Row]
    BY <1>0, <2>1 DEF TypeOK, Row, Statuses
  <2> QED BY <1>8, <2>2, FinishType DEF SetApproved, TypeOK
<1>9. CASE FindCleared(r)
  <2>1. (IF cleared[request[r].payment] > 0 THEN AfterPosting(r) ELSE "postPayment") \in Steps
    BY AfterType DEF Steps
  <2> QED BY <1>9, <2>1, GotoType DEF FindCleared, Goto, TypeOK, stored
<1>10. CASE PostPayment(r)
  <2>1. cleared' = [cleared EXCEPT ![local.payment] = @ + 1]
        /\ volume' = [volume EXCEPT ![local.date] = @ + 1]
    BY <1>10 DEF PostPayment, local
  <2>2. cleared' \in [Payments -> Nat] /\ volume' \in [Periods -> Nat]
    BY <1>0, <2>1 DEF TypeOK
  <2> QED BY <1>10, <2>2, AfterType, GotoType DEF PostPayment, Goto, TypeOK
<1>11. CASE PostFails(r)
  <2>1. "undoPayment" \in Steps
    BY DEF Steps
  <2> QED BY <1>11, <2>1, GotoType DEF PostFails, Goto, TypeOK, stored
<1>12. CASE UndoPayment(r)
  <2>1. payment' = [payment EXCEPT ![local.payment].state = "removed"]
    BY <1>12 DEF UndoPayment, local
  <2>2. payment' \in [Payments -> PaymentRow]
    BY <1>0, <2>1 DEF TypeOK, PaymentRow
  <2> QED BY <1>12, <2>2, FinishType DEF UndoPayment, TypeOK
<1>13. CASE SetPaid(r)
  <2> DEFINE sum == local.snap.paid + local.amount
             status == IF sum >= local.snap.total - Tolerance THEN "paid" ELSE "partial"
  <2>1. bill' = [bill EXCEPT ![local.bill].paid = sum, ![local.bill].status = status]
    BY <1>13 DEF SetPaid, local
  <2>2. sum \in Nat /\ status \in Statuses
    BY <1>0 DEF Row, Statuses
  <2> HIDE DEF sum, status
  <2>3. bill' \in [Bills -> Row]
    BY <1>0, <2>1, <2>2 DEF TypeOK, Row
  <2> QED BY <1>13, <2>3, FinishType DEF SetPaid, TypeOK
<1>14. CASE ListPayments(r)
  <2> DEFINE rows == {p \in Payments : payment[p].state = "live" /\ payment[p].bill = request[r].bill}
  <2>1. [request[r] EXCEPT !.todo = rows, !.step = "nextPayment"] \in LocalState
    BY <1>l DEF LocalState, Steps
  <2>2. request' \in [Requests -> LocalState]
    BY <1>14, <2>1 DEF ListPayments, TypeOK
  <2> QED BY <1>14, <2>2 DEF ListPayments, TypeOK, stored, history
<1>15. CASE EndBackfill(r)
  BY <1>15, FinishType DEF EndBackfill, TypeOK, stored
<1>16. CASE GiveUp(r)
  <2>1. past' \in [Bills -> {"clean", "torn", "crossed"}]
    BY <1>16 DEF GiveUp, TypeOK
  <2> QED BY <1>16, <2>1, FinishType DEF GiveUp, TypeOK, stored
<1>17. ASSUME NEW p \in Payments, InsertPayment(r, p) PROVE TypeOK'
  <2>1. payment' = [payment EXCEPT ![p] = [state |-> "live", bill |-> local.bill,
                                           amount |-> local.amount, date |-> local.date]]
    BY <1>17 DEF InsertPayment, local
  <2>2. payment' \in [Payments -> PaymentRow]
    BY <1>0, <2>1 DEF TypeOK, PaymentRow
  <2>3. [request[r] EXCEPT !.payment = p, !.step = "findCleared"] \in LocalState
    BY <1>l DEF LocalState, Steps
  <2>4. request' \in [Requests -> LocalState]
    BY <1>17, <2>3 DEF InsertPayment, TypeOK
  <2> QED BY <1>17, <2>2, <2>4 DEF InsertPayment, TypeOK, history
<1>18. ASSUME NEW p \in Payments, NextPayment(r, p) PROVE TypeOK'
  <2>1. payment[p].date \in Periods /\ {payment[p].date} \in SUBSET Periods
    BY DEF TypeOK, PaymentRow
  <2> DEFINE rest == [request[r] EXCEPT !.todo = @ \ {p}]
             turn == [rest EXCEPT !.payment = p, !.date = payment[p].date,
                                  !.check = {payment[p].date}, !.step = "findCleared"]
  <2>2. rest \in LocalState
    BY <1>l DEF LocalState
  <2> HIDE DEF rest
  <2>5. turn \in LocalState
    BY <2>1, <2>2 DEF LocalState, Steps
  <2> HIDE DEF turn
  <2>3. request' = [request EXCEPT ![r] = IF cleared[p] > 0 THEN rest ELSE turn]
    BY <1>18 DEF NextPayment, rest, turn
  <2>4. request' \in [Requests -> LocalState]
    BY <2>2, <2>3, <2>5 DEF TypeOK
  <2> QED BY <1>18, <2>4 DEF NextPayment, TypeOK, stored, history
<1>19. ASSUME NEW p \in Periods, PassLock(r, p) PROVE TypeOK'
  <2>1. [request[r] EXCEPT !.check = @ \ {p}] \in LocalState
    BY <1>l DEF LocalState
  <2>2. request' \in [Requests -> LocalState]
    BY <1>19, <2>1 DEF PassLock, TypeOK
  <2> QED BY <1>19, <2>2 DEF PassLock, TypeOK, stored, history
<1> QED BY <1>1, <1>2, <1>3, <1>4, <1>5, <1>6, <1>7, <1>8, <1>9, <1>10, <1>11, <1>12, <1>13,
           <1>14, <1>15, <1>16, <1>17, <1>18, <1>19 DEF Handler

LEMMA TypeStep == TypeOK /\ [Next]_vars => TypeOK'
<1> SUFFICES ASSUME TypeOK, [Next]_vars PROVE TypeOK'
  OBVIOUS
<1>1. ASSUME NEW b \in Bills, DeleteBill(b) PROVE TypeOK'
  <2>1. bill' \in [Bills -> Row]
    <3>1. \A row \in Row : [row EXCEPT !.status = "deleted"] \in Row
      BY DEF Row, Statuses
    <3>2. bill \in [Bills -> Row]
      BY DEF TypeOK
    <3>3. bill' = [bill EXCEPT ![b] = [bill[b] EXCEPT !.status = "deleted"]]
      BY <1>1, <3>2 DEF DeleteBill
    <3> QED BY <3>1, <3>2, <3>3
  <2>2. \A p \in Payments : [payment[p] EXCEPT !.state = "removed"] \in PaymentRow
    BY DEF TypeOK, PaymentRow
  <2>3. payment' \in [Payments -> PaymentRow]
    BY <1>1, <2>2 DEF DeleteBill, TypeOK
  <2>4. line' \in [Bills -> Nat]
    BY <1>1 DEF DeleteBill, TypeOK
  <2> QED BY <1>1, <2>1, <2>3, <2>4 DEF DeleteBill, TypeOK, history
<1>2. ASSUME NEW p \in Lockable, LockPeriod(p) \/ UnlockPeriod(p) PROVE TypeOK'
  BY <1>2 DEF LockPeriod, UnlockPeriod, TypeOK, stored
<1>3. CASE UNCHANGED vars
  BY <1>3 DEF vars, TypeOK
<1> QED BY <1>1, <1>2, <1>3, HandlerType, RequestType DEF Next

\* Rows, entries and local states keep their types.
THEOREM TypesKept == Spec => []TypeOK
<1> QED BY InitType, TypeStep, PTL DEF Spec

-----------------------------------------------------------------------------
(* Closed months: a month is sealed only while no handler is in progress, so *)
(* one that starts later asks for it and is refused.                         *)

LEMMA HeldOn ==
    ASSUME TypeOK, SealInv, NEW r \in Requests, NEW new, Held(new),
           request' = [request EXCEPT ![r] = new], UNCHANGED <<locked, sealed>>
    PROVE  SealInv'
BY DEF SealInv, Held, TypeOK

LEMMA FinishSeals ==
    ASSUME TypeOK, SealInv, NEW r \in Requests, Finish(r), UNCHANGED locked
    PROVE  SealInv'
<1>1. request' = [request EXCEPT ![r] = Resting] /\ Held(Resting)
  BY RestingType DEF Finish, Held
<1>2. CASE \A q \in Requests \ {r} : Idle(q)
  <2>1. \A q \in Requests : request'[q].step = "idle"
    BY <1>1, <1>2, RestingType DEF Idle, TypeOK
  <2>2. sealed' \subseteq locked'
    BY <1>2 DEF Finish
  <2> QED BY <2>1, <2>2 DEF SealInv, Held
<1>3. CASE sealed' = sealed
  BY <1>1, <1>3, HeldOn DEF SealInv
<1> QED BY <1>2, <1>3 DEF Finish

\* What a request begins with.
LEMMA RequestSeals ==
    ASSUME TypeOK, SealInv, NEW r \in Requests, NEW b \in Bills, Request(r, b)
    PROVE  SealInv'
<1>1. ASSUME NEW local \in LocalState, Begin(r, b, local), Held(local) PROVE SealInv'
  <2>1. Held([local EXCEPT !.bill = b])
    BY <1>1 DEF Held, LocalState
  <2> QED BY <1>1, <2>1, HeldOn DEF Begin
<1>2. ASSUME NEW item \in LineItems, NEW charge \in Charges, NEW d \in Periods,
             Create(r, b, item, charge, d)
      PROVE  SealInv'
  <2>1. PICK row : Begin(r, b, [Resting EXCEPT !.step = "insertBill", !.edit = row, !.check = {d}])
    BY <1>2 DEF Create
  <2>2. [Resting EXCEPT !.step = "insertBill", !.edit = row, !.check = {d},
                        !.bill = b].step = "insertBill"
    BY RestingType DEF LocalState
  <2> QED BY <2>1, <2>2, RestingType, HeldOn DEF Begin, Held, LocalState
<1>3. ASSUME NEW item \in LineItems, NEW fields \in SUBSET {"date", "line"}, NEW d \in Periods,
             Edit(r, b, fields, item, d)
      PROVE  SealInv'
  <2>1. PICK row, checks : Begin(r, b, [Resting EXCEPT !.step = "writeBill", !.edit = row,
                                                   !.fields = fields, !.check = checks])
    BY <1>3 DEF Edit
  <2>2. [Resting EXCEPT !.step = "writeBill", !.edit = row, !.fields = fields,
                        !.check = checks, !.bill = b].step = "writeBill"
    BY RestingType DEF LocalState
  <2> QED BY <2>1, <2>2, RestingType, HeldOn DEF Begin, Held, LocalState
<1>4. ASSUME NEW amount \in Amounts, NEW d \in Periods, Pay(r, b, amount, d) PROVE SealInv'
  <2> DEFINE local == [Resting EXCEPT !.step = "insertPayment", !.mode = "pay", !.snap = bill[b],
                                      !.amount = amount, !.date = d, !.check = {d}]
  <2>1. local \in LocalState
    BY RestingType DEF LocalState, Steps, TypeOK
  <2>2. Held(local)
    BY RestingType DEF Held, LocalState
  <2> QED BY <1>1, <1>4, <2>1, <2>2 DEF Pay
<1>5. CASE Approve(r, b) \/ Backfill(r, b)
  <2>1. PICK mode \in {"approve", "backfill"} :
           Begin(r, b, [Resting EXCEPT !.step = "readLine", !.mode = mode, !.snap = bill[b],
                                       !.check = {bill[b].date}])
    BY <1>5 DEF Approve, Backfill
  <2> DEFINE local == [Resting EXCEPT !.step = "readLine", !.mode = mode, !.snap = bill[b],
                                      !.check = {bill[b].date}]
  <2>2. bill[b] \in Row /\ {bill[b].date} \in SUBSET Periods
    BY DEF TypeOK, Row
  <2>3. local \in LocalState
    BY <2>2, RestingType DEF LocalState, Steps
  <2>4. Held(local)
    BY RestingType DEF Held, LocalState
  <2> QED BY <1>1, <2>1, <2>3, <2>4
<1> QED BY <1>2, <1>3, <1>4, <1>5 DEF Request

LEMMA HandlerSeals ==
    ASSUME TypeOK, SealInv, NEW r \in Requests, Handler(r)
    PROVE  SealInv'
<1>1. request[r] \in LocalState /\ Held(request[r])
  BY DEF TypeOK, SealInv
<1>2. ASSUME NEW step, Goto(r, step), UNCHANGED locked,
             \/ step \notin {"readLine", "findPayable", "postPayable", "insertPayment",
                            "findCleared", "postPayment"}
             \/ /\ step = "postPayable" /\ request[r].step = "findPayable"
             \/ /\ step = "postPayment" /\ request[r].step = "findCleared"
      PROVE  SealInv'
  <2> DEFINE new == [request[r] EXCEPT !.step = step]
  <2>1. Held(new)
    BY <1>1, <1>2 DEF Held, LocalState
  <2>2. request' = [request EXCEPT ![r] = new] /\ UNCHANGED <<locked, sealed>>
    BY <1>2 DEF Goto, TypeOK
  <2> HIDE DEF new
  <2> QED BY <2>1, <2>2, HeldOn
<1>3. CASE InsertBill(r) \/ DropLine(r) \/ PostFails(r)
  BY <1>2, <1>3 DEF InsertBill, DropLine, PostFails, stored
<1>4. CASE InsertLine(r) \/ SetApproved(r) \/ UndoPayment(r) \/ SetPaid(r) \/ EndBackfill(r)
           \/ GiveUp(r)
  BY <1>4, FinishSeals
     DEF InsertLine, SetApproved, UndoPayment, SetPaid, EndBackfill, GiveUp, stored
<1>5. CASE WriteBill(r)
  BY <1>2, <1>5, FinishSeals DEF WriteBill
<1>6. CASE ReadLine(r)
  <2> DEFINE new == [request[r] EXCEPT !.line = line[request[r].bill], !.step = "findPayable"]
  <2>1. Held(new)
    BY <1>1, <1>6 DEF Held, LocalState, ReadLine, At
  <2>2. request' = [request EXCEPT ![r] = new] /\ UNCHANGED <<locked, sealed>>
    BY <1>6 DEF ReadLine, TypeOK, history
  <2> HIDE DEF new
  <2> QED BY <2>1, <2>2, HeldOn
<1>7. CASE FindPayable(r) \/ PostPayable(r)
  <2>1. AfterPayable(r) \in {"setApproved", "listPayments"}
    BY DEF AfterPayable
  <2> QED BY <1>2, <1>7, <2>1 DEF FindPayable, PostPayable, At, stored
<1>8. CASE FindCleared(r) \/ PostPayment(r)
  <2>1. AfterPosting(r) \in {"setPaid", "nextPayment"}
    BY DEF AfterPosting
  <2> QED BY <1>2, <1>8, <2>1 DEF FindCleared, PostPayment, At, stored
<1>9. CASE ListPayments(r)
  <2>1. PICK rows : request' = [request EXCEPT ![r] = [request[r] EXCEPT !.todo = rows,
                                                                 !.step = "nextPayment"]]
    BY <1>9 DEF ListPayments, TypeOK
  <2>2. Held([request[r] EXCEPT !.todo = rows, !.step = "nextPayment"])
    BY <1>1 DEF Held, LocalState
  <2> QED BY <1>9, <2>1, <2>2, HeldOn DEF ListPayments, history
<1>10. ASSUME NEW p \in Payments, InsertPayment(r, p) PROVE SealInv'
  <2> DEFINE new == [request[r] EXCEPT !.payment = p, !.step = "findCleared"]
  <2>1. Held(new)
    BY <1>1, <1>10 DEF Held, LocalState, InsertPayment, At
  <2>2. request' = [request EXCEPT ![r] = new] /\ UNCHANGED <<locked, sealed>>
    BY <1>10 DEF InsertPayment, TypeOK, history
  <2> HIDE DEF new
  <2> QED BY <2>1, <2>2, HeldOn
<1>11. ASSUME NEW p \in Payments, NextPayment(r, p) PROVE SealInv'
  <2> DEFINE rest == [request[r] EXCEPT !.todo = @ \ {p}]
             turn == [rest EXCEPT !.payment = p, !.date = payment[p].date,
                                  !.check = {payment[p].date}, !.step = "findCleared"]
  <2>1. Held(rest) /\ rest \in LocalState
    BY <1>1, <1>11 DEF Held, LocalState, NextPayment, At
  <2> HIDE DEF rest
  <2>2. Held(turn)
    BY <2>1 DEF Held, LocalState
  <2> HIDE DEF turn
  <2>3. /\ request' = [request EXCEPT ![r] = IF cleared[p] > 0 THEN rest ELSE turn]
        /\ UNCHANGED <<locked, sealed>>
    BY <1>11 DEF NextPayment, history, rest, turn
  <2>4. CASE cleared[p] > 0
    BY <2>1, <2>3, <2>4, HeldOn
  <2>5. CASE ~(cleared[p] > 0)
    BY <2>2, <2>3, <2>5, HeldOn
  <2> QED BY <2>4, <2>5
<1>12. ASSUME NEW p \in Periods, PassLock(r, p) PROVE SealInv'
  <2> DEFINE new == [request[r] EXCEPT !.check = @ \ {p}]
  <2>1. p \notin sealed
    BY <1>12 DEF PassLock, SealInv
  <2>2. Held(new)
    BY <1>1, <2>1 DEF Held, LocalState
  <2>3. request' = [request EXCEPT ![r] = new] /\ UNCHANGED <<locked, sealed>>
    BY <1>12 DEF PassLock, TypeOK, history
  <2> HIDE DEF new
  <2> QED BY <2>2, <2>3, HeldOn
<1> QED BY <1>3, <1>4, <1>5, <1>6, <1>7, <1>8, <1>9, <1>10, <1>11, <1>12 DEF Handler

LEMMA SealStep == TypeOK /\ SealInv /\ [Next]_vars => SealInv'
<1> SUFFICES ASSUME TypeOK, SealInv, [Next]_vars PROVE SealInv'
  OBVIOUS
<1>1. ASSUME NEW b \in Bills, DeleteBill(b) PROVE SealInv'
  BY <1>1 DEF DeleteBill, history, SealInv, Held
<1>2. ASSUME NEW p \in Lockable, LockPeriod(p) PROVE SealInv'
  BY <1>2 DEF LockPeriod, SealInv, Held, Idle
<1>3. ASSUME NEW p \in Lockable, UnlockPeriod(p) PROVE SealInv'
  BY <1>3 DEF UnlockPeriod, SealInv, Held
<1>4. CASE UNCHANGED vars
  BY <1>4 DEF vars, SealInv, Held
<1> QED BY <1>1, <1>2, <1>3, <1>4, HandlerSeals, RequestSeals DEF Next

\* The only writers of the ledger stand before a month they have asked for.
LEMMA VolumeStep ==
    ASSUME TypeOK, SealInv, [Next]_vars, NEW p \in sealed PROVE volume'[p] = volume[p]
<1>1. ASSUME NEW r \in Requests, PostPayable(r) PROVE volume'[p] = volume[p]
  <2>1. Held(request[r]) /\ request[r].step = "postPayable" /\ request[r].check = {}
    BY <1>1 DEF SealInv, PostPayable, At
  <2>2. volume' = [volume EXCEPT ![request[r].snap.date] = @ + 1]
    BY <1>1 DEF PostPayable
  <2> QED BY <2>1, <2>2 DEF Held, TypeOK
<1>2. ASSUME NEW r \in Requests, PostPayment(r) PROVE volume'[p] = volume[p]
  <2>1. Held(request[r]) /\ request[r].step = "postPayment" /\ request[r].check = {}
    BY <1>2 DEF SealInv, PostPayment, At
  <2>2. volume' = [volume EXCEPT ![request[r].date] = @ + 1]
    BY <1>2 DEF PostPayment
  <2> QED BY <2>1, <2>2 DEF Held, TypeOK
<1>3. CASE UNCHANGED volume
  BY <1>3
<1>4. ASSUME NEW r \in Requests, Handler(r) PROVE volume'[p] = volume[p]
  BY <1>1, <1>2, <1>3, <1>4
     DEF Handler, InsertBill, InsertLine, WriteBill, DropLine, ReadLine, FindPayable, SetApproved,
         FindCleared, PostFails, UndoPayment, SetPaid, ListPayments, EndBackfill, GiveUp,
         InsertPayment, NextPayment, PassLock, stored
<1>5. ASSUME NEW r \in Requests, NEW b \in Bills, Request(r, b) PROVE volume'[p] = volume[p]
  BY <1>5 DEF Request, Create, Edit, Pay, Approve, Backfill, Begin, stored
<1> QED BY <1>3, <1>4, <1>5 DEF Next, DeleteBill, LockPeriod, UnlockPeriod, vars, stored

\* No entry of a bill or a payment is dated in a month that was locked while no
\* handler was in progress.
THEOREM ClosedMonthsStayClosed == Spec => ClosedMonthsTakeNoBills
<1>1. Init => SealInv
  BY RestingType DEF Init, SealInv, Held
<1>2. TypeOK /\ SealInv /\ [Next]_vars => [\A p \in sealed : volume'[p] = volume[p]]_vars
  BY VolumeStep
<1> QED BY <1>1, <1>2, InitType, TypeStep, SealStep, PTL DEF Spec, ClosedMonthsTakeNoBills

-----------------------------------------------------------------------------
(* amount_paid: a handler writes the sum it has checked against the total it *)
(* read, and that total stands unless an edit restated the bill.             *)

\* What leaves the totals of the bills and what payments in progress know alone.
SameSums ==
    /\ \A b \in Bills : /\ bill'[b].total = bill[b].total /\ bill'[b].paid = bill[b].paid
                        /\ bill'[b].status = "absent" <=> bill[b].status = "absent"
                        /\ Exists(b)' => Exists(b)
    /\ restated' = restated

LEMMA QuietStep ==
    ASSUME TypeOK, PaidInv, NEW r \in Requests, NEW new, SameSums,
           request' = [request EXCEPT ![r] = new],
           \/ new.step = "idle"
           \/ /\ request[r].step # "idle"
              /\ new.mode = request[r].mode /\ new.bill = request[r].bill
              /\ new.snap = request[r].snap /\ new.amount = request[r].amount
              /\ new.edit = request[r].edit /\ Shaped(new)
              /\ new.step = "insertBill" => request[r].step = "insertBill"
    PROVE  PaidInv'
<1> USE DEF PaidInv
<1>1. RecordedWithinTotal'
  BY DEF SameSums, RecordedWithinTotal
<1>2. request'[r] = new /\ \A q \in Requests \ {r} : request'[q] = request[q]
  BY DEF TypeOK
<1>3. ASSUME NEW q \in Requests PROVE Shaped(request'[q])
  BY <1>2 DEF Shaped, Writing
<1>4. ASSUME NEW q \in Requests PROVE Fitting(request[q])'
  <2>1. request[q].bill \in Bills /\ Fitting(request[q]) /\ Fitting(request[r])
        /\ request[r].bill \in Bills
    BY DEF TypeOK, LocalState
  <2> QED BY <1>2, <2>1 DEF Fitting, SameSums
<1>5. ASSUME NEW q \in Requests PROVE Inserting(q)'
  <2>1. request[q].bill \in Bills /\ request[r].bill \in Bills /\ Inserting(q) /\ Inserting(r)
    BY DEF TypeOK, LocalState
  <2> QED BY <1>2, <2>1 DEF Inserting, SameSums, Alone, Idle
<1> QED BY <1>1, <1>3, <1>4, <1>5 DEF Shaped

LEMMA HandlerPaid ==
    ASSUME TypeOK, PaidInv, NEW r \in Requests, Handler(r)
    PROVE  PaidInv'
<1>1. /\ request[r] \in LocalState /\ Shaped(request[r]) /\ Fitting(request[r]) /\ Inserting(r)
      /\ request[r].bill \in Bills
  BY DEF TypeOK, PaidInv, LocalState
<1>2. ASSUME NEW step, Goto(r, step), SameSums, ~Idle(r),
             step = "setPaid" => request[r].mode = "pay",
             step \in Writing => request[r].mode = "write" /\ step # "insertBill"
      PROVE  PaidInv'
  <2> DEFINE new == [request[r] EXCEPT !.step = step]
  <2>1. /\ new.step = step /\ new.mode = request[r].mode /\ new.bill = request[r].bill
        /\ new.snap = request[r].snap /\ new.amount = request[r].amount
        /\ new.edit = request[r].edit
    BY <1>1 DEF LocalState
  <2>2. request' = [request EXCEPT ![r] = new]
    BY <1>2 DEF Goto, TypeOK
  <2> HIDE DEF new
  <2>3. Shaped(new)
    BY <1>2, <2>1 DEF Shaped
  <2>4. request[r].step # "idle" /\ (new.step = "insertBill" => request[r].step = "insertBill")
    BY <1>2, <2>1 DEF Idle, Writing
  <2> QED BY <1>2, <2>1, <2>2, <2>3, <2>4, QuietStep
<1>3. ASSUME Finish(r), SameSums PROVE PaidInv'
  BY <1>3, RestingType, QuietStep DEF Finish
<1>4. ASSUME UNCHANGED <<bill, restated>> PROVE SameSums
  BY <1>4 DEF SameSums, Exists
<1>5. CASE InsertBill(r)
  <2> DEFINE b == request[r].bill
  <2>1. /\ bill' = [bill EXCEPT ![b] = request[r].edit] /\ restated' = restated
        /\ bill[b].status = "absent" /\ request[r].edit.paid = 0 /\ Alone(r, b)
        /\ request[r].edit \in Row
    BY <1>1, <1>5 DEF InsertBill, Inserting, At, LocalState
  <2>2. /\ \A q \in Requests \ {r} : request'[q] = request[q]
        /\ request'[r].step = "insertLine" /\ request'[r].mode = "write" /\ request'[r].bill = b
    BY <1>1, <1>5 DEF InsertBill, Goto, TypeOK, LocalState, Shaped, Writing, At
  <2>3. RecordedWithinTotal'
    <3>1. bill'[b].paid <= bill'[b].total + Tolerance
      BY <1>1, <2>1 DEF Row, Tolerance, TypeOK
    <3> QED BY <1>1, <2>1, <3>1 DEF RecordedWithinTotal, PaidInv, TypeOK, Exists
  <2>4. ASSUME NEW q \in Requests PROVE Fitting(request[q])'
    <3>1. CASE q = r
      BY <2>2, <3>1 DEF Fitting
    <3>2. CASE q # r
      <4>1. request[q].step = "idle" \/ request[q].bill # b
        BY <2>1, <3>2 DEF Alone, Idle
      <4>2. request[q].bill \in Bills /\ Fitting(request[q])
        BY DEF TypeOK, LocalState, PaidInv
      <4> QED BY <2>1, <2>2, <3>2, <4>1, <4>2 DEF Fitting, TypeOK
    <3> QED BY <3>1, <3>2
  <2>5. ASSUME NEW q \in Requests PROVE Shaped(request'[q])
    BY <2>2 DEF Shaped, Writing, PaidInv
  <2>6. ASSUME NEW q \in Requests PROVE Inserting(q)'
    <3>1. CASE q = r
      BY <2>2, <3>1 DEF Inserting
    <3>2. CASE q # r
      <4>1. request[q].step = "idle" \/ request[q].bill # b
        BY <2>1, <3>2 DEF Alone, Idle
      <4>2. request[q].bill \in Bills /\ Inserting(q)
        BY DEF TypeOK, LocalState, PaidInv
      <4> QED BY <1>1, <2>1, <2>2, <3>2, <4>1, <4>2 DEF Inserting, Alone, Idle, TypeOK
    <3> QED BY <3>1, <3>2
  <2> QED BY <2>3, <2>4, <2>5, <2>6 DEF PaidInv, Shaped
<1>6. CASE WriteBill(r)
  <2> DEFINE b == request[r].bill
  <2>1. request[r].mode = "write" /\ Exists(b) /\ request[r].step = "writeBill"
    BY <1>1, <1>6 DEF WriteBill, Shaped, Writing, At
  <2>2. /\ \A c \in Bills \ {b} : bill'[c] = bill[c]
        /\ bill'[b].paid = bill[b].paid /\ bill'[b].status = bill[b].status
        /\ "line" \notin request[r].fields => bill'[b].total = bill[b].total
        /\ bill'[b] \in Row /\ bill[b] \in Row
    <3> DEFINE dated == IF "date" \in request[r].fields
                        THEN [bill[b] EXCEPT !.date = request[r].edit.date] ELSE bill[b]
               row == IF "line" \in request[r].fields
                      THEN [dated EXCEPT !.net = request[r].edit.net, !.vat = request[r].edit.vat,
                                         !.total = request[r].edit.total]
                      ELSE dated
    <3>1. bill[b] \in Row /\ request[r].edit \in Row
      BY <1>1 DEF TypeOK, LocalState
    <3>2. dated \in Row /\ dated.paid = bill[b].paid /\ dated.status = bill[b].status
          /\ dated.total = bill[b].total
      BY <3>1 DEF Row
    <3>3. bill' = [bill EXCEPT ![b] = row]
      BY <1>6 DEF WriteBill
    <3> HIDE DEF dated
    <3>4. row \in Row /\ row.paid = dated.paid /\ row.status = dated.status
          /\ ("line" \notin request[r].fields => row.total = dated.total)
      BY <3>1, <3>2 DEF Row
    <3> HIDE DEF row
    <3> QED BY <1>1, <3>1, <3>2, <3>3, <3>4 DEF TypeOK
  <2>3. CASE "line" \notin request[r].fields
    <3>1. SameSums
      <4>1. restated' = restated
        BY <1>6, <2>3 DEF WriteBill
      <4> QED BY <2>2, <2>3, <4>1 DEF SameSums, Exists
    <3>2. Finish(r)
      BY <1>6, <2>3 DEF WriteBill
    <3> QED BY <1>3, <3>1, <3>2
  <2>4. CASE "line" \in request[r].fields
    <3>1. /\ \A q \in Requests \ {r} : request'[q] = request[q]
          /\ request'[r].step = "dropLine" /\ request'[r].mode = "write" /\ request'[r].bill = b
      BY <1>1, <1>6, <2>1, <2>4 DEF WriteBill, Goto, TypeOK, LocalState
    <3>2. /\ restated \subseteq restated' /\ restated' \subseteq restated \cup {b}
          /\ bill[b].paid > 0 \/ ~Alone(r, b) => b \in restated'
      BY <1>6, <2>4 DEF WriteBill
    <3>3. RecordedWithinTotal'
      <4>1. b \notin restated' => bill'[b].paid <= bill'[b].total + Tolerance
        <5>1. bill'[b].paid \in Nat /\ bill'[b].total \in Nat
          BY <2>2 DEF Row
        <5> QED BY <2>2, <3>2, <5>1 DEF Tolerance
      <4> QED BY <2>2, <3>2, <4>1 DEF RecordedWithinTotal, PaidInv, Exists
    <3>4. ASSUME NEW q \in Requests PROVE Fitting(request[q])'
      <4>1. CASE q = r
        BY <3>1, <4>1 DEF Fitting
      <4>2. CASE q # r
        <5>1. request[q].bill \in Bills /\ Fitting(request[q]) /\ request'[q] = request[q]
          BY <3>1, <4>2 DEF TypeOK, LocalState, PaidInv
        <5>2. CASE request[q].bill = b /\ request[q].step # "idle"
          <6>1. b \in restated'
            BY <3>2, <4>2, <5>2 DEF Alone, Idle
          <6> QED BY <2>1, <2>2, <5>1, <5>2, <6>1 DEF Fitting, Exists
        <5>3. CASE request[q].bill # b \/ request[q].step = "idle"
          BY <2>2, <3>2, <5>1, <5>3 DEF Fitting
        <5> QED BY <5>2, <5>3
      <4> QED BY <4>1, <4>2
    <3>5. ASSUME NEW q \in Requests PROVE Shaped(request'[q])
      BY <3>1 DEF Shaped, Writing, PaidInv
    <3>6. ASSUME NEW q \in Requests PROVE Inserting(q)'
      <4>1. CASE q = r
        BY <3>1, <4>1 DEF Inserting
      <4>2. CASE q # r
        <5>1. request[q].bill \in Bills /\ Inserting(q) /\ request'[q] = request[q]
          BY <3>1, <4>2 DEF TypeOK, LocalState, PaidInv
        <5>2. request[q].step = "insertBill" => request[q].bill # b
          BY <2>1, <5>1 DEF Inserting, Exists
        <5> QED BY <1>1, <2>1, <2>2, <3>1, <4>2, <5>1, <5>2 DEF Inserting, Alone, Idle
      <4> QED BY <4>1, <4>2
    <3> QED BY <3>3, <3>4, <3>5, <3>6 DEF PaidInv, Shaped
  <2> QED BY <2>3, <2>4
<1>7. CASE SetPaid(r)
  <2> DEFINE b == request[r].bill
             sum == request[r].snap.paid + request[r].amount
             status == IF sum >= request[r].snap.total - Tolerance THEN "paid" ELSE "partial"
  <2>1. request[r].mode = "pay" /\ request[r].step = "setPaid" /\ Exists(b)
    BY <1>1, <1>7 DEF SetPaid, At, Shaped
  <2>2. bill' = [bill EXCEPT ![b].paid = sum, ![b].status = status] /\ restated' = restated
    BY <1>7 DEF SetPaid
  <2>3. bill[b] \in Row /\ status \in Statuses \ {"absent", "deleted"}
    BY <1>1 DEF TypeOK, Statuses
  <2>4. /\ \A c \in Bills \ {b} : bill'[c] = bill[c]
        /\ bill'[b].paid = sum /\ bill'[b].total = bill[b].total
        /\ bill'[b].status \notin {"absent", "deleted"} /\ bill[b].status \notin {"absent", "deleted"}
    <3> HIDE DEF sum, status
    <3> QED BY <1>1, <2>1, <2>2, <2>3 DEF TypeOK, Row, Exists
  <2>5. b \notin restated => sum <= bill[b].total + Tolerance
    BY <1>1, <2>1 DEF Fitting
  <2>6. RecordedWithinTotal'
    BY <1>1, <2>2, <2>4, <2>5 DEF RecordedWithinTotal, PaidInv, Exists
  <2>7. /\ \A q \in Requests \ {r} : request'[q] = request[q]
        /\ request'[r] = Resting
    BY <1>7 DEF SetPaid, Finish, TypeOK
  <2>8. ASSUME NEW q \in Requests
        PROVE  Fitting(request[q])' /\ Shaped(request'[q]) /\ Inserting(q)'
    <3>1. CASE q = r
      BY <2>7, <3>1, RestingType DEF Fitting, Shaped, Inserting, Writing
    <3>2. CASE q # r
      <4>1. /\ request[q].bill \in Bills /\ Fitting(request[q]) /\ Shaped(request[q])
            /\ Inserting(q) /\ request'[q] = request[q]
        BY <2>7, <3>2 DEF TypeOK, LocalState, PaidInv
      <4>2. Fitting(request[q])'
        BY <2>2, <2>4, <4>1 DEF Fitting
      <4>3. Inserting(q)'
        BY <1>1, <2>1, <2>4, <2>7, <3>2, <4>1, RestingType DEF Inserting, Alone, Idle, Exists
      <4> QED BY <4>1, <4>2, <4>3
    <3> QED BY <3>1, <3>2
  <2> QED BY <2>6, <2>8 DEF PaidInv, Shaped
<1>8. CASE SetApproved(r)
  <2> DEFINE b == request[r].bill
  <2>1. bill' = [bill EXCEPT ![b].status = "approved"] /\ restated' = restated /\ Exists(b)
    BY <1>8 DEF SetApproved
  <2>2. SameSums
    BY <1>1, <2>1 DEF SameSums, Exists, TypeOK, Row
  <2> QED BY <1>3, <1>8, <2>2 DEF SetApproved
<1>9. CASE InsertLine(r) \/ UndoPayment(r) \/ EndBackfill(r) \/ GiveUp(r)
  BY <1>3, <1>4, <1>9 DEF InsertLine, UndoPayment, EndBackfill, GiveUp, stored
<1>10. CASE DropLine(r)
  BY <1>1, <1>2, <1>4, <1>10 DEF DropLine, At, Idle, Shaped, Writing
<1>11. CASE PostFails(r)
  BY <1>1, <1>2, <1>4, <1>11 DEF PostFails, At, Idle, Writing, stored
<1>12. CASE FindPayable(r) \/ PostPayable(r)
  <2>1. AfterPayable(r) \in {"setApproved", "listPayments"}
    BY DEF AfterPayable
  <2> QED BY <1>2, <1>4, <1>12, <2>1 DEF FindPayable, PostPayable, At, Idle, Writing, stored
<1>13. CASE FindCleared(r) \/ PostPayment(r)
  <2>1. (AfterPosting(r) = "setPaid" /\ request[r].mode = "pay") \/ AfterPosting(r) = "nextPayment"
    BY DEF AfterPosting
  <2> QED BY <1>2, <1>4, <1>13, <2>1 DEF FindCleared, PostPayment, At, Idle, Writing, stored
<1>14. ASSUME NEW new, request' = [request EXCEPT ![r] = new], UNCHANGED <<bill, restated>>,
              ~Idle(r), new.mode = request[r].mode, new.bill = request[r].bill,
              new.snap = request[r].snap, new.amount = request[r].amount,
              new.edit = request[r].edit,
              \/ new.step = request[r].step
              \/ new.step \in {"findPayable", "nextPayment", "findCleared"}
       PROVE  PaidInv'
  BY <1>1, <1>4, <1>14, QuietStep DEF Shaped, Writing, Idle
<1>15. CASE ReadLine(r)
  <2> DEFINE new == [request[r] EXCEPT !.line = line[request[r].bill], !.step = "findPayable"]
  <2>1. /\ new.step = "findPayable" /\ new.mode = request[r].mode /\ new.bill = request[r].bill
        /\ new.snap = request[r].snap /\ new.amount = request[r].amount
        /\ new.edit = request[r].edit
    BY <1>1 DEF LocalState
  <2>2. request' = [request EXCEPT ![r] = new] /\ UNCHANGED <<bill, restated>> /\ ~Idle(r)
    BY <1>15 DEF ReadLine, stored, history, At, Idle
  <2> HIDE DEF new
  <2> QED BY <1>14, <2>1, <2>2
<1>16. CASE ListPayments(r)
  <2> DEFINE rows == {p \in Payments : payment[p].state = "live" /\ payment[p].bill = request[r].bill}
             new == [request[r] EXCEPT !.todo = rows, !.step = "nextPayment"]
  <2>1. /\ new.step = "nextPayment" /\ new.mode = request[r].mode /\ new.bill = request[r].bill
        /\ new.snap = request[r].snap /\ new.amount = request[r].amount
        /\ new.edit = request[r].edit
    BY <1>1 DEF LocalState
  <2>2. request' = [request EXCEPT ![r] = new] /\ UNCHANGED <<bill, restated>> /\ ~Idle(r)
    BY <1>16 DEF ListPayments, stored, history, At, Idle
  <2> HIDE DEF new
  <2> QED BY <1>14, <2>1, <2>2
<1>17. ASSUME NEW p \in Payments, InsertPayment(r, p) PROVE PaidInv'
  <2> DEFINE new == [request[r] EXCEPT !.payment = p, !.step = "findCleared"]
  <2>1. /\ new.step = "findCleared" /\ new.mode = request[r].mode /\ new.bill = request[r].bill
        /\ new.snap = request[r].snap /\ new.amount = request[r].amount
        /\ new.edit = request[r].edit
    BY <1>1 DEF LocalState
  <2>2. request' = [request EXCEPT ![r] = new] /\ UNCHANGED <<bill, restated>> /\ ~Idle(r)
    BY <1>17 DEF InsertPayment, history, At, Idle
  <2> HIDE DEF new
  <2> QED BY <1>14, <2>1, <2>2
<1>18. ASSUME NEW p \in Payments, NextPayment(r, p) PROVE PaidInv'
  <2> DEFINE rest == [request[r] EXCEPT !.todo = @ \ {p}]
             turn == [rest EXCEPT !.payment = p, !.date = payment[p].date,
                                  !.check = {payment[p].date}, !.step = "findCleared"]
  <2>1. rest \in LocalState /\ rest.step = request[r].step /\ rest.mode = request[r].mode
        /\ rest.bill = request[r].bill /\ rest.snap = request[r].snap
        /\ rest.amount = request[r].amount /\ rest.edit = request[r].edit
    BY <1>1 DEF LocalState
  <2> HIDE DEF rest
  <2>2. /\ turn.step = "findCleared" /\ turn.mode = request[r].mode /\ turn.bill = request[r].bill
        /\ turn.snap = request[r].snap /\ turn.amount = request[r].amount
        /\ turn.edit = request[r].edit
    BY <2>1 DEF LocalState
  <2> HIDE DEF turn
  <2>3. /\ request' = [request EXCEPT ![r] = IF cleared[p] > 0 THEN rest ELSE turn]
        /\ UNCHANGED <<bill, restated>> /\ ~Idle(r)
    BY <1>18 DEF NextPayment, stored, history, At, Idle, rest, turn
  <2>4. CASE cleared[p] > 0
    BY <1>14, <2>1, <2>3, <2>4
  <2>5. CASE ~(cleared[p] > 0)
    BY <1>14, <2>2, <2>3, <2>5
  <2> QED BY <2>4, <2>5
<1>19. ASSUME NEW p \in Periods, PassLock(r, p) PROVE PaidInv'
  <2> DEFINE new == [request[r] EXCEPT !.check = @ \ {p}]
  <2>1. /\ new.step = request[r].step /\ new.mode = request[r].mode /\ new.bill = request[r].bill
        /\ new.snap = request[r].snap /\ new.amount = request[r].amount
        /\ new.edit = request[r].edit
    BY <1>1 DEF LocalState
  <2>2. request' = [request EXCEPT ![r] = new] /\ UNCHANGED <<bill, restated>>
    BY <1>19 DEF PassLock, stored, history, TypeOK
  <2> HIDE DEF new
  <2>3. CASE Idle(r)
    BY <1>4, <2>1, <2>2, <2>3, QuietStep DEF Idle
  <2> QED BY <1>14, <2>1, <2>2, <2>3
<1> QED BY <1>5, <1>6, <1>7, <1>8, <1>9, <1>10, <1>11, <1>12, <1>13, <1>15, <1>16, <1>17, <1>18,
           <1>19 DEF Handler

LEMMA RequestPaid ==
    ASSUME TypeOK, PaidInv, NEW r \in Requests, NEW b \in Bills, Request(r, b)
    PROVE  PaidInv'
<1>1. ASSUME NEW local \in LocalState, Begin(r, b, local), Shaped(local),
             local.mode = "pay" /\ local.step # "idle" =>
                /\ bill[b].status # "absent" /\ local.snap = bill[b] /\ Fits(bill[b], local.amount),
             \/ bill[b].status # "absent" /\ local.step # "insertBill"
             \/ Alone(r, b) /\ bill[b].status = "absent" /\ local.edit.paid = 0
      PROVE  PaidInv'
  <2>1. /\ request'[r] = [local EXCEPT !.bill = b] /\ Idle(r)
        /\ \A q \in Requests \ {r} : request'[q] = request[q]
        /\ UNCHANGED <<bill, restated>>
    BY <1>1 DEF Begin, TypeOK, stored
  <2>2. /\ request'[r].step = local.step /\ request'[r].mode = local.mode /\ request'[r].bill = b
        /\ request'[r].snap = local.snap /\ request'[r].amount = local.amount
        /\ request'[r].edit = local.edit
    BY <2>1 DEF LocalState
  <2>3. bill[b] \in Row /\ local.amount \in Nat
    BY DEF TypeOK, LocalState
  <2>4. Fitting(request[r])'
    <3>1. Fits(bill[b], local.amount) => bill[b].paid + local.amount <= bill[b].total + Tolerance
      BY <2>3 DEF Fits, Row, Tolerance
    <3> QED BY <1>1, <2>1, <2>2, <3>1 DEF Fitting
  <2>5. Shaped(request'[r])
    BY <1>1, <2>2 DEF Shaped
  <2>6. Inserting(r)'
    BY <1>1, <2>1, <2>2 DEF Inserting, Alone, Idle
  <2>7. ASSUME NEW q \in Requests \ {r}
        PROVE  Fitting(request[q])' /\ Shaped(request'[q]) /\ Inserting(q)'
    <3>1. Fitting(request[q]) /\ Shaped(request[q]) /\ Inserting(q) /\ request'[q] = request[q]
      BY <2>1 DEF PaidInv
    <3>2. Fitting(request[q])' /\ Shaped(request'[q])
      BY <2>1, <3>1 DEF Fitting
    <3>3. request[q].step = "insertBill" => request[q].bill # b
      BY <1>1, <2>1, <3>1 DEF Inserting, Alone, Idle
    <3>4. Inserting(q)'
      BY <2>1, <2>2, <3>1, <3>3 DEF Inserting, Alone, Idle
    <3> QED BY <3>2, <3>4
  <2>8. RecordedWithinTotal'
    BY <2>1 DEF PaidInv, RecordedWithinTotal, Exists
  <2> QED BY <2>4, <2>5, <2>6, <2>7, <2>8 DEF PaidInv, Shaped
<1>2. Resting.mode = "write" /\ Resting \in LocalState
  BY RestingType DEF Resting
<1>3. ASSUME NEW item \in LineItems, NEW charge \in Charges, NEW d \in Periods,
             Create(r, b, item, charge, d)
      PROVE  PaidInv'
  <2> DEFINE row == [NoBill EXCEPT !.status = "pending", !.net = item.net, !.vat = item.vat,
                               !.total = IF charge = "reverse" THEN item.net
                                                               ELSE item.net + item.vat,
                               !.charge = charge, !.date = d]
             local == [Resting EXCEPT !.step = "insertBill", !.edit = row, !.check = {d}]
  <2>1. row \in Row /\ row.paid = 0
    <3>1. item.net \in Nat /\ item.vat \in Nat /\ item.net + item.vat \in Nat
      OBVIOUS
    <3> QED BY <3>1, AnyPeriodType DEF NoBill, Row, Statuses, Charges
  <2>2. Begin(r, b, local) /\ Alone(r, b) /\ bill[b].status = "absent"
    BY <1>3 DEF Create
  <2> HIDE DEF row
  <2>3. local \in LocalState /\ local.mode = "write" /\ local.step = "insertBill"
        /\ local.edit.paid = 0
    BY <1>2, <2>1 DEF LocalState, Steps
  <2> HIDE DEF local
  <2> QED BY <1>1, <2>2, <2>3 DEF Shaped, Writing
<1>4. ASSUME NEW item \in LineItems, NEW fields \in SUBSET {"date", "line"}, NEW d \in Periods,
             Edit(r, b, fields, item, d)
      PROVE  PaidInv'
  <2> DEFINE values == [NoBill EXCEPT !.net = item.net, !.vat = item.vat,
                                  !.total = item.net + item.vat, !.date = d]
             checks == {bill[b].date} \cup (IF "date" \in fields THEN {d} ELSE {})
             local == [Resting EXCEPT !.step = "writeBill", !.edit = values, !.fields = fields,
                                      !.check = checks]
  <2>1. values \in Row
    <3>1. item.net \in Nat /\ item.vat \in Nat /\ item.net + item.vat \in Nat
      OBVIOUS
    <3> QED BY <3>1, AnyPeriodType DEF NoBill, Row, Statuses, Charges
  <2>2. checks \in SUBSET Periods
    BY DEF TypeOK, Row
  <2>3. Begin(r, b, local) /\ bill[b].status # "absent"
    BY <1>4 DEF Edit, Exists
  <2> HIDE DEF values, checks
  <2>4. local \in LocalState /\ local.mode = "write" /\ local.step = "writeBill"
    BY <1>2, <2>1, <2>2 DEF LocalState, Steps
  <2> HIDE DEF local
  <2> QED BY <1>1, <2>3, <2>4 DEF Shaped, Writing
<1>5. ASSUME NEW amount \in Amounts, NEW d \in Periods, Pay(r, b, amount, d) PROVE PaidInv'
  <2> DEFINE local == [Resting EXCEPT !.step = "insertPayment", !.mode = "pay", !.snap = bill[b],
                                      !.amount = amount, !.date = d, !.check = {d}]
  <2>1. bill[b] \in Row
    BY DEF TypeOK
  <2>2. local \in LocalState /\ local.mode = "pay" /\ local.step = "insertPayment"
        /\ local.snap = bill[b] /\ local.amount = amount
    BY <1>2, <2>1 DEF LocalState, Steps
  <2>3. Begin(r, b, local) /\ bill[b].status # "absent" /\ Fits(bill[b], amount)
    BY <1>5 DEF Pay, Exists
  <2> HIDE DEF local
  <2> QED BY <1>1, <2>2, <2>3 DEF Shaped, Writing
<1>6. CASE Approve(r, b) \/ Backfill(r, b)
  <2>1. PICK mode \in {"approve", "backfill"} :
           Begin(r, b, [Resting EXCEPT !.step = "readLine", !.mode = mode, !.snap = bill[b],
                                       !.check = {bill[b].date}])
    BY <1>6 DEF Approve, Backfill
  <2> DEFINE local == [Resting EXCEPT !.step = "readLine", !.mode = mode, !.snap = bill[b],
                                      !.check = {bill[b].date}]
  <2>2. bill[b] \in Row /\ {bill[b].date} \in SUBSET Periods
    BY DEF TypeOK, Row
  <2>3. local \in LocalState /\ local.mode = mode /\ local.step = "readLine"
    BY <1>2, <2>2 DEF LocalState, Steps
  <2>4. bill[b].status # "absent"
    BY <1>6 DEF Approve, Backfill
  <2>5. Begin(r, b, local)
    BY <2>1
  <2> HIDE DEF local
  <2> QED BY <1>1, <2>3, <2>4, <2>5 DEF Shaped, Writing
<1> QED BY <1>3, <1>4, <1>5, <1>6 DEF Request

LEMMA PaidStep == TypeOK /\ PaidInv /\ [Next]_vars => PaidInv'
<1> SUFFICES ASSUME TypeOK, PaidInv, [Next]_vars PROVE PaidInv'
  OBVIOUS
<1>1. CASE SameSums /\ UNCHANGED request
  <2>1. \A r \in Requests : request[r].bill \in Bills
    BY DEF TypeOK, LocalState
  <2>2. RecordedWithinTotal'
    BY <1>1 DEF PaidInv, RecordedWithinTotal, SameSums
  <2>3. ASSUME NEW r \in Requests PROVE Fitting(request[r])' /\ Shaped(request'[r]) /\ Inserting(r)'
    BY <1>1, <2>1 DEF PaidInv, Fitting, Inserting, SameSums, Alone, Idle
  <2> QED BY <2>2, <2>3 DEF PaidInv, Shaped
<1>2. ASSUME NEW b \in Bills, DeleteBill(b) PROVE PaidInv'
  <2>1. bill' = [bill EXCEPT ![b].status = "deleted"] /\ restated' = restated
        /\ request' = request /\ Exists(b)
    BY <1>2 DEF DeleteBill, history
  <2>2. SameSums
    BY <2>1 DEF SameSums, Exists, TypeOK, Row
  <2> QED BY <1>1, <2>1, <2>2
<1>3. ASSUME NEW p \in Lockable, LockPeriod(p) \/ UnlockPeriod(p) PROVE PaidInv'
  BY <1>1, <1>3 DEF LockPeriod, UnlockPeriod, stored, SameSums, Exists
<1>4. CASE UNCHANGED vars
  BY <1>1, <1>4 DEF vars, SameSums, Exists
<1> QED BY <1>2, <1>3, <1>4, HandlerPaid, RequestPaid DEF Next

\* However payments overlap, amount_paid passes the total of a bill by no more
\* than the tolerated fils, until an edit restates the bill.
THEOREM PaidWithinTotal == Spec => []RecordedWithinTotal
<1>1. Init => PaidInv
  BY RestingType DEF Init, PaidInv, RecordedWithinTotal, Exists, NoBill, Fitting, Shaped, Inserting,
                     Writing
<1>2. PaidInv => RecordedWithinTotal
  BY DEF PaidInv
<1> QED BY <1>1, <1>2, InitType, TypeStep, PaidStep, PTL DEF Spec

-----------------------------------------------------------------------------
(* The payable and the backfill: on a bill no two handlers were on at once,  *)
(* what its one handler has read is still so when it writes.                 *)

Apart ==
    \A r, q \in Requests :
        ~Idle(r) /\ ~Idle(q) /\ request[r].bill = request[q].bill
        /\ past[request[r].bill] # "crossed" => r = q

\* The backfill has posted the payable before it lists payments, and every
\* payment of its bill has an entry, is on its list, or is its present one.
Repairs(r) ==
    LET local == request[r]
        b     == local.bill
    IN  local.mode # "pay" /\ past[b] # "crossed" =>
            /\ local.step \in {"listPayments", "nextPayment", "findCleared", "postPayment"} =>
                  payable[b].posted > 0
            /\ local.step \in {"nextPayment", "findCleared", "postPayment"} =>
                  \A p \in Payments : payment[p].state = "live" /\ payment[p].bill = b =>
                      \/ cleared[p] > 0 \/ p \in local.todo
                      \/ local.step # "nextPayment" /\ p = local.payment

\* A bill that PayableOnce speaks of.
Tracked(b) == past[b] = "clean" /\ b \notin restated /\ Exists(b)

Unposted == [posted |-> 0, amount |-> 0]

Owed(b) == [posted |-> 1,
            amount |-> bill[b].net + (IF bill[b].charge = "reverse" THEN 0 ELSE bill[b].vat)]

ReadsBill(r) ==
    LET local == request[r]
        b     == local.bill
    IN  Tracked(b) =>
            /\ local.step = "insertLine" => line[b] = 0
            /\ local.step \in {"insertLine", "dropLine"} => local.edit.net = bill[b].net
            /\ local.step \in {"readLine", "findPayable", "postPayable"} =>
                  local.snap.charge = bill[b].charge /\ local.snap.vat = bill[b].vat
            /\ local.step \in {"findPayable", "postPayable"} => local.line = bill[b].net
            /\ local.step = "postPayable" => payable[b].posted = 0

\* Only the handler that inserts it is on a bill that is not there yet, and only a
\* payment inserts one and only the others list them.
Present(r) ==
    /\ Idle(r) => request[r].check = {}
    /\ request[r].step \notin {"idle", "insertBill"} => bill[request[r].bill].status # "absent"
    /\ request[r].step = "insertBill" => request[r].edit.status = "pending"
    /\ request[r].step = "insertPayment" => request[r].mode = "pay"
    /\ request[r].step \in {"readLine", "findPayable", "postPayable", "listPayments",
                            "nextPayment"} => request[r].mode # "pay"

Relining(r, b) == request[r].bill = b /\ request[r].step \in {"dropLine", "insertLine"}

BillFits(b) ==
    /\ Tracked(b) => line[b] = bill[b].net \/ \E r \in Requests : Relining(r, b)
    /\ Tracked(b) => payable[b] = Unposted \/ payable[b] = Owed(b)
    /\ bill[b].status = "absent" => line[b] = 0 /\ payable[b] = Unposted

BookInv ==
    /\ Apart
    /\ \A r \in Requests : Repairs(r) /\ ReadsBill(r) /\ Present(r)
    /\ \A b \in Bills : BillFits(b)

\* A step of r on its bill b leaves every other handler's knowledge true.
LEMMA OthersKeepBooks ==
    ASSUME TypeOK, BookInv, NEW r \in Requests, NEW b \in Bills,
           ~Idle(r), request[r].bill = b,
           \A q \in Requests \ {r} : request'[q] = request[q],
           request'[r].step = "idle" \/ request'[r].bill = b,
           \A c \in Bills \ {b} : /\ bill'[c] = bill[c] /\ line'[c] = line[c]
                                  /\ payable'[c] = payable[c] /\ past'[c] = past[c]
                                  /\ (c \in restated') <=> (c \in restated),
           past[b] = "crossed" => past'[b] = "crossed",
           bill[b].status # "absent" => bill'[b].status # "absent",
           \A p \in Payments : /\ cleared[p] > 0 => cleared'[p] > 0
                               /\ \/ payment'[p] = payment[p]
                                  \/ payment'[p].state = "removed"
                                  \/ payment'[p].bill = b,
           Repairs(r)', ReadsBill(r)', Present(r)', BillFits(b)'
    PROVE  BookInv'
<1>1. \A q \in Requests : request[q].bill \in Bills
  BY DEF TypeOK, LocalState
<1>2. Apart'
  <2> SUFFICES ASSUME NEW p \in Requests, NEW q \in Requests, ~Idle(p)', ~Idle(q)',
                      request'[p].bill = request'[q].bill, past'[request'[p].bill] # "crossed"
               PROVE  p = q
    BY DEF Apart
  <2>1. ~Idle(p) /\ ~Idle(q) /\ request'[p].bill = request[p].bill
        /\ request'[q].bill = request[q].bill
    BY DEF Idle
  <2>2. past[request[p].bill] # "crossed"
    BY <1>1, <2>1
  <2> QED BY <2>1, <2>2 DEF BookInv, Apart
<1>3. ASSUME NEW q \in Requests \ {r} PROVE Repairs(q)' /\ ReadsBill(q)' /\ Present(q)'
  <2>1. Repairs(q) /\ ReadsBill(q) /\ Present(q) /\ request'[q] = request[q]
        /\ request[q].bill \in Bills
    BY <1>1 DEF BookInv
  <2>2. Present(q)'
    BY <2>1 DEF Present, Idle
  <2>3. CASE request[q].bill # b
    <3>1. ReadsBill(q)'
      BY <2>1, <2>3 DEF ReadsBill, Tracked, Exists
    <3>2. Repairs(q)'
      BY <2>1, <2>3 DEF Repairs
    <3> QED BY <2>2, <3>1, <3>2
  <2>4. CASE request[q].bill = b
    <3>1. Idle(q) \/ past'[b] = "crossed"
      BY <2>4 DEF BookInv, Apart
    <3> QED BY <2>1, <2>2, <2>4, <3>1 DEF Idle, ReadsBill, Repairs, Tracked
  <2> QED BY <2>3, <2>4
<1>4. ASSUME NEW c \in Bills \ {b} PROVE BillFits(c)'
  <2>1. \A q \in Requests : Relining(q, c) => Relining(q, c)'
    BY DEF Relining
  <2>2. BillFits(c) /\ c # b
    BY DEF BookInv
  <2>3. Tracked(c)' <=> Tracked(c)
    BY <2>2 DEF Tracked, Exists
  <2>4. Owed(c)' = Owed(c)
    BY <2>2 DEF Owed
  <2> QED BY <2>1, <2>2, <2>3, <2>4 DEF BillFits
<1> QED BY <1>2, <1>3, <1>4 DEF BookInv

\* A step that writes neither the bill, nor its line, nor its payable.
LEMMA ReadingKeepsBooks ==
    ASSUME TypeOK, BookInv, NEW r \in Requests, NEW b \in Bills,
           ~Idle(r), request[r].bill = b,
           UNCHANGED <<bill, line, payable, restated>>,
           \A q \in Requests \ {r} : request'[q] = request[q],
           request'[r].step = "idle" \/ request'[r].bill = b,
           \A c \in Bills \ {b} : past'[c] = past[c],
           past[b] = "crossed" => past'[b] = "crossed",
           past'[b] = "clean" => past[b] = "clean",
           \A p \in Payments : /\ cleared[p] > 0 => cleared'[p] > 0
                               /\ \/ payment'[p] = payment[p]
                                  \/ payment'[p].state = "removed"
                                  \/ payment'[p].bill = b,
           \/ ~Relining(r, b)
           \/ Relining(r, b)'
           \/ past'[b] # "clean",
           Repairs(r)', ReadsBill(r)', Present(r)'
    PROVE  BookInv'
<1>1. BillFits(b)'
  <2>1. BillFits(b) /\ (Tracked(b)' => Tracked(b)) /\ Owed(b)' = Owed(b)
    BY DEF BookInv, Tracked, Exists, Owed
  <2>2. ASSUME Tracked(b)', NEW q \in Requests, Relining(q, b)
        PROVE  \E s \in Requests : Relining(s, b)'
    <3>1. CASE q = r
      BY <2>2, <3>1 DEF Tracked, Relining
    <3>2. CASE q # r
      BY <2>2, <3>2 DEF Relining
    <3> QED BY <3>1, <3>2
  <2> QED BY <2>1, <2>2 DEF BillFits
<1> QED BY <1>1, OthersKeepBooks

\* A handler that ends after a write to something else, or by itself.
LEMMA EndingKeepsBooks ==
    ASSUME TypeOK, BookInv, NEW r \in Requests, NEW b \in Bills,
           ~Idle(r), request[r].bill = b, Finish(r),
           UNCHANGED <<bill, line, payable, restated, cleared>>,
           \A p \in Payments : payment'[p] = payment[p] \/ payment'[p].state = "removed",
           \/ UNCHANGED past /\ request[r].step \notin {"dropLine", "insertLine"}
           \/ past' = IF Midway(request[r]) /\ past[b] = "clean"
                      THEN [past EXCEPT ![b] = "torn"] ELSE past
    PROVE  BookInv'
<1>1. request'[r] = Resting /\ \A q \in Requests \ {r} : request'[q] = request[q]
  BY DEF Finish, TypeOK
<1>2. Repairs(r)' /\ ReadsBill(r)' /\ Present(r)'
  BY <1>1, RestingType DEF Repairs, ReadsBill, Present, Idle, Resting
<1>3. /\ \A c \in Bills \ {b} : past'[c] = past[c]
      /\ past[b] = "crossed" => past'[b] = "crossed"
      /\ past'[b] = "clean" => past[b] = "clean"
      /\ Relining(r, b) => past'[b] # "clean"
  BY DEF TypeOK, Relining, Midway
<1> QED BY <1>1, <1>2, <1>3, RestingType, ReadingKeepsBooks

LEMMA HandlerBooks ==
    ASSUME TypeOK, PaidInv, BookInv, NEW r \in Requests, Handler(r)
    PROVE  BookInv'
<1> SUFFICES ASSUME NEW b \in Bills, request[r].bill = b PROVE BookInv'
  BY DEF TypeOK, LocalState
<1>1. /\ request[r] \in LocalState /\ bill[b] \in Row /\ line[b] \in Nat
      /\ payable[b] \in [posted : Nat, amount : Nat]
      /\ Repairs(r) /\ ReadsBill(r) /\ Present(r) /\ BillFits(b)
      /\ Shaped(request[r]) /\ Inserting(r)
  BY DEF TypeOK, BookInv, PaidInv
<1>2. ASSUME ~Idle(r), Tracked(b), NEW q \in Requests, Relining(q, b) PROVE Relining(r, b)
  <2>1. past[b] # "crossed" /\ ~Idle(q) /\ request[q].bill = b
    BY <1>2 DEF Tracked, Relining, Idle
  <2> QED BY <1>2, <2>1 DEF BookInv, Apart
<1>3. ASSUME NEW step, Goto(r, step)
      PROVE  /\ request'[r].step = step /\ request'[r].bill = b
             /\ request'[r].mode = request[r].mode /\ request'[r].edit = request[r].edit
             /\ request'[r].snap = request[r].snap /\ request'[r].line = request[r].line
             /\ request'[r].todo = request[r].todo /\ request'[r].payment = request[r].payment
             /\ \A q \in Requests \ {r} : request'[q] = request[q]
             /\ past' = past
  <2>1. request'[r] = [request[r] EXCEPT !.step = step]
    BY <1>3 DEF Goto, TypeOK
  <2> QED BY <1>1, <1>3, <2>1 DEF Goto, TypeOK, LocalState
<1>4. ASSUME Finish(r)
      PROVE  /\ request'[r].step = "idle" /\ Repairs(r)' /\ ReadsBill(r)' /\ Present(r)'
             /\ \A q \in Requests \ {r} : request'[q] = request[q]
  <2>1. request'[r] = Resting /\ \A q \in Requests \ {r} : request'[q] = request[q]
    BY <1>4 DEF Finish, TypeOK
  <2> QED BY <2>1, RestingType DEF Repairs, ReadsBill, Present, Idle, Resting
<1>5. CASE InsertBill(r)
  <2> DEFINE row == request[r].edit
  <2>1. ~Idle(r) /\ bill[b].status = "absent" /\ row.status = "pending" /\ row \in Row
    BY <1>1, <1>5 DEF InsertBill, At, Idle, Inserting, Present, LocalState
  <2>2. bill' = [bill EXCEPT ![b] = row] /\ UNCHANGED <<line, payable, payment, cleared, restated>>
        /\ Goto(r, "insertLine")
    BY <1>5 DEF InsertBill
  <2>3. /\ request'[r].step = "insertLine" /\ request'[r].bill = b /\ request'[r].edit = row
        /\ request'[r].mode = request[r].mode /\ request[r].step = "insertBill"
        /\ \A q \in Requests \ {r} : request'[q] = request[q]
        /\ past' = past
    BY <1>3, <1>5, <2>2 DEF InsertBill, At
  <2>4. bill'[b] = row /\ \A c \in Bills \ {b} : bill'[c] = bill[c]
    BY <2>2 DEF TypeOK
  <2>5. line[b] = 0 /\ payable[b] = Unposted
    BY <1>1, <2>1 DEF BillFits
  <2> HIDE DEF row
  <2>6. Repairs(r)' /\ ReadsBill(r)' /\ Present(r)'
    BY <1>1, <2>1, <2>2, <2>3, <2>4, <2>5 DEF Repairs, ReadsBill, Present, Idle
  <2>7. BillFits(b)'
    BY <2>1, <2>2, <2>3, <2>4, <2>5 DEF BillFits, Relining
  <2> QED BY <2>1, <2>2, <2>3, <2>4, <2>6, <2>7, OthersKeepBooks
<1>6. CASE InsertLine(r)
  <2>1. /\ ~Idle(r) /\ request[r].step = "insertLine" /\ Finish(r) /\ Exists(b)
        /\ line' = [line EXCEPT ![b] = @ + request[r].edit.net]
        /\ UNCHANGED <<bill, payable, payment, cleared, past, restated>>
    BY <1>6 DEF InsertLine, At, Idle
  <2>2. line'[b] = line[b] + request[r].edit.net /\ \A c \in Bills \ {b} : line'[c] = line[c]
    BY <2>1 DEF TypeOK
  <2>3. BillFits(b)'
    <3>1. Tracked(b)' => Tracked(b) /\ line'[b] = bill[b].net
      BY <1>1, <2>1, <2>2 DEF Tracked, Exists, ReadsBill, Row
    <3> QED BY <1>1, <2>1, <3>1 DEF BillFits, Owed, Exists
  <2> QED BY <1>4, <2>1, <2>2, <2>3, OthersKeepBooks
<1>7. CASE WriteBill(r)
  <2> DEFINE local == request[r]
             dated == IF "date" \in local.fields THEN [bill[b] EXCEPT !.date = local.edit.date]
                                                 ELSE bill[b]
             row == IF "line" \in local.fields
                    THEN [dated EXCEPT !.net = local.edit.net, !.vat = local.edit.vat,
                                       !.total = local.edit.total]
                    ELSE dated
  <2>1. /\ row.status = bill[b].status /\ row.charge = bill[b].charge
        /\ "line" \in local.fields => row.net = local.edit.net
        /\ "line" \notin local.fields => row.net = bill[b].net /\ row.vat = bill[b].vat
    <3>1. dated.status = bill[b].status /\ dated.charge = bill[b].charge
          /\ dated.net = bill[b].net /\ dated.vat = bill[b].vat /\ dated \in Row
      BY <1>1 DEF Row, LocalState
    <3> HIDE DEF dated
    <3> QED BY <3>1 DEF Row
  <2>2. /\ ~Idle(r) /\ Exists(b) /\ local.step = "writeBill"
        /\ bill' = [bill EXCEPT ![b] = row]
        /\ IF "line" \in local.fields THEN Goto(r, "dropLine") ELSE Finish(r) /\ UNCHANGED past
        /\ restated' = IF /\ "line" \in local.fields
                          /\ payable[b].posted > 0 \/ bill[b].paid > 0 \/ ~Alone(r, b)
                       THEN restated \cup {b} ELSE restated
        /\ UNCHANGED <<line, payment, payable, cleared>>
    BY <1>7 DEF WriteBill, At, Idle
  <2> HIDE DEF row
  <2>3. bill'[b] = row /\ \A c \in Bills \ {b} : bill'[c] = bill[c]
    BY <2>2 DEF TypeOK
  <2>4. /\ Exists(b)' /\ past' = past /\ (Tracked(b)' => Tracked(b))
        /\ \A c \in Bills \ {b} : (c \in restated') <=> (c \in restated)
    BY <1>3, <2>1, <2>2, <2>3 DEF Exists, Tracked
  <2>5. CASE "line" \in local.fields
    <3>1. /\ request'[r].step = "dropLine" /\ request'[r].bill = b /\ request'[r].edit = local.edit
          /\ request'[r].mode = local.mode
          /\ \A q \in Requests \ {r} : request'[q] = request[q]
      BY <1>3, <2>2, <2>5
    <3>2. Repairs(r)' /\ ReadsBill(r)' /\ Present(r)'
      BY <2>1, <2>3, <2>4, <2>5, <3>1 DEF Repairs, ReadsBill, Present, Idle, Exists
    <3>3. Tracked(b)' => payable[b] = Unposted
      <4>1. Tracked(b)' => ~(payable[b].posted > 0)
        BY <2>2, <2>5 DEF Tracked
      <4>2. Owed(b).posted = 1
        BY DEF Owed
      <4> QED BY <1>1, <2>4, <4>1, <4>2 DEF BillFits
    <3>4. BillFits(b)'
      BY <2>2, <2>4, <3>1, <3>3 DEF BillFits, Relining, Exists
    <3> QED BY <2>2, <2>3, <2>4, <3>1, <3>2, <3>4, OthersKeepBooks DEF Exists
  <2>6. CASE "line" \notin local.fields
    <3>1. Tracked(b) => line[b] = bill[b].net
      BY <1>1, <1>2, <2>2 DEF BillFits, Relining
    <3>2. BillFits(b)'
      BY <1>1, <2>1, <2>2, <2>3, <2>4, <2>6, <3>1 DEF BillFits, Owed, Exists
    <3> QED BY <1>4, <2>2, <2>3, <2>4, <2>6, <3>2, OthersKeepBooks DEF Exists
  <2> QED BY <2>5, <2>6
<1>8. CASE DropLine(r)
  <2>1. /\ ~Idle(r) /\ request[r].step = "dropLine" /\ Goto(r, "insertLine")
        /\ line' = [line EXCEPT ![b] = 0]
        /\ UNCHANGED <<bill, payable, payment, cleared, restated>>
    BY <1>8 DEF DropLine, At, Idle
  <2>2. line'[b] = 0 /\ \A c \in Bills \ {b} : line'[c] = line[c]
    BY <2>1 DEF TypeOK
  <2>3. /\ request'[r].step = "insertLine" /\ request'[r].bill = b
        /\ request'[r].edit = request[r].edit /\ request'[r].mode = request[r].mode
        /\ \A q \in Requests \ {r} : request'[q] = request[q]
        /\ past' = past
    BY <1>3, <2>1
  <2>4. Repairs(r)' /\ ReadsBill(r)' /\ Present(r)'
    BY <1>1, <2>1, <2>2, <2>3 DEF Repairs, ReadsBill, Present, Idle, Tracked, Exists
  <2>5. BillFits(b)'
    BY <1>1, <2>1, <2>2, <2>3 DEF BillFits, Relining, Tracked, Exists, Owed
  <2> QED BY <2>1, <2>2, <2>3, <2>4, <2>5, OthersKeepBooks
<1>9. CASE ReadLine(r)
  <2> DEFINE new == [request[r] EXCEPT !.line = line[b], !.step = "findPayable"]
  <2>1. /\ ~Idle(r) /\ request[r].step = "readLine" /\ request' = [request EXCEPT ![r] = new]
        /\ UNCHANGED <<bill, line, payable, payment, cleared, past, restated>>
    BY <1>9 DEF ReadLine, At, Idle, stored, history
  <2>2. /\ new.step = "findPayable" /\ new.line = line[b] /\ new.bill = b
        /\ new.mode = request[r].mode /\ new.snap = request[r].snap
    BY <1>1 DEF LocalState
  <2> HIDE DEF new
  <2>3. request'[r] = new /\ \A q \in Requests \ {r} : request'[q] = request[q]
    BY <2>1 DEF TypeOK
  <2>4. Tracked(b) => line[b] = bill[b].net
    BY <1>1, <1>2, <2>1 DEF BillFits, Relining
  <2>5. Repairs(r)' /\ ReadsBill(r)' /\ Present(r)'
    BY <1>1, <2>1, <2>2, <2>3, <2>4 DEF Repairs, ReadsBill, Present, Idle, Tracked, Exists
  <2> QED BY <2>1, <2>2, <2>3, <2>5, ReadingKeepsBooks DEF Relining
<1>10. CASE FindPayable(r)
  <2> DEFINE next == IF payable[b].posted > 0 THEN AfterPayable(r) ELSE "postPayable"
  <2>1. /\ ~Idle(r) /\ request[r].step = "findPayable" /\ Goto(r, next)
        /\ UNCHANGED <<bill, line, payable, payment, cleared, restated>>
    BY <1>10 DEF FindPayable, At, Idle, stored
  <2>2. \/ payable[b].posted > 0 /\ next \in {"setApproved", "listPayments"}
        \/ payable[b].posted = 0 /\ next = "postPayable"
    <3>1. AfterPayable(r) \in {"setApproved", "listPayments"}
      BY DEF AfterPayable
    <3>2. CASE payable[b].posted > 0
      BY <3>1, <3>2
    <3>3. CASE ~(payable[b].posted > 0)
      BY <1>1, <3>3
    <3> QED BY <3>2, <3>3
  <2> HIDE DEF next
  <2>3. Repairs(r)' /\ ReadsBill(r)' /\ Present(r)'
    BY <1>1, <1>3, <2>1, <2>2 DEF Repairs, ReadsBill, Present, Idle, Tracked, Exists
  <2> QED BY <1>3, <2>1, <2>3, ReadingKeepsBooks DEF Relining
<1>11. CASE PostPayable(r)
  <2> DEFINE owed == PayableOf(request[r])
  <2>1. /\ ~Idle(r) /\ request[r].step = "postPayable" /\ Goto(r, AfterPayable(r))
        /\ payable' = [payable EXCEPT ![b].posted = @ + 1, ![b].amount = @ + owed]
        /\ UNCHANGED <<bill, line, payment, cleared, restated>>
    BY <1>11 DEF PostPayable, At, Idle
  <2>2. payable'[b] = [posted |-> payable[b].posted + 1, amount |-> payable[b].amount + owed]
        /\ \A c \in Bills \ {b} : payable'[c] = payable[c]
    BY <1>1, <2>1 DEF TypeOK
  <2>3. AfterPayable(r) \in {"setApproved", "listPayments"} /\ payable'[b].posted > 0
    BY <1>1, <2>2 DEF AfterPayable
  <2>4. Tracked(b) => payable'[b] = Owed(b)
    <3>1. Tracked(b) => payable[b] = Unposted
      <4>1. Owed(b).posted = 1
        BY DEF Owed
      <4> QED BY <1>1, <2>1, <4>1 DEF BillFits, ReadsBill
    <3>2. Tracked(b) => owed = bill[b].net + (IF bill[b].charge = "reverse" THEN 0 ELSE bill[b].vat)
      BY <1>1, <2>1 DEF ReadsBill, PayableOf, Row
    <3>3. owed \in Nat
      BY <1>1 DEF PayableOf, LocalState, Row
    <3> HIDE DEF owed
    <3> QED BY <2>2, <3>1, <3>2, <3>3 DEF Unposted, Owed
  <2> HIDE DEF owed
  <2>5. Repairs(r)' /\ ReadsBill(r)' /\ Present(r)'
    BY <1>1, <1>3, <2>1, <2>2, <2>3 DEF Repairs, ReadsBill, Present, Idle, Tracked, Exists
  <2>6. BillFits(b)'
    <3>1. bill[b].status # "absent"
      BY <1>1, <2>1 DEF Present
    <3>2. Tracked(b) => line[b] = bill[b].net
      BY <1>1, <1>2, <2>1 DEF BillFits, Relining
    <3> QED BY <1>3, <2>1, <2>4, <3>1, <3>2 DEF BillFits, Tracked, Exists, Owed
  <2> QED BY <1>3, <2>1, <2>2, <2>5, <2>6, OthersKeepBooks
<1>12. CASE SetApproved(r) \/ SetPaid(r)
  <2>1. /\ ~Idle(r) /\ Exists(b) /\ Finish(r)
        /\ request[r].step \notin {"dropLine", "insertLine"}
        /\ UNCHANGED <<line, payable, payment, cleared, past, restated>>
    BY <1>12 DEF SetApproved, SetPaid, At, Idle
  <2>2. /\ Exists(b)' /\ bill'[b].net = bill[b].net /\ bill'[b].vat = bill[b].vat
        /\ bill'[b].charge = bill[b].charge
        /\ \A c \in Bills \ {b} : bill'[c] = bill[c]
    <3>1. CASE SetApproved(r)
      BY <1>1, <3>1 DEF SetApproved, Exists, TypeOK, Row
    <3>2. CASE SetPaid(r)
      <4> DEFINE sum == request[r].snap.paid + request[r].amount
                 status == IF sum >= request[r].snap.total - Tolerance THEN "paid" ELSE "partial"
      <4>1. status \in {"paid", "partial"}
        OBVIOUS
      <4>2. bill' = [bill EXCEPT ![b].paid = sum, ![b].status = status]
        BY <3>2 DEF SetPaid
      <4> HIDE DEF sum, status
      <4> QED BY <1>1, <4>1, <4>2 DEF Exists, TypeOK, Row
    <3> QED BY <1>12, <3>1, <3>2
  <2>3. BillFits(b)'
    <3>1. Tracked(b) => line[b] = bill[b].net
      BY <1>1, <1>2, <2>1 DEF BillFits, Relining
    <3> QED BY <1>1, <2>1, <2>2, <3>1 DEF BillFits, Owed, Tracked, Exists
  <2> QED BY <1>4, <2>1, <2>2, <2>3, OthersKeepBooks DEF Exists
<1>13. CASE UndoPayment(r) \/ EndBackfill(r) \/ GiveUp(r)
  <2>1. /\ ~Idle(r) /\ Finish(r)
        /\ UNCHANGED <<bill, line, payable, restated, cleared>>
        /\ \/ UNCHANGED past /\ request[r].step \notin {"dropLine", "insertLine"}
           \/ past' = IF Midway(request[r]) /\ past[b] = "clean"
                      THEN [past EXCEPT ![b] = "torn"] ELSE past
    BY <1>13 DEF UndoPayment, EndBackfill, GiveUp, At, Idle, stored
  <2>2. \A p \in Payments : payment'[p] = payment[p] \/ payment'[p].state = "removed"
    BY <1>13 DEF UndoPayment, EndBackfill, GiveUp, stored, TypeOK, PaymentRow
  <2> QED BY <2>1, <2>2, EndingKeepsBooks
<1>14. CASE FindCleared(r)
  <2> DEFINE next == IF cleared[request[r].payment] > 0 THEN AfterPosting(r) ELSE "postPayment"
  <2>1. /\ ~Idle(r) /\ request[r].step = "findCleared" /\ Goto(r, next)
        /\ UNCHANGED <<bill, line, payable, payment, cleared, restated>>
    BY <1>14 DEF FindCleared, At, Idle, stored
  <2>2. \/ next = "setPaid" /\ request[r].mode = "pay"
        \/ next = "nextPayment" /\ cleared[request[r].payment] > 0 /\ request[r].mode # "pay"
        \/ next = "postPayment"
    BY DEF AfterPosting
  <2> HIDE DEF next
  <2>3. Repairs(r)' /\ ReadsBill(r)' /\ Present(r)'
    BY <1>1, <1>3, <2>1, <2>2 DEF Repairs, ReadsBill, Present, Idle, Tracked, Exists
  <2> QED BY <1>3, <2>1, <2>3, ReadingKeepsBooks DEF Relining
<1>15. CASE PostPayment(r)
  <2>1. /\ ~Idle(r) /\ request[r].step = "postPayment" /\ Goto(r, AfterPosting(r))
        /\ cleared' = [cleared EXCEPT ![request[r].payment] = @ + 1]
        /\ UNCHANGED <<bill, line, payable, payment, restated>>
    BY <1>15 DEF PostPayment, At, Idle
  <2>2. /\ cleared'[request[r].payment] > 0
        /\ \A p \in Payments : cleared[p] > 0 => cleared'[p] > 0
    BY <1>1, <2>1 DEF TypeOK, LocalState
  <2>3. \/ AfterPosting(r) = "setPaid" /\ request[r].mode = "pay"
        \/ AfterPosting(r) = "nextPayment" /\ request[r].mode # "pay"
    BY DEF AfterPosting
  <2>4. Repairs(r)' /\ ReadsBill(r)' /\ Present(r)'
    BY <1>1, <1>3, <2>1, <2>2, <2>3 DEF Repairs, ReadsBill, Present, Idle, Tracked, Exists
  <2> QED BY <1>3, <2>1, <2>2, <2>4, ReadingKeepsBooks DEF Relining
<1>16. CASE PostFails(r)
  <2>1. /\ ~Idle(r) /\ request[r].step \in {"findCleared", "postPayment"} /\ Goto(r, "undoPayment")
        /\ request[r].mode = "pay"
        /\ UNCHANGED <<bill, line, payable, payment, cleared, restated>>
    BY <1>16 DEF PostFails, At, Idle, stored
  <2>2. Repairs(r)' /\ ReadsBill(r)' /\ Present(r)'
    BY <1>1, <1>3, <2>1 DEF Repairs, ReadsBill, Present, Idle, Tracked, Exists
  <2> QED BY <1>3, <2>1, <2>2, ReadingKeepsBooks DEF Relining
<1>17. CASE ListPayments(r)
  <2> DEFINE rows == {p \in Payments : payment[p].state = "live" /\ payment[p].bill = b}
             new == [request[r] EXCEPT !.todo = rows, !.step = "nextPayment"]
  <2>1. /\ ~Idle(r) /\ request[r].step = "listPayments" /\ request' = [request EXCEPT ![r] = new]
        /\ UNCHANGED <<bill, line, payable, payment, cleared, past, restated>>
    BY <1>17 DEF ListPayments, At, Idle, stored, history
  <2>2. /\ new.step = "nextPayment" /\ new.todo = rows /\ new.bill = b
        /\ new.mode = request[r].mode
    BY <1>1 DEF LocalState
  <2> HIDE DEF new
  <2>3. request'[r] = new /\ \A q \in Requests \ {r} : request'[q] = request[q]
    BY <2>1 DEF TypeOK
  <2>4. Repairs(r)' /\ ReadsBill(r)' /\ Present(r)'
    BY <1>1, <2>1, <2>2, <2>3 DEF Repairs, ReadsBill, Present, Idle, Tracked, Exists
  <2> QED BY <2>1, <2>2, <2>3, <2>4, ReadingKeepsBooks DEF Relining
<1>18. ASSUME NEW p \in Payments, InsertPayment(r, p) PROVE BookInv'
  <2> DEFINE new == [request[r] EXCEPT !.payment = p, !.step = "findCleared"]
  <2>1. /\ ~Idle(r) /\ request[r].step = "insertPayment" /\ request' = [request EXCEPT ![r] = new]
        /\ UNCHANGED <<bill, line, payable, cleared, past, restated>>
        /\ payment' = [payment EXCEPT ![p] = [state |-> "live", bill |-> b,
                                              amount |-> request[r].amount,
                                              date |-> request[r].date]]
    BY <1>18 DEF InsertPayment, At, Idle, history
  <2>2. new.step = "findCleared" /\ new.bill = b /\ new.mode = request[r].mode
    BY <1>1 DEF LocalState
  <2> HIDE DEF new
  <2>3. request'[r] = new /\ \A q \in Requests \ {r} : request'[q] = request[q]
    BY <2>1 DEF TypeOK
  <2>4. Repairs(r)' /\ ReadsBill(r)' /\ Present(r)'
    BY <1>1, <2>1, <2>2, <2>3 DEF Repairs, ReadsBill, Present, Idle, Tracked, Exists
  <2>5. \A o \in Payments : payment'[o] = payment[o] \/ payment'[o].bill = b
    BY <2>1 DEF TypeOK
  <2> QED BY <2>1, <2>2, <2>3, <2>4, <2>5, ReadingKeepsBooks DEF Relining
<1>19. ASSUME NEW p \in Payments, NextPayment(r, p) PROVE BookInv'
  <2> DEFINE rest == [request[r] EXCEPT !.todo = @ \ {p}]
             turn == [rest EXCEPT !.payment = p, !.date = payment[p].date,
                                  !.check = {payment[p].date}, !.step = "findCleared"]
             new == IF cleared[p] > 0 THEN rest ELSE turn
  <2>1. /\ ~Idle(r) /\ request[r].step = "nextPayment" /\ request' = [request EXCEPT ![r] = new]
        /\ UNCHANGED <<bill, line, payable, payment, cleared, past, restated>>
    BY <1>19 DEF NextPayment, At, Idle, stored, history
  <2>2. /\ new.todo = request[r].todo \ {p} /\ new.bill = b /\ new.mode = request[r].mode
        /\ \/ cleared[p] > 0 /\ new.step = "nextPayment"
           \/ new.step = "findCleared" /\ new.payment = p
    <3>1. /\ rest \in LocalState /\ rest.todo = request[r].todo \ {p} /\ rest.bill = b
          /\ rest.mode = request[r].mode /\ rest.step = "nextPayment"
      BY <1>1, <2>1 DEF LocalState
    <3> HIDE DEF rest
    <3> QED BY <3>1 DEF LocalState
  <2> HIDE DEF new
  <2>3. request'[r] = new /\ \A q \in Requests \ {r} : request'[q] = request[q]
    BY <2>1 DEF TypeOK
  <2>4. Repairs(r)' /\ ReadsBill(r)' /\ Present(r)'
    BY <1>1, <2>1, <2>2, <2>3 DEF Repairs, ReadsBill, Present, Idle, Tracked, Exists
  <2> QED BY <2>1, <2>2, <2>3, <2>4, ReadingKeepsBooks DEF Relining
<1>20. ASSUME NEW m \in Periods, PassLock(r, m) PROVE BookInv'
  <2> DEFINE new == [request[r] EXCEPT !.check = @ \ {m}]
  <2>1. /\ request' = [request EXCEPT ![r] = new] /\ m \in request[r].check
        /\ UNCHANGED <<bill, line, payable, payment, cleared, past, restated>>
    BY <1>20 DEF PassLock, stored, history, TypeOK
  <2>2. ~Idle(r)
    BY <1>1, <2>1 DEF Present
  <2>3. /\ new.step = request[r].step /\ new.bill = b /\ new.mode = request[r].mode
        /\ new.edit = request[r].edit /\ new.snap = request[r].snap /\ new.line = request[r].line
        /\ new.todo = request[r].todo /\ new.payment = request[r].payment
    BY <1>1 DEF LocalState
  <2> HIDE DEF new
  <2>4. request'[r] = new /\ \A q \in Requests \ {r} : request'[q] = request[q]
    BY <2>1 DEF TypeOK
  <2>5. Repairs(r)' /\ ReadsBill(r)' /\ Present(r)' /\ (Relining(r, b) => Relining(r, b)')
    BY <1>1, <2>1, <2>2, <2>3, <2>4 DEF Repairs, ReadsBill, Present, Idle, Tracked, Exists, Relining
  <2> QED BY <2>1, <2>2, <2>3, <2>4, <2>5, ReadingKeepsBooks
<1> QED BY <1>5, <1>6, <1>7, <1>8, <1>9, <1>10, <1>11, <1>12, <1>13, <1>14, <1>15, <1>16, <1>17,
           <1>18, <1>19, <1>20 DEF Handler

LEMMA RequestBooks ==
    ASSUME TypeOK, BookInv, NEW r \in Requests, NEW b \in Bills, Request(r, b)
    PROVE  BookInv'
<1>1. ASSUME NEW local \in LocalState, Begin(r, b, local),
             \/ bill[b].status # "absent" /\ local.step \in {"writeBill", "insertPayment"}
             \/ /\ bill[b].status # "absent" /\ local.step = "readLine"
                /\ local.snap = bill[b]
             \/ local.step = "insertBill" /\ local.edit.status = "pending",
             local.step = "insertPayment" <=> local.mode = "pay"
      PROVE  BookInv'
  <2>1. /\ request'[r] = [local EXCEPT !.bill = b] /\ Idle(r)
        /\ \A q \in Requests \ {r} : request'[q] = request[q]
        /\ past' = IF Alone(r, b) THEN past ELSE [past EXCEPT ![b] = "crossed"]
        /\ UNCHANGED <<bill, line, payment, payable, cleared, restated>>
    BY <1>1 DEF Begin, TypeOK, stored
  <2>2. /\ request'[r].step = local.step /\ request'[r].mode = local.mode /\ request'[r].bill = b
        /\ request'[r].snap = local.snap /\ request'[r].edit = local.edit
    BY <2>1 DEF LocalState
  <2>3. ASSUME NEW c \in Bills
        PROVE  /\ past'[c] # "crossed" => past[c] = past'[c] /\ (c = b => Alone(r, b))
               /\ Tracked(c)' => Tracked(c)
    BY <2>1 DEF TypeOK, Tracked, Exists
  <2>4. \A q \in Requests : request[q].bill \in Bills
    BY DEF TypeOK, LocalState
  <2>5. Apart'
    <3> SUFFICES ASSUME NEW p \in Requests, NEW q \in Requests, ~Idle(p)', ~Idle(q)',
                        request'[p].bill = request'[q].bill, past'[request'[p].bill] # "crossed"
                 PROVE  p = q
      BY DEF Apart
    <3>1. CASE p # r /\ q # r
      BY <2>1, <2>3, <2>4, <3>1 DEF BookInv, Apart, Idle
    <3>2. CASE p = r \/ q = r
      <4>1. Alone(r, b)
        BY <2>2, <2>3, <3>2
      <4>2. ASSUME NEW o \in Requests \ {r}, ~Idle(o)' PROVE request'[o].bill # b
        BY <2>1, <4>1, <4>2 DEF Alone, Idle
      <4> QED BY <2>2, <3>2, <4>2
    <3> QED BY <3>1, <3>2
  <2>6. Repairs(r)' /\ ReadsBill(r)' /\ Present(r)'
    BY <1>1, <2>1, <2>2 DEF Repairs, ReadsBill, Present, Idle
  <2>7. ASSUME NEW q \in Requests \ {r} PROVE Repairs(q)' /\ ReadsBill(q)' /\ Present(q)'
    <3>1. Repairs(q) /\ ReadsBill(q) /\ Present(q) /\ request'[q] = request[q]
          /\ request[q].bill \in Bills
      BY <2>1, <2>4 DEF BookInv
    <3> QED BY <2>1, <2>3, <3>1 DEF Repairs, ReadsBill, Present, Idle
  <2>8. ASSUME NEW c \in Bills PROVE BillFits(c)'
    <3>1. BillFits(c) /\ (Tracked(c)' => Tracked(c)) /\ Owed(c)' = Owed(c)
      BY <2>1, <2>3 DEF BookInv, Owed
    <3>2. \A q \in Requests : Relining(q, c) => Relining(q, c)'
      BY <2>1 DEF Relining, Idle
    <3> QED BY <2>1, <3>1, <3>2 DEF BillFits
  <2> QED BY <2>5, <2>6, <2>7, <2>8 DEF BookInv
<1>2. Resting.mode = "write" /\ Resting \in LocalState
  BY RestingType DEF Resting
<1>3. ASSUME NEW item \in LineItems, NEW charge \in Charges, NEW d \in Periods,
             Create(r, b, item, charge, d)
      PROVE  BookInv'
  <2> DEFINE row == [NoBill EXCEPT !.status = "pending", !.net = item.net, !.vat = item.vat,
                               !.total = IF charge = "reverse" THEN item.net
                                                               ELSE item.net + item.vat,
                               !.charge = charge, !.date = d]
             local == [Resting EXCEPT !.step = "insertBill", !.edit = row, !.check = {d}]
  <2>1. row \in Row /\ row.status = "pending"
    <3>1. item.net \in Nat /\ item.vat \in Nat /\ item.net + item.vat \in Nat
      OBVIOUS
    <3> QED BY <3>1, AnyPeriodType DEF NoBill, Row, Statuses, Charges
  <2>2. Begin(r, b, local)
    BY <1>3 DEF Create
  <2> HIDE DEF row
  <2>3. local \in LocalState /\ local.mode = "write" /\ local.step = "insertBill"
        /\ local.edit.status = "pending"
    BY <1>2, <2>1 DEF LocalState, Steps
  <2> HIDE DEF local
  <2> QED BY <1>1, <2>2, <2>3
<1>4. ASSUME NEW item \in LineItems, NEW fields \in SUBSET {"date", "line"}, NEW d \in Periods,
             Edit(r, b, fields, item, d)
      PROVE  BookInv'
  <2> DEFINE values == [NoBill EXCEPT !.net = item.net, !.vat = item.vat,
                                  !.total = item.net + item.vat, !.date = d]
             checks == {bill[b].date} \cup (IF "date" \in fields THEN {d} ELSE {})
             local == [Resting EXCEPT !.step = "writeBill", !.edit = values, !.fields = fields,
                                      !.check = checks]
  <2>1. values \in Row
    <3>1. item.net \in Nat /\ item.vat \in Nat /\ item.net + item.vat \in Nat
      OBVIOUS
    <3> QED BY <3>1, AnyPeriodType DEF NoBill, Row, Statuses, Charges
  <2>2. checks \in SUBSET Periods
    BY DEF TypeOK, Row
  <2>3. Begin(r, b, local) /\ bill[b].status # "absent"
    BY <1>4 DEF Edit, Exists
  <2> HIDE DEF values, checks
  <2>4. local \in LocalState /\ local.mode = "write" /\ local.step = "writeBill"
    BY <1>2, <2>1, <2>2 DEF LocalState, Steps
  <2> HIDE DEF local
  <2> QED BY <1>1, <2>3, <2>4
<1>5. ASSUME NEW amount \in Amounts, NEW d \in Periods, Pay(r, b, amount, d) PROVE BookInv'
  <2> DEFINE local == [Resting EXCEPT !.step = "insertPayment", !.mode = "pay", !.snap = bill[b],
                                      !.amount = amount, !.date = d, !.check = {d}]
  <2>1. bill[b] \in Row
    BY DEF TypeOK
  <2>2. local \in LocalState /\ local.mode = "pay" /\ local.step = "insertPayment"
    BY <1>2, <2>1 DEF LocalState, Steps
  <2>3. Begin(r, b, local) /\ bill[b].status # "absent"
    BY <1>5 DEF Pay, Exists
  <2> HIDE DEF local
  <2> QED BY <1>1, <2>2, <2>3
<1>6. CASE Approve(r, b) \/ Backfill(r, b)
  <2>1. PICK mode \in {"approve", "backfill"} :
           Begin(r, b, [Resting EXCEPT !.step = "readLine", !.mode = mode, !.snap = bill[b],
                                       !.check = {bill[b].date}])
    BY <1>6 DEF Approve, Backfill
  <2> DEFINE local == [Resting EXCEPT !.step = "readLine", !.mode = mode, !.snap = bill[b],
                                      !.check = {bill[b].date}]
  <2>2. bill[b] \in Row /\ {bill[b].date} \in SUBSET Periods
    BY DEF TypeOK, Row
  <2>3. local \in LocalState /\ local.mode = mode /\ local.step = "readLine"
        /\ local.snap = bill[b]
    BY <1>2, <2>2 DEF LocalState, Steps
  <2>4. bill[b].status # "absent"
    BY <1>6 DEF Approve, Backfill
  <2>5. Begin(r, b, local)
    BY <2>1
  <2> HIDE DEF local
  <2> QED BY <1>1, <2>3, <2>4, <2>5
<1> QED BY <1>3, <1>4, <1>5, <1>6 DEF Request

LEMMA BookStep == TypeOK /\ PaidInv /\ BookInv /\ [Next]_vars => BookInv'
<1> SUFFICES ASSUME TypeOK, PaidInv, BookInv, [Next]_vars PROVE BookInv'
  OBVIOUS
<1>1. ASSUME UNCHANGED <<bill, line, payment, payable, cleared, request, past, restated>>
      PROVE  BookInv'
  <2>1. Apart'
    BY <1>1 DEF BookInv, Apart, Idle
  <2>2. ASSUME NEW r \in Requests PROVE Repairs(r)' /\ ReadsBill(r)' /\ Present(r)'
    BY <1>1 DEF BookInv, Repairs, ReadsBill, Present, Idle, Tracked, Exists
  <2>3. ASSUME NEW b \in Bills PROVE BillFits(b)'
    BY <1>1 DEF BookInv, BillFits, Relining, Owed, Tracked, Exists
  <2> QED BY <2>1, <2>2, <2>3 DEF BookInv
<1>2. ASSUME NEW b \in Bills, DeleteBill(b) PROVE BookInv'
  <2>1. /\ bill' = [bill EXCEPT ![b].status = "deleted"] /\ line' = [line EXCEPT ![b] = 0]
        /\ payment' = [p \in Payments |->
                          IF payment[p].state = "live" /\ payment[p].bill = b
                          THEN [payment[p] EXCEPT !.state = "removed"] ELSE payment[p]]
        /\ UNCHANGED <<payable, cleared, request, past, restated>>
    BY <1>2 DEF DeleteBill, history
  <2>2. /\ bill'[b].status = "deleted"
        /\ \A c \in Bills \ {b} : bill'[c] = bill[c] /\ line'[c] = line[c]
    BY <2>1 DEF TypeOK, Row
  <2>3. \A p \in Payments : payment'[p] = payment[p] \/ payment'[p].state = "removed"
    BY <2>1 DEF TypeOK, PaymentRow
  <2>4. Apart'
    BY <2>1 DEF BookInv, Apart, Idle
  <2>5. ASSUME NEW r \in Requests PROVE Repairs(r)' /\ ReadsBill(r)' /\ Present(r)'
    <3>1. Repairs(r) /\ ReadsBill(r) /\ Present(r) /\ request[r].bill \in Bills
      BY DEF BookInv, TypeOK, LocalState
    <3>2. Repairs(r)'
      BY <2>1, <2>3, <3>1 DEF Repairs
    <3>3. Present(r)'
      BY <2>1, <2>2, <3>1 DEF Present, Idle
    <3>4. ReadsBill(r)'
      BY <2>1, <2>2, <3>1 DEF ReadsBill, Tracked, Exists
    <3> QED BY <3>2, <3>3, <3>4
  <2>6. ASSUME NEW c \in Bills PROVE BillFits(c)'
    <3>1. CASE c = b
      BY <2>2, <3>1 DEF BillFits, Tracked, Exists
    <3>2. CASE c # b
      BY <2>1, <2>2, <3>2 DEF BookInv, BillFits, Relining, Owed, Tracked, Exists
    <3> QED BY <3>1, <3>2
  <2> QED BY <2>4, <2>5, <2>6 DEF BookInv
<1>3. ASSUME NEW p \in Lockable, LockPeriod(p) \/ UnlockPeriod(p) PROVE BookInv'
  BY <1>1, <1>3 DEF LockPeriod, UnlockPeriod, stored
<1>4. CASE UNCHANGED vars
  BY <1>1, <1>4 DEF vars
<1> QED BY <1>2, <1>3, <1>4, HandlerBooks, RequestBooks DEF Next

LEMMA BookInvariant == Spec => [](TypeOK /\ PaidInv /\ BookInv)
<1>1. Init => PaidInv
  BY RestingType DEF Init, PaidInv, RecordedWithinTotal, Exists, NoBill, Fitting, Shaped, Inserting,
                     Writing
<1>2. Init => BookInv
  BY RestingType DEF Init, BookInv, Apart, Repairs, ReadsBill, Present, BillFits, Tracked, Exists,
                     NoBill, Resting, Idle, Unposted
<1> QED BY <1>1, <1>2, InitType, TypeStep, PaidStep, BookStep, PTL DEF Spec

\* The payable of a bill is posted once and for what the vendor is owed,
\* however many approvals, edits and backfills follow each other on it.
THEOREM PayablesPostOnce == Spec => []PayableOnce
<1>1. TypeOK /\ BookInv => PayableOnce
  <2> SUFFICES ASSUME TypeOK, BookInv, NEW b \in Bills, Tracked(b), payable[b].posted > 0
               PROVE  payable[b] = Owed(b)
    BY DEF PayableOnce, Tracked, Owed
  <2>1. Unposted.posted = 0
    BY DEF Unposted
  <2> QED BY <2>1 DEF BookInv, BillFits
<1> QED BY <1>1, BookInvariant, PTL

\* A backfill that comes to the end of a bill leaves its payable and all its
\* payments in the ledger.
THEOREM BackfillsRepair == Spec => BackfillRepairs
<1>1. TypeOK /\ PaidInv /\ BookInv /\ [Next]_vars =>
         [\A r \in Requests :
             LET b == request[r].bill IN
             EndBackfill(r) /\ past[b] # "crossed" =>
                 /\ payable[b].posted > 0
                 /\ \A p \in Payments :
                       payment[p].state = "live" /\ payment[p].bill = b => cleared[p] > 0]_vars
  <2> SUFFICES ASSUME BookInv, NEW r \in Requests, EndBackfill(r),
                      past[request[r].bill] # "crossed"
               PROVE  /\ payable[request[r].bill].posted > 0
                      /\ \A p \in Payments :
                            payment[p].state = "live" /\ payment[p].bill = request[r].bill
                            => cleared[p] > 0
    OBVIOUS
  <2>1. request[r].step = "nextPayment" /\ request[r].todo = {} /\ request[r].mode # "pay" /\ Repairs(r)
    BY DEF EndBackfill, At, BookInv, Present
  <2> QED BY <2>1 DEF Repairs
<1> QED BY <1>1, BookInvariant, PTL DEF Spec, BackfillRepairs

-----------------------------------------------------------------------------
(* Amount_paid and the payment rows: what the live rows of a bill add up to  *)
(* changes with one row at a time (SumTheorems), and while it differs from   *)
(* amount_paid, the one handler on the bill holds the row that is missing.   *)

\* A row of bill_payments for b, and a handler that has inserted its row and has
\* not yet come to write amount_paid, or to take the row back.
Of(p, b) == payment[p].state # "absent" /\ payment[p].bill = b

Adding(r) ==
    request[r].mode = "pay"
    /\ request[r].step \in {"findCleared", "postPayment", "undoPayment", "setPaid"}

Inserted == {p \in Payments : payment[p].state # "absent"}

RowsKept ==
    /\ IsFiniteSet(Inserted)
    /\ \A p \in Payments :
          IF payment[p].state = "absent" THEN cleared[p] = 0
                                         ELSE bill[payment[p].bill].status # "absent"

\* What a handler holds are rows of its own bill.
Listed(r) ==
    /\ request[r].step \in {"findCleared", "postPayment", "undoPayment", "setPaid"} =>
          Of(request[r].payment, request[r].bill)
    /\ request[r].step \in {"undoPayment", "setPaid"} => request[r].mode = "pay"
    /\ \A p \in request[r].todo : Of(p, request[r].bill)

\* A bill that PaymentsTie speaks of.
Tied(b) == past[b] = "clean" /\ Exists(b)

\* A payment in progress has read the amount_paid there still is, and once its row
\* is in, that and its own amount are what the rows add up to; the backfill
\* finds nothing to post.
KnowsPaid(r) ==
    LET local == request[r]
        b     == local.bill
        p     == local.payment
    IN  Tied(b) /\ ~Idle(r) =>
            /\ local.mode = "pay" => local.snap.paid = bill[b].paid
            /\ Adding(r) =>
                  /\ payment[p].state = "live" /\ payment[p].amount = local.amount
                  /\ cleared[p] = IF local.step = "setPaid" THEN 1 ELSE 0
                  /\ bill[b].paid + local.amount = PaidOut(b)
            /\ local.mode # "pay" =>
                  /\ local.step \notin {"findCleared", "postPayment"}
                  /\ \A o \in local.todo : payment[o].state = "live"

AddingTo(r, b) == Adding(r) /\ request[r].bill = b

\* Rows and ledger agree but for the row of a payment in progress.
RowsTie(b) ==
    Tied(b) =>
        /\ \A p \in Payments : Of(p, b) =>
              \/ cleared[p] = IF payment[p].state = "live" THEN 1 ELSE 0
              \/ \E r \in Requests : AddingTo(r, b) /\ request[r].payment = p
        /\ bill[b].paid = PaidOut(b) \/ \E r \in Requests : AddingTo(r, b)

TieInv ==
    /\ RowsKept
    /\ \A r \in Requests : Listed(r) /\ KnowsPaid(r)
    /\ \A b \in Bills : RowsTie(b)

RowsOf(b) == {p \in Payments : payment[p].state = "live" /\ payment[p].bill = b}

LEMMA AmountsSum ==
    ASSUME NEW pay, NEW S \in SUBSET Payments, IsFiniteSet(S)
    PROVE  MapThenSumSet(LAMBDA p : pay[p].amount, S) = Sum([p \in Payments |-> pay[p].amount], S)
<1> DEFINE amounts == [p \in Payments |-> pay[p].amount]
           iter == CHOOSE g : g = [s \in SUBSET S |-> IF s = {} THEN 0
                                      ELSE pay[CHOOSE x \in s : TRUE].amount + g[s \ {CHOOSE x \in s : TRUE}]]
<1>1. MapThenSumSet(LAMBDA p : pay[p].amount, S) = iter[S]
  BY DEF MapThenSumSet, MapThenFoldSet
<1>2. PICK g : Adds(g, amounts, S) /\ Sum(amounts, S) = g[S]
  BY SumUnfold, AddsExists
<1>3. \A s \in SUBSET S : s # {} => amounts[Chosen(s)] = pay[Chosen(s)].amount
  BY ChosenIn
<1>4. g = [s \in SUBSET S |-> IF s = {} THEN 0 ELSE pay[Chosen(s)].amount + g[s \ {Chosen(s)}]]
  BY <1>2, <1>3 DEF Adds
<1>5. iter = [s \in SUBSET S |-> IF s = {} THEN 0 ELSE pay[Chosen(s)].amount + iter[s \ {Chosen(s)}]]
  BY <1>4 DEF Chosen
<1> HIDE DEF iter, amounts
<1>6. Adds(iter, amounts, S)
  BY <1>3, <1>5 DEF Adds
<1>7. iter[S] = g[S]
  BY <1>2, <1>6, AddsAgree
<1> QED BY <1>1, <1>2, <1>7 DEF amounts

LEMMA PaidOutSums ==
    ASSUME NEW b \in Bills
    PROVE  /\ IsFiniteSet(RowsOf(b)) =>
                 PaidOut(b) = Sum([p \in Payments |-> payment[p].amount], RowsOf(b))
           /\ IsFiniteSet(RowsOf(b)') =>
                 PaidOut(b)' = Sum([p \in Payments |-> payment'[p].amount], RowsOf(b)')
<1>1. ASSUME IsFiniteSet(RowsOf(b))
      PROVE  MapThenSumSet(LAMBDA p : payment[p].amount, RowsOf(b))
             = Sum([p \in Payments |-> payment[p].amount], RowsOf(b))
  <2>1. RowsOf(b) \in SUBSET Payments
    BY DEF RowsOf
  <2> QED BY <1>1, <2>1, AmountsSum
<1>2. ASSUME IsFiniteSet(RowsOf(b)')
      PROVE  MapThenSumSet(LAMBDA p : payment'[p].amount, RowsOf(b)')
             = Sum([p \in Payments |-> payment'[p].amount], RowsOf(b)')
  <2>1. RowsOf(b)' \in SUBSET Payments
    BY DEF RowsOf
  <2> QED BY <1>2, <2>1, AmountsSum
<1>3. PaidOut(b) = MapThenSumSet(LAMBDA p : payment[p].amount, RowsOf(b))
  BY DEF PaidOut, RowsOf
<1>4. PaidOut(b)' = MapThenSumSet(LAMBDA p : payment'[p].amount, RowsOf(b)')
  BY DEF PaidOut, RowsOf, MapThenSumSet, MapThenFoldSet
<1> QED BY <1>1, <1>2, <1>3, <1>4

\* What the rows of a bill add up to changes by the row that comes or goes.
LEMMA PaidOutChanges ==
    ASSUME TypeOK, TypeOK', NEW b \in Bills, IsFiniteSet(RowsOf(b)), IsFiniteSet(RowsOf(b)'),
           \A p \in RowsOf(b) : payment'[p].amount = payment[p].amount
    PROVE  /\ PaidOut(b) \in Int
           /\ RowsOf(b)' = RowsOf(b) => PaidOut(b)' = PaidOut(b)
           /\ \A p \in RowsOf(b)' : RowsOf(b) = RowsOf(b)' \ {p} =>
                 PaidOut(b)' = PaidOut(b) + payment'[p].amount
           /\ \A p \in RowsOf(b) : RowsOf(b)' = RowsOf(b) \ {p} =>
                 PaidOut(b)' = PaidOut(b) - payment[p].amount
<1> DEFINE now == [p \in Payments |-> payment[p].amount]
           then == [p \in Payments |-> payment'[p].amount]
<1>1. /\ \A p \in Payments : now[p] \in Int /\ then[p] \in Int
      /\ \A p \in Payments : now[p] = payment[p].amount /\ then[p] = payment'[p].amount
  BY DEF TypeOK, PaymentRow
<1>2. PaidOut(b) = Sum(now, RowsOf(b)) /\ PaidOut(b)' = Sum(then, RowsOf(b)')
  BY PaidOutSums
<1>3. RowsOf(b) \subseteq Payments /\ RowsOf(b)' \subseteq Payments
  BY DEF RowsOf
<1> HIDE DEF now, then
<1>4. ASSUME NEW S \in SUBSET RowsOf(b)
      PROVE  Sum(then, S) = Sum(now, S) /\ Sum(now, S) \in Int
  <2>1. IsFiniteSet(S) /\ \A x \in S : then[x] = now[x] /\ now[x] \in Int
    BY <1>1, <1>3, FS_Subset
  <2> QED BY <2>1, SumSame, SumType
<1>5. ASSUME NEW p \in RowsOf(b)', RowsOf(b) = RowsOf(b)' \ {p}
      PROVE  PaidOut(b)' = PaidOut(b) + payment'[p].amount
  <2>1. Sum(then, RowsOf(b)') = then[p] + Sum(then, RowsOf(b)' \ {p})
    BY <1>1, <1>3, SumRemove
  <2> QED BY <1>1, <1>2, <1>3, <1>4, <1>5, <2>1
<1>6. ASSUME NEW p \in RowsOf(b), RowsOf(b)' = RowsOf(b) \ {p}
      PROVE  PaidOut(b)' = PaidOut(b) - payment[p].amount
  <2>1. Sum(now, RowsOf(b)) = now[p] + Sum(now, RowsOf(b) \ {p})
    BY <1>1, <1>3, SumRemove
  <2>2. Sum(then, RowsOf(b)') = Sum(now, RowsOf(b) \ {p}) /\ Sum(now, RowsOf(b) \ {p}) \in Int
    BY <1>4, <1>6
  <2> QED BY <1>1, <1>2, <1>3, <1>4, <2>1, <2>2
<1> QED BY <1>2, <1>4, <1>5, <1>6

\* A step on bill b leaves the rows of the other bills alone.
Within(b) ==
    \A p \in Payments :
        /\ Of(p, b) => Of(p, b)'
        /\ Of(p, b)' => Of(p, b) \/ payment[p].state = "absent"
        /\ Of(p, b)' \/ (payment'[p] = payment[p] /\ cleared'[p] = cleared[p])

LEMMA RowsAreFinite ==
    ASSUME NEW b \in Bills
    PROVE  /\ RowsKept => IsFiniteSet(RowsOf(b))
           /\ RowsKept' => IsFiniteSet(RowsOf(b)')
<1>1. RowsOf(b) \subseteq Inserted /\ RowsOf(b)' \subseteq Inserted'
  BY DEF RowsOf, Inserted
<1> QED BY <1>1, FS_Subset DEF RowsKept

\* Bills that are not stepped on keep what their rows add up to.
LEMMA OthersAddUp ==
    ASSUME TypeOK, TypeOK', RowsKept, RowsKept', NEW b \in Bills, Within(b), NEW c \in Bills \ {b}
    PROVE  PaidOut(c)' = PaidOut(c)
<1>1. \A p \in Payments : payment[p].state # "absent" /\ payment[p].bill = c => payment'[p] = payment[p]
  BY DEF Within, Of
<1>2. \A p \in Payments : payment'[p].state # "absent" /\ payment'[p].bill = c => payment'[p] = payment[p]
  BY DEF Within, Of
<1>3. RowsOf(c)' = RowsOf(c)
  BY <1>1, <1>2 DEF RowsOf
<1>4. \A p \in RowsOf(c) : payment'[p].amount = payment[p].amount
  BY <1>1 DEF RowsOf
<1>5. IsFiniteSet(RowsOf(c)) /\ IsFiniteSet(RowsOf(c)')
  BY RowsAreFinite
<1> QED BY <1>3, <1>4, <1>5, PaidOutChanges

\* A step of r on its bill b leaves every other handler's knowledge true.
LEMMA OthersKeepTies ==
    ASSUME TypeOK, TypeOK', BookInv, TieInv, NEW r \in Requests, NEW b \in Bills,
           ~Idle(r), request[r].bill = b, Within(b),
           \A q \in Requests \ {r} : request'[q] = request[q],
           \A c \in Bills \ {b} : bill'[c] = bill[c] /\ past'[c] = past[c],
           past[b] = "crossed" => past'[b] = "crossed",
           RowsKept', Listed(r)', KnowsPaid(r)', RowsTie(b)'
    PROVE  TieInv'
<1>1. \A q \in Requests : request[q].bill \in Bills /\ request[q].payment \in Payments
                             /\ request[q].todo \subseteq Payments
  BY DEF TypeOK, LocalState
<1>2. \A p \in Payments, c \in Bills : Of(p, c) => Of(p, c)'
  BY DEF Within, Of
<1>3. ASSUME NEW p \in Payments, NEW c \in Bills \ {b}, Of(p, c) \/ Of(p, c)'
      PROVE  payment'[p] = payment[p] /\ cleared'[p] = cleared[p]
  BY <1>3 DEF Within, Of
<1>4. ASSUME NEW c \in Bills \ {b} PROVE PaidOut(c)' = PaidOut(c) /\ (Tied(c)' <=> Tied(c))
  BY OthersAddUp DEF TieInv, Tied, Exists
<1>5. ASSUME NEW q \in Requests \ {r} PROVE Listed(q)' /\ KnowsPaid(q)'
  <2>1. Listed(q) /\ KnowsPaid(q) /\ request'[q] = request[q]
    BY DEF TieInv
  <2>2. Listed(q)'
    BY <1>1, <1>2, <2>1 DEF Listed
  <2>3. CASE request[q].bill # b
    <3>1. PICK c \in Bills \ {b} : c = request[q].bill
      BY <1>1, <2>3
    <3>2. ASSUME Tied(c), ~Idle(q) PROVE KnowsPaid(q)'
      <4>1. Adding(q) => payment'[request[q].payment] = payment[request[q].payment]
                         /\ cleared'[request[q].payment] = cleared[request[q].payment]
        BY <1>1, <1>3, <2>1, <3>1 DEF Listed, Adding
      <4>2. \A p \in request[q].todo : payment'[p] = payment[p]
        BY <1>1, <1>3, <2>1, <3>1 DEF Listed
      <4> QED BY <1>4, <2>1, <3>1, <3>2, <4>1, <4>2 DEF KnowsPaid, Adding
    <3> QED BY <1>4, <2>1, <2>2, <3>1, <3>2 DEF KnowsPaid, Idle
  <2>4. CASE request[q].bill = b
    <3>1. Idle(q) \/ past'[b] = "crossed"
      BY <2>4 DEF BookInv, Apart
    <3> QED BY <2>1, <2>2, <2>4, <3>1 DEF KnowsPaid, Tied, Idle
  <2> QED BY <2>3, <2>4
<1>6. ASSUME NEW c \in Bills \ {b} PROVE RowsTie(c)'
  <2>1. RowsTie(c) /\ bill'[c] = bill[c]
    BY DEF TieInv
  <2>2. \A q \in Requests : AddingTo(q, c) => AddingTo(q, c)' /\ request'[q] = request[q]
    BY DEF AddingTo, Adding
  <2>3. \A p \in Payments : Of(p, c)' => Of(p, c) /\ payment'[p] = payment[p] /\ cleared'[p] = cleared[p]
    BY <1>3 DEF Of
  <2> QED BY <1>4, <2>1, <2>2, <2>3 DEF RowsTie
<1> QED BY <1>5, <1>6 DEF TieInv

\* A step that writes no row, no entry of one and no amount_paid.
LEMMA QuietTies ==
    ASSUME TypeOK, TypeOK', BookInv, TieInv, NEW r \in Requests, NEW b \in Bills,
           ~Idle(r), request[r].bill = b, UNCHANGED <<payment, cleared>>,
           \A q \in Requests \ {r} : request'[q] = request[q],
           \A c \in Bills \ {b} : bill'[c] = bill[c] /\ past'[c] = past[c],
           past[b] = "crossed" => past'[b] = "crossed",
           bill[b].status # "absent" => bill'[b].status # "absent",
           Tied(b)' => Tied(b) /\ bill'[b].paid = bill[b].paid,
           Tied(b)' /\ Adding(r) => AddingTo(r, b)' /\ request'[r].payment = request[r].payment,
           Listed(r)', KnowsPaid(r)'
    PROVE  TieInv'
<1>1. Within(b)
  BY DEF Within, Of
<1>2. RowsKept'
  <2>1. Inserted' = Inserted
    BY DEF Inserted
  <2>2. ASSUME NEW p \in Payments, payment'[p].state # "absent"
        PROVE  bill'[payment'[p].bill].status # "absent"
    <3>1. payment[p].bill \in Bills /\ bill[payment[p].bill].status # "absent"
      BY <2>2 DEF TieInv, RowsKept, TypeOK, PaymentRow
    <3> QED BY <3>1
  <2> QED BY <2>1, <2>2 DEF TieInv, RowsKept
<1>3. RowsTie(b)'
  <2> SUFFICES ASSUME Tied(b)' PROVE RowsTie(b)'
    BY DEF RowsTie
  <2>1. \A q \in Requests : AddingTo(q, b) => AddingTo(q, b)' /\ request'[q].payment = request[q].payment
    BY DEF AddingTo, Adding
  <2>2. RowsOf(b)' = RowsOf(b)
    BY DEF RowsOf
  <2>3. PaidOut(b)' = PaidOut(b)
    BY <1>2, <2>2, RowsAreFinite, PaidOutChanges DEF TieInv
  <2>4. \A p \in Payments : Of(p, b)' => Of(p, b)
    BY DEF Of
  <2> QED BY <2>1, <2>3, <2>4 DEF TieInv, RowsTie
<1> QED BY <1>1, <1>2, <1>3, OthersKeepTies

LEMMA HandlerTies ==
    ASSUME TypeOK, TypeOK', PaidInv, BookInv, TieInv, NEW r \in Requests, Handler(r)
    PROVE  TieInv'
<1> SUFFICES ASSUME NEW b \in Bills, request[r].bill = b PROVE TieInv'
  BY DEF TypeOK, LocalState
<1>1. /\ request[r] \in LocalState /\ bill[b] \in Row
      /\ Listed(r) /\ KnowsPaid(r) /\ RowsTie(b) /\ RowsKept
      /\ Present(r) /\ Shaped(request[r]) /\ Inserting(r)
  BY DEF TypeOK, BookInv, PaidInv, TieInv
<1>2. ASSUME ~Idle(r), Tied(b), NEW q \in Requests, AddingTo(q, b) PROVE q = r
  BY <1>2 DEF BookInv, Apart, AddingTo, Adding, Tied, Idle
<1>3. ASSUME NEW step, Goto(r, step)
      PROVE  /\ request'[r].step = step /\ request'[r].bill = b
             /\ request'[r].mode = request[r].mode /\ request'[r].edit = request[r].edit
             /\ request'[r].snap = request[r].snap /\ request'[r].amount = request[r].amount
             /\ request'[r].todo = request[r].todo /\ request'[r].payment = request[r].payment
             /\ \A q \in Requests \ {r} : request'[q] = request[q]
             /\ past' = past
  <2>1. request'[r] = [request[r] EXCEPT !.step = step]
    BY <1>3 DEF Goto, TypeOK
  <2> QED BY <1>1, <1>3, <2>1 DEF Goto, TypeOK, LocalState
<1>4. ASSUME Finish(r)
      PROVE  /\ request'[r].step = "idle" /\ Listed(r)' /\ KnowsPaid(r)' /\ ~Adding(r)'
             /\ \A q \in Requests \ {r} : request'[q] = request[q]
  <2>1. request'[r] = Resting /\ \A q \in Requests \ {r} : request'[q] = request[q]
    BY <1>4 DEF Finish, TypeOK
  <2>2. Resting.todo = {}
    BY DEF Resting
  <2> QED BY <2>1, <2>2, RestingType DEF Listed, KnowsPaid, Idle, Adding
<1>5. CASE InsertBill(r)
  <2>1. /\ ~Idle(r) /\ bill[b].status = "absent" /\ request[r].edit.paid = 0 /\ Alone(r, b)
        /\ request[r].edit.status = "pending" /\ request[r].edit \in Row
        /\ request[r].mode = "write" /\ request[r].step = "insertBill"
    BY <1>1, <1>5 DEF InsertBill, At, Idle, Inserting, Present, LocalState, Shaped, Writing
  <2>2. bill' = [bill EXCEPT ![b] = request[r].edit] /\ UNCHANGED <<payment, cleared>>
        /\ Goto(r, "insertLine")
    BY <1>5 DEF InsertBill
  <2>3. bill'[b] = request[r].edit /\ \A c \in Bills \ {b} : bill'[c] = bill[c]
    BY <2>2 DEF TypeOK
  <2>4. \A p \in Payments : ~Of(p, b) /\ ~Of(p, b)'
    BY <1>1, <2>1, <2>2 DEF RowsKept, Of
  <2>5. Within(b)
    BY <2>2 DEF Within, Of
  <2>6. RowsKept'
    <3>1. Inserted' = Inserted
      BY <2>2 DEF Inserted
    <3>2. ASSUME NEW p \in Payments, payment'[p].state # "absent"
          PROVE  bill'[payment'[p].bill].status # "absent"
      <4>1. payment[p].bill \in Bills /\ bill[payment[p].bill].status # "absent"
        BY <1>1, <2>2, <3>2 DEF RowsKept, TypeOK, PaymentRow
      <4> QED BY <2>1, <2>2, <2>3, <4>1
    <3> QED BY <1>1, <2>2, <3>1, <3>2 DEF RowsKept
  <2>7. request'[r].todo = {}
    BY <1>1, <1>3, <2>2, <2>4 DEF Listed, LocalState
  <2>8. Listed(r)' /\ KnowsPaid(r)'
    BY <1>3, <2>1, <2>2, <2>7 DEF Listed, KnowsPaid, Adding
  <2>9. RowsTie(b)'
    <3>1. RowsOf(b)' = {}
      BY <2>4 DEF RowsOf, Of
    <3>2. PaidOut(b)' = 0
      BY <3>1, PaidOutSums, SumEmpty, FS_EmptySet
    <3> QED BY <2>1, <2>3, <2>4, <3>2 DEF RowsTie
  <2> QED BY <1>3, <2>1, <2>2, <2>3, <2>5, <2>6, <2>7, <2>8, <2>9, OthersKeepTies
\* Steps that end the handler or lead it on, with rows, entries and amount_paid as they are.
<1>6. ASSUME ~Idle(r), UNCHANGED <<payment, cleared>>, Finish(r),
             \A c \in Bills \ {b} : bill'[c] = bill[c] /\ past'[c] = past[c],
             bill'[b].paid = bill[b].paid, bill[b].status # "absent" => bill'[b].status # "absent",
             Exists(b)' => Exists(b), past[b] = "crossed" => past'[b] = "crossed",
             past'[b] = "clean" => past[b] = "clean" /\ ~Adding(r)
      PROVE  TieInv'
  <2>1. Tied(b)' => Tied(b) /\ bill'[b].paid = bill[b].paid /\ ~Adding(r)
    BY <1>6 DEF Tied
  <2> QED BY <1>4, <1>6, <2>1, QuietTies
<1>7. ASSUME ~Idle(r), UNCHANGED <<payment, cleared>>, NEW step, Goto(r, step),
             \A c \in Bills \ {b} : bill'[c] = bill[c],
             bill'[b].paid = bill[b].paid, bill[b].status # "absent" => bill'[b].status # "absent",
             Exists(b)' => Exists(b), step # "idle",
             step \notin {"findCleared", "postPayment", "undoPayment", "setPaid"},
             Tied(b) => ~Adding(r)
      PROVE  TieInv'
  <2>1. Tied(b)' => Tied(b) /\ bill'[b].paid = bill[b].paid /\ ~Adding(r)
    BY <1>3, <1>7 DEF Tied
  <2>2. Listed(r)'
    BY <1>1, <1>3, <1>7 DEF Listed, Of
  <2>3. KnowsPaid(r)'
    BY <1>1, <1>3, <1>7, <2>1 DEF KnowsPaid, Adding
  <2>4. /\ \A q \in Requests \ {r} : request'[q] = request[q]
        /\ \A c \in Bills \ {b} : bill'[c] = bill[c] /\ past'[c] = past[c]
        /\ past[b] = "crossed" => past'[b] = "crossed"
    BY <1>3, <1>7
  <2> QED BY <1>7, <2>1, <2>2, <2>3, <2>4, QuietTies
<1>8. CASE InsertLine(r)
  <2>1. ~Idle(r) /\ ~Adding(r) /\ Finish(r) /\ UNCHANGED <<bill, payment, cleared, past>>
    BY <1>8 DEF InsertLine, At, Idle, Adding
  <2> QED BY <1>6, <2>1 DEF Exists
<1>9. CASE SetApproved(r)
  <2>1. ~Idle(r) /\ ~Adding(r) /\ Finish(r) /\ UNCHANGED <<payment, cleared, past>> /\ Exists(b)
        /\ bill' = [bill EXCEPT ![b].status = "approved"]
    BY <1>9 DEF SetApproved, At, Idle, Adding
  <2>2. bill'[b].paid = bill[b].paid /\ bill'[b].status = "approved"
        /\ \A c \in Bills \ {b} : bill'[c] = bill[c]
    BY <1>1, <2>1 DEF TypeOK, Row
  <2> QED BY <1>6, <2>1, <2>2
<1>10. CASE EndBackfill(r)
  <2>1. ~Idle(r) /\ ~Adding(r) /\ Finish(r) /\ UNCHANGED <<bill, payment, cleared, past>>
    BY <1>10 DEF EndBackfill, At, Idle, Adding, stored
  <2> QED BY <1>6, <2>1 DEF Exists
<1>11. CASE GiveUp(r)
  <2>1. ~Idle(r) /\ Finish(r) /\ UNCHANGED <<bill, payment, cleared>>
        /\ past' = IF Midway(request[r]) /\ past[b] = "clean"
                   THEN [past EXCEPT ![b] = "torn"] ELSE past
    BY <1>11 DEF GiveUp, stored
  <2>2. Adding(r) => Midway(request[r])
    BY DEF Adding, Midway
  <2>3. /\ \A c \in Bills \ {b} : past'[c] = past[c]
        /\ past[b] = "crossed" => past'[b] = "crossed"
        /\ past'[b] = "clean" => past[b] = "clean" /\ ~Adding(r)
    BY <2>1, <2>2 DEF TypeOK
  <2> QED BY <1>6, <2>1, <2>3 DEF Exists
<1>12. CASE WriteBill(r)
  <2> DEFINE local == request[r]
             dated == IF "date" \in local.fields THEN [bill[b] EXCEPT !.date = local.edit.date]
                                                 ELSE bill[b]
             row == IF "line" \in local.fields
                    THEN [dated EXCEPT !.net = local.edit.net, !.vat = local.edit.vat,
                                       !.total = local.edit.total]
                    ELSE dated
  <2>1. row.status = bill[b].status /\ row.paid = bill[b].paid
    <3>1. dated.status = bill[b].status /\ dated.paid = bill[b].paid /\ dated \in Row
      BY <1>1 DEF Row, LocalState
    <3> HIDE DEF dated
    <3> QED BY <3>1 DEF Row
  <2>2. /\ request[r].step = "writeBill" /\ Exists(b)
        /\ bill' = [bill EXCEPT ![b] = row] /\ UNCHANGED <<payment, cleared>>
        /\ IF "line" \in local.fields THEN Goto(r, "dropLine") ELSE Finish(r) /\ UNCHANGED past
    BY <1>12 DEF WriteBill, At
  <2> HIDE DEF row
  <2>3. /\ bill'[b].paid = bill[b].paid /\ bill'[b].status = bill[b].status
        /\ \A c \in Bills \ {b} : bill'[c] = bill[c]
    BY <2>1, <2>2 DEF TypeOK
  <2>4. ~Idle(r) /\ ~Adding(r)
    BY <2>2 DEF Idle, Adding
  <2> QED BY <1>6, <1>7, <2>2, <2>3, <2>4 DEF Exists
<1>13. CASE DropLine(r) \/ FindPayable(r) \/ PostPayable(r)
  <2>1. /\ ~Idle(r) /\ ~Adding(r) /\ UNCHANGED <<bill, payment, cleared>>
        /\ \E step \in {"insertLine", "setApproved", "listPayments", "postPayable"} : Goto(r, step)
    BY <1>13 DEF DropLine, FindPayable, PostPayable, AfterPayable, At, Idle, Adding, stored
  <2> QED BY <1>7, <2>1 DEF Exists
\* Steps that lead it on with another list, another payment or another amount.
<1>14. ASSUME ~Idle(r), ~Adding(r), UNCHANGED <<bill, payment, cleared, past>>,
              \A q \in Requests \ {r} : request'[q] = request[q], Listed(r)', KnowsPaid(r)'
       PROVE  TieInv'
  <2>1. Tied(b)' => Tied(b)
    BY <1>14 DEF Tied, Exists
  <2> QED BY <1>14, <2>1, QuietTies
<1>15. CASE ReadLine(r)
  <2>1. /\ ~Idle(r) /\ ~Adding(r) /\ UNCHANGED <<bill, payment, cleared, past>>
        /\ request' = [request EXCEPT ![r].line = line[b], ![r].step = "findPayable"]
        /\ request[r].step = "readLine"
    BY <1>15 DEF ReadLine, At, Idle, Adding, stored, history
  <2>2. /\ request'[r].step = "findPayable" /\ request'[r].bill = b /\ request'[r].mode = request[r].mode
        /\ request'[r].snap = request[r].snap /\ request'[r].todo = request[r].todo
        /\ \A q \in Requests \ {r} : request'[q] = request[q]
    BY <1>1, <2>1 DEF TypeOK, LocalState
  <2>3. Listed(r)' /\ KnowsPaid(r)'
    BY <1>1, <2>1, <2>2 DEF Listed, KnowsPaid, Of, Adding, Tied, Exists, Idle
  <2> QED BY <1>14, <2>1, <2>2, <2>3
<1>16. CASE ListPayments(r)
  <2>1. /\ ~Idle(r) /\ ~Adding(r) /\ UNCHANGED <<bill, payment, cleared, past>>
        /\ request' = [request EXCEPT ![r].todo = RowsOf(b), ![r].step = "nextPayment"]
        /\ request[r].step = "listPayments"
    BY <1>16 DEF ListPayments, RowsOf, At, Idle, Adding, stored, history
  <2>2. /\ request'[r].step = "nextPayment" /\ request'[r].bill = b /\ request'[r].mode = request[r].mode
        /\ request'[r].snap = request[r].snap /\ request'[r].todo = RowsOf(b)
        /\ \A q \in Requests \ {r} : request'[q] = request[q]
    BY <1>1, <2>1 DEF TypeOK, LocalState
  <2>3. Listed(r)' /\ KnowsPaid(r)'
    BY <1>1, <2>1, <2>2 DEF Listed, KnowsPaid, Of, Adding, Tied, Exists, Idle, RowsOf
  <2> QED BY <1>14, <2>1, <2>2, <2>3
<1>17. ASSUME NEW p \in Payments, NextPayment(r, p) PROVE TieInv'
  <2> DEFINE rest == [request[r] EXCEPT !.todo = @ \ {p}]
             turn == [rest EXCEPT !.payment = p, !.date = payment[p].date,
                                  !.check = {payment[p].date}, !.step = "findCleared"]
  <2>1. /\ ~Idle(r) /\ ~Adding(r) /\ UNCHANGED <<bill, payment, cleared, past>>
        /\ request' = [request EXCEPT ![r] = IF cleared[p] > 0 THEN rest ELSE turn]
        /\ request[r].step = "nextPayment" /\ p \in request[r].todo /\ request[r].mode # "pay"
    BY <1>1, <1>17 DEF NextPayment, At, Idle, Adding, stored, history, Present
  <2>2. /\ rest.step = "nextPayment" /\ rest.bill = b /\ rest.mode = request[r].mode
        /\ rest.todo = request[r].todo \ {p} /\ rest \in LocalState
    BY <1>1, <2>1 DEF LocalState
  <2> HIDE DEF rest
  <2>3. /\ turn.step = "findCleared" /\ turn.bill = b /\ turn.mode = request[r].mode
        /\ turn.todo = request[r].todo \ {p} /\ turn.payment = p
    BY <2>2 DEF LocalState
  <2> HIDE DEF turn
  <2>4. /\ request'[r] = IF cleared[p] > 0 THEN rest ELSE turn
        /\ \A q \in Requests \ {r} : request'[q] = request[q]
    BY <2>1 DEF TypeOK
  <2>5. Of(p, b) /\ (Tied(b) => payment[p].state = "live" /\ cleared[p] > 0)
    <3>1. Of(p, b) /\ (Tied(b) => payment[p].state = "live")
      BY <1>1, <2>1 DEF Listed, KnowsPaid
    <3>2. ASSUME Tied(b), NEW q \in Requests, AddingTo(q, b) PROVE FALSE
      BY <1>2, <2>1, <3>2 DEF AddingTo
    <3> QED BY <1>1, <3>1, <3>2 DEF RowsTie
  <2>6. Listed(r)'
    BY <1>1, <2>1, <2>2, <2>3, <2>4, <2>5 DEF Listed, Of
  <2>7. KnowsPaid(r)'
    BY <1>1, <2>1, <2>2, <2>3, <2>4, <2>5 DEF KnowsPaid, Adding, Tied, Exists
  <2> QED BY <1>14, <2>1, <2>4, <2>6, <2>7
<1>18. ASSUME NEW m \in Periods, PassLock(r, m) PROVE TieInv'
  <2>1. request' = [request EXCEPT ![r].check = @ \ {m}] /\ UNCHANGED <<bill, payment, cleared, past>>
        /\ m \in request[r].check
    BY <1>18 DEF PassLock, stored, history
  <2>2. /\ request'[r].step = request[r].step /\ request'[r].bill = b
        /\ request'[r].mode = request[r].mode /\ request'[r].snap = request[r].snap
        /\ request'[r].amount = request[r].amount /\ request'[r].todo = request[r].todo
        /\ request'[r].payment = request[r].payment
        /\ \A q \in Requests \ {r} : request'[q] = request[q]
    BY <1>1, <2>1 DEF TypeOK, LocalState
  <2>3. ~Idle(r)
    BY <1>1, <2>1 DEF Present
  <2>4. PaidOut(b)' = PaidOut(b)
    BY <2>1 DEF PaidOut, MapThenSumSet, MapThenFoldSet
  <2>5. Listed(r)'
    BY <1>1, <2>1, <2>2 DEF Listed, Of
  <2>6. KnowsPaid(r)'
    BY <1>1, <2>1, <2>2, <2>3, <2>4 DEF KnowsPaid, Adding, Tied, Exists, Idle
  <2>7. (Tied(b)' => Tied(b)) /\ (Adding(r) => AddingTo(r, b)')
    BY <2>1, <2>2 DEF Tied, Exists, Adding, AddingTo
  <2> QED BY <2>1, <2>2, <2>3, <2>5, <2>6, <2>7, QuietTies
\* Looking for the entry of a row, and failing to post it.
<1>19. CASE FindCleared(r) \/ PostFails(r)
  <2>1. PICK step \in {"setPaid", "nextPayment", "postPayment", "undoPayment"} :
           /\ Goto(r, step) /\ UNCHANGED <<bill, payment, cleared>>
           /\ request[r].step \in {"findCleared", "postPayment"}
           /\ step \in {"setPaid", "undoPayment"} => request[r].mode = "pay"
           /\ step = "setPaid" => cleared[request[r].payment] > 0
           /\ step = "nextPayment" => request[r].mode # "pay"
    BY <1>19 DEF FindCleared, PostFails, AfterPosting, At, stored
  <2>2. ~Idle(r)
    BY <2>1 DEF Idle
  <2>3. PaidOut(b)' = PaidOut(b)
    BY <2>1 DEF PaidOut, MapThenSumSet, MapThenFoldSet
  <2>4. (Tied(b)' => Tied(b)) /\ (Tied(b) => Adding(r) /\ step # "setPaid" /\ step # "nextPayment")
    <3>1. Tied(b)' => Tied(b)
      BY <1>3, <2>1 DEF Tied, Exists
    <3>2. ASSUME Tied(b) PROVE Adding(r) /\ step # "setPaid" /\ step # "nextPayment"
      BY <1>1, <2>1, <2>2, <3>2 DEF KnowsPaid, Adding
    <3> QED BY <3>1, <3>2
  <2>5. Listed(r)'
    BY <1>1, <1>3, <2>1 DEF Listed, Of
  <2>6. KnowsPaid(r)'
    BY <1>1, <1>3, <2>1, <2>2, <2>3, <2>4 DEF KnowsPaid, Adding
  <2>7. Tied(b)' => AddingTo(r, b)'
    BY <1>3, <2>1, <2>4 DEF AddingTo, Adding
  <2>8. /\ \A q \in Requests \ {r} : request'[q] = request[q]
        /\ \A c \in Bills \ {b} : bill'[c] = bill[c] /\ past'[c] = past[c]
        /\ past[b] = "crossed" => past'[b] = "crossed"
        /\ request'[r].payment = request[r].payment
    BY <1>3, <2>1
  <2> QED BY <2>1, <2>2, <2>4, <2>5, <2>6, <2>7, <2>8, QuietTies
<1>20. CASE PostPayment(r)
  <2>1. PICK p \in Payments : p = request[r].payment
    BY <1>1 DEF LocalState
  <2>2. PICK step \in {"setPaid", "nextPayment"} :
           /\ Goto(r, step) /\ UNCHANGED <<bill, payment>> /\ request[r].step = "postPayment"
           /\ cleared' = [cleared EXCEPT ![p] = @ + 1]
           /\ step = "setPaid" <=> request[r].mode = "pay"
    BY <1>20, <2>1 DEF PostPayment, AfterPosting, At
  <2>3. cleared'[p] = cleared[p] + 1 /\ \A o \in Payments \ {p} : cleared'[o] = cleared[o]
    BY <2>2 DEF TypeOK
  <2>4. ~Idle(r) /\ Of(p, b) /\ past' = past
    BY <1>1, <1>3, <2>1, <2>2 DEF Idle, Listed
  <2>5. PaidOut(b)' = PaidOut(b)
    BY <2>2 DEF PaidOut, MapThenSumSet, MapThenFoldSet
  <2>6. Within(b)
    <3>1. \A o \in Payments : Of(o, b)' <=> Of(o, b)
      BY <2>2 DEF Of
    <3>2. \A o \in Payments : Of(o, b) \/ (payment'[o] = payment[o] /\ cleared'[o] = cleared[o])
      BY <2>2, <2>3, <2>4
    <3> SUFFICES ASSUME NEW o \in Payments
                 PROVE  /\ Of(o, b) => Of(o, b)'
                        /\ Of(o, b)' => Of(o, b) \/ payment[o].state = "absent"
                        /\ Of(o, b)' \/ (payment'[o] = payment[o] /\ cleared'[o] = cleared[o])
      BY DEF Within
    <3> QED BY <3>1, <3>2
  <2>7. RowsKept'
    <3>1. Inserted' = Inserted
      BY <2>2 DEF Inserted
    <3>2. \A o \in Payments : payment[o].state = "absent" => cleared'[o] = 0
      BY <1>1, <2>3, <2>4 DEF RowsKept, Of
    <3> QED BY <1>1, <2>2, <3>1, <3>2 DEF RowsKept
  <2>8. Tied(b)' <=> Tied(b)
    BY <2>2, <2>4 DEF Tied, Exists
  <2>9. ASSUME Tied(b)
        PROVE  /\ request[r].mode = "pay" /\ Adding(r) /\ AddingTo(r, b)'
               /\ cleared[p] = 0 /\ request'[r].payment = p
    BY <1>1, <1>3, <2>1, <2>2, <2>4, <2>9 DEF KnowsPaid, Adding, AddingTo
  <2>10. Listed(r)'
    BY <1>1, <1>3, <2>2 DEF Listed, Of
  <2>11. KnowsPaid(r)'
    BY <1>1, <1>3, <2>1, <2>2, <2>3, <2>4, <2>5, <2>8, <2>9 DEF KnowsPaid, Adding
  <2>12. RowsTie(b)'
    <3> SUFFICES ASSUME Tied(b)' PROVE RowsTie(b)'
      BY DEF RowsTie
    <3>1. ASSUME NEW o \in Payments \ {p}, Of(o, b)'
          PROVE  cleared'[o] = IF payment'[o].state = "live" THEN 1 ELSE 0
      <4>1. Of(o, b) /\ ~ \E q \in Requests : AddingTo(q, b) /\ request[q].payment = o
        BY <1>2, <2>1, <2>2, <2>4, <2>8, <3>1 DEF Of, AddingTo
      <4> QED BY <1>1, <2>2, <2>3, <2>8, <4>1 DEF RowsTie
    <3> QED BY <2>8, <2>9, <3>1 DEF RowsTie
  <2> QED BY <1>3, <2>2, <2>4, <2>6, <2>7, <2>10, <2>11, <2>12, OthersKeepTies
<1>21. ASSUME NEW p \in Payments, InsertPayment(r, p) PROVE TieInv'
  <2>1. /\ ~Idle(r) /\ Exists(b) /\ payment[p].state = "absent" /\ UNCHANGED <<bill, cleared, past>>
        /\ payment' = [payment EXCEPT ![p] = [state |-> "live", bill |-> b,
                                             amount |-> request[r].amount, date |-> request[r].date]]
        /\ request' = [request EXCEPT ![r].payment = p, ![r].step = "findCleared"]
        /\ request[r].step = "insertPayment" /\ request[r].mode = "pay"
    BY <1>1, <1>21 DEF InsertPayment, At, Idle, history, Present
  <2>2. /\ payment'[p].state = "live" /\ payment'[p].bill = b /\ payment'[p].amount = request[r].amount
        /\ \A o \in Payments \ {p} : payment'[o] = payment[o]
    BY <2>1 DEF TypeOK
  <2>3. /\ request'[r].step = "findCleared" /\ request'[r].bill = b
        /\ request'[r].mode = request[r].mode /\ request'[r].snap = request[r].snap
        /\ request'[r].amount = request[r].amount /\ request'[r].todo = request[r].todo
        /\ request'[r].payment = p
        /\ \A q \in Requests \ {r} : request'[q] = request[q]
    BY <1>1, <2>1 DEF TypeOK, LocalState
  <2>4. Within(b)
    BY <2>1, <2>2 DEF Within, Of
  <2>5. RowsKept'
    <3>1. Inserted' = Inserted \cup {p}
      BY <2>2 DEF Inserted
    <3>2. IsFiniteSet(Inserted')
      BY <1>1, <3>1, FS_AddElement DEF RowsKept
    <3>3. ASSUME NEW o \in Payments
          PROVE  IF payment'[o].state = "absent" THEN cleared'[o] = 0
                                                 ELSE bill'[payment'[o].bill].status # "absent"
      BY <1>1, <2>1, <2>2 DEF RowsKept, Exists
    <3> QED BY <3>2, <3>3 DEF RowsKept
  <2>6. RowsOf(b)' = RowsOf(b) \cup {p} /\ p \notin RowsOf(b)
    BY <2>1, <2>2 DEF RowsOf
  <2>7. PaidOut(b)' = PaidOut(b) + request[r].amount
    <3>1. \A o \in RowsOf(b) : payment'[o].amount = payment[o].amount
      BY <2>2, <2>6 DEF RowsOf
    <3>2. p \in RowsOf(b)' /\ RowsOf(b) = RowsOf(b)' \ {p}
      BY <2>6
    <3> QED BY <1>1, <2>2, <2>5, <3>1, <3>2, RowsAreFinite, PaidOutChanges
  <2>8. Tied(b)' <=> Tied(b)
    BY <2>1 DEF Tied, Exists
  <2>9. Tied(b) => /\ ~ \E q \in Requests : AddingTo(q, b)
                   /\ bill[b].paid = PaidOut(b) /\ cleared[p] = 0
    <3>1. ~Adding(r) /\ cleared[p] = 0
      BY <1>1, <2>1 DEF Adding, RowsKept
    <3>2. ASSUME Tied(b), NEW q \in Requests, AddingTo(q, b) PROVE FALSE
      BY <1>2, <2>1, <3>1, <3>2 DEF AddingTo
    <3> QED BY <1>1, <3>1, <3>2 DEF RowsTie
  <2>10. Listed(r)'
    <3>1. Of(p, b)' /\ \A o \in request[r].todo : Of(o, b)'
      BY <1>1, <2>2, <2>4 DEF Listed, Of, Within, LocalState
    <3> QED BY <2>3, <3>1 DEF Listed
  <2>11. KnowsPaid(r)'
    BY <1>1, <2>1, <2>2, <2>3, <2>7, <2>8, <2>9 DEF KnowsPaid, Adding
  <2>12. RowsTie(b)'
    <3> SUFFICES ASSUME Tied(b)' PROVE RowsTie(b)'
      BY DEF RowsTie
    <3>1. AddingTo(r, b)' /\ request'[r].payment = p
      BY <2>1, <2>3 DEF AddingTo, Adding
    <3>2. \A o \in Payments \ {p} : Of(o, b)' => cleared'[o] = IF payment'[o].state = "live" THEN 1 ELSE 0
      BY <1>1, <2>1, <2>2, <2>8, <2>9 DEF RowsTie, Of
    <3> QED BY <3>1, <3>2 DEF RowsTie
  <2> QED BY <2>1, <2>3, <2>4, <2>5, <2>10, <2>11, <2>12, OthersKeepTies
<1>22. CASE UndoPayment(r)
  <2>1. PICK p \in Payments : p = request[r].payment
    BY <1>1 DEF LocalState
  <2>2. /\ ~Idle(r) /\ request[r].step = "undoPayment" /\ Adding(r) /\ Of(p, b) /\ Finish(r)
        /\ payment' = [payment EXCEPT ![p].state = "removed"]
        /\ UNCHANGED <<bill, cleared, past>>
    BY <1>1, <1>22, <2>1 DEF UndoPayment, At, Idle, Listed, Adding
  <2>3. /\ payment'[p].state = "removed" /\ payment'[p].bill = payment[p].bill
        /\ \A o \in Payments \ {p} : payment'[o] = payment[o]
    BY <2>2 DEF TypeOK, PaymentRow
  <2>4. Within(b)
    BY <2>2, <2>3 DEF Within, Of
  <2>5. RowsKept'
    <3>1. Inserted' = Inserted
      BY <2>2, <2>3 DEF Inserted, Of
    <3>2. ASSUME NEW o \in Payments
          PROVE  IF payment'[o].state = "absent" THEN cleared'[o] = 0
                                                 ELSE bill'[payment'[o].bill].status # "absent"
      BY <1>1, <2>2, <2>3 DEF RowsKept, Of
    <3> QED BY <1>1, <3>1, <3>2 DEF RowsKept
  <2>6. Tied(b)' <=> Tied(b)
    BY <2>2 DEF Tied, Exists
  <2>7. RowsTie(b)'
    <3> SUFFICES ASSUME Tied(b)' PROVE RowsTie(b)'
      BY DEF RowsTie
    <3>1. /\ payment[p].state = "live" /\ payment[p].amount = request[r].amount
          /\ cleared[p] = 0 /\ bill[b].paid + request[r].amount = PaidOut(b)
      BY <1>1, <2>1, <2>2, <2>6 DEF KnowsPaid
    <3>2. p \in RowsOf(b) /\ RowsOf(b)' = RowsOf(b) \ {p}
      BY <2>2, <2>3, <3>1 DEF RowsOf, Of
    <3>3. \A o \in RowsOf(b) : payment'[o].amount = payment[o].amount
      <4>1. payment'[p].amount = payment[p].amount
        BY <2>2 DEF TypeOK, PaymentRow
      <4> QED BY <2>3, <4>1 DEF RowsOf
    <3>4. PaidOut(b)' = PaidOut(b) - payment[p].amount /\ PaidOut(b) \in Int
      BY <1>1, <2>5, <3>2, <3>3, RowsAreFinite, PaidOutChanges
    <3>5. bill'[b].paid = PaidOut(b)'
      BY <1>1, <2>2, <3>1, <3>4 DEF Row, LocalState
    <3>6. ASSUME NEW o \in Payments \ {p}, Of(o, b)'
          PROVE  cleared'[o] = IF payment'[o].state = "live" THEN 1 ELSE 0
      <4>1. Of(o, b) /\ ~ \E q \in Requests : AddingTo(q, b) /\ request[q].payment = o
        BY <1>2, <2>1, <2>2, <2>3, <2>6, <3>6 DEF Of
      <4> QED BY <1>1, <2>2, <2>3, <2>6, <4>1 DEF RowsTie
    <3>7. \A o \in Payments : Of(o, b)' => cleared'[o] = IF payment'[o].state = "live" THEN 1 ELSE 0
      BY <2>2, <2>3, <3>1, <3>6
    <3> QED BY <3>5, <3>7 DEF RowsTie
  <2> QED BY <1>4, <2>2, <2>4, <2>5, <2>7, OthersKeepTies
<1>23. CASE SetPaid(r)
  <2> DEFINE sum == request[r].snap.paid + request[r].amount
             status == IF sum >= request[r].snap.total - Tolerance THEN "paid" ELSE "partial"
  <2>1. PICK p \in Payments : p = request[r].payment
    BY <1>1 DEF LocalState
  <2>2. /\ ~Idle(r) /\ request[r].step = "setPaid" /\ Adding(r) /\ Of(p, b) /\ Finish(r) /\ Exists(b)
        /\ request[r].mode = "pay"
        /\ bill' = [bill EXCEPT ![b].paid = sum, ![b].status = status]
        /\ UNCHANGED <<payment, cleared, past>>
    BY <1>1, <1>23, <2>1 DEF SetPaid, At, Idle, Listed, Adding
  <2>3. status \in {"paid", "partial"}
    OBVIOUS
  <2> HIDE DEF status
  <2>4. /\ bill'[b].paid = sum /\ bill'[b].status = status
        /\ \A c \in Bills \ {b} : bill'[c] = bill[c]
    BY <1>1, <2>2 DEF TypeOK, Row
  <2>5. Within(b)
    BY <2>2 DEF Within, Of
  <2>6. RowsKept'
    <3>1. Inserted' = Inserted
      BY <2>2 DEF Inserted
    <3>2. ASSUME NEW o \in Payments, payment'[o].state # "absent"
          PROVE  bill'[payment'[o].bill].status # "absent"
      <4>1. payment[o].bill \in Bills /\ bill[payment[o].bill].status # "absent"
        BY <1>1, <2>2, <3>2 DEF RowsKept, TypeOK, PaymentRow
      <4> QED BY <2>2, <2>3, <2>4, <4>1
    <3> QED BY <1>1, <2>2, <3>1, <3>2 DEF RowsKept
  <2>7. Tied(b)' => Tied(b)
    BY <2>2 DEF Tied
  <2>8. RowsTie(b)'
    <3> SUFFICES ASSUME Tied(b)' PROVE RowsTie(b)'
      BY DEF RowsTie
    <3>1. /\ payment[p].state = "live" /\ cleared[p] = 1 /\ sum = PaidOut(b)
      BY <1>1, <2>1, <2>2, <2>7 DEF KnowsPaid
    <3>2. PaidOut(b)' = PaidOut(b)
      BY <2>2 DEF PaidOut, MapThenSumSet, MapThenFoldSet
    <3>3. ASSUME NEW o \in Payments, Of(o, b)'
          PROVE  cleared'[o] = IF payment'[o].state = "live" THEN 1 ELSE 0
      <4>1. Of(o, b) /\ (o # p => ~ \E q \in Requests : AddingTo(q, b) /\ request[q].payment = o)
        BY <1>2, <2>1, <2>2, <2>7, <3>3 DEF Of
      <4> QED BY <1>1, <2>2, <2>7, <3>1, <4>1 DEF RowsTie
    <3> QED BY <2>4, <3>1, <3>2, <3>3 DEF RowsTie
  <2> QED BY <1>4, <2>2, <2>3, <2>4, <2>5, <2>6, <2>8, OthersKeepTies
<1> QED BY <1>5, <1>8, <1>9, <1>10, <1>11, <1>12, <1>13, <1>15, <1>16, <1>17, <1>18, <1>19, <1>20,
           <1>21, <1>22, <1>23 DEF Handler

LEMMA RequestTies ==
    ASSUME TypeOK, TypeOK', BookInv, TieInv, NEW r \in Requests, NEW b \in Bills, Request(r, b)
    PROVE  TieInv'
<1>1. ASSUME NEW local \in LocalState, Begin(r, b, local), local.todo = {},
             local.step \in {"writeBill", "insertPayment", "readLine", "insertBill"},
             local.mode = "pay" => local.snap.paid = bill[b].paid
      PROVE  TieInv'
  <2>1. /\ request'[r] = [local EXCEPT !.bill = b] /\ Idle(r)
        /\ \A q \in Requests \ {r} : request'[q] = request[q]
        /\ past' = IF Alone(r, b) THEN past ELSE [past EXCEPT ![b] = "crossed"]
        /\ UNCHANGED <<bill, payment, cleared>>
    BY <1>1 DEF Begin, TypeOK, stored
  <2>2. /\ request'[r].step = local.step /\ request'[r].mode = local.mode /\ request'[r].bill = b
        /\ request'[r].snap = local.snap /\ request'[r].todo = {}
    BY <1>1, <2>1 DEF LocalState
  <2>3. ASSUME NEW c \in Bills
        PROVE  (Tied(c)' => Tied(c)) /\ PaidOut(c)' = PaidOut(c)
    BY <2>1 DEF TypeOK, Tied, Exists, PaidOut, MapThenSumSet, MapThenFoldSet
  <2>4. RowsKept' /\ \A p \in Payments, c \in Bills : Of(p, c)' <=> Of(p, c)
    <3>1. Inserted' = Inserted
      BY <2>1 DEF Inserted
    <3> QED BY <2>1, <3>1 DEF TieInv, RowsKept, Of
  <2>5. Listed(r)' /\ KnowsPaid(r)'
    BY <1>1, <2>1, <2>2 DEF Listed, KnowsPaid, Adding
  <2>6. ASSUME NEW q \in Requests \ {r} PROVE Listed(q)' /\ KnowsPaid(q)'
    <3>1. Listed(q) /\ KnowsPaid(q) /\ request'[q] = request[q] /\ request[q] \in LocalState
      BY <2>1 DEF TieInv, TypeOK
    <3>2. Listed(q)'
      BY <2>1, <3>1 DEF Listed, Of
    <3>3. KnowsPaid(q)'
      <4>1. PICK c \in Bills : c = request[q].bill
        BY <3>1 DEF LocalState
      <4> QED BY <2>1, <2>3, <3>1, <4>1 DEF KnowsPaid, Adding, Idle
    <3> QED BY <3>2, <3>3
  <2>7. ASSUME NEW c \in Bills PROVE RowsTie(c)'
    <3>1. \A q \in Requests : AddingTo(q, c) => AddingTo(q, c)' /\ request'[q].payment = request[q].payment
      BY <2>1 DEF AddingTo, Adding, Idle
    <3> QED BY <2>1, <2>3, <2>4, <3>1 DEF TieInv, RowsTie
  <2> QED BY <2>4, <2>5, <2>6, <2>7 DEF TieInv
<1>2. Resting.mode = "write" /\ Resting \in LocalState /\ Resting.todo = {}
  BY RestingType DEF Resting
<1>3. ASSUME NEW item \in LineItems, NEW charge \in Charges, NEW d \in Periods,
             Create(r, b, item, charge, d)
      PROVE  TieInv'
  <2> DEFINE row == [NoBill EXCEPT !.status = "pending", !.net = item.net, !.vat = item.vat,
                               !.total = IF charge = "reverse" THEN item.net
                                                               ELSE item.net + item.vat,
                               !.charge = charge, !.date = d]
             local == [Resting EXCEPT !.step = "insertBill", !.edit = row, !.check = {d}]
  <2>1. row \in Row
    <3>1. item.net \in Nat /\ item.vat \in Nat /\ item.net + item.vat \in Nat
      OBVIOUS
    <3> QED BY <3>1, AnyPeriodType DEF NoBill, Row, Statuses, Charges
  <2>2. Begin(r, b, local)
    BY <1>3 DEF Create
  <2> HIDE DEF row
  <2>3. local \in LocalState /\ local.mode = "write" /\ local.step = "insertBill" /\ local.todo = {}
    BY <1>2, <2>1 DEF LocalState, Steps
  <2> HIDE DEF local
  <2> QED BY <1>1, <2>2, <2>3
<1>4. ASSUME NEW item \in LineItems, NEW fields \in SUBSET {"date", "line"}, NEW d \in Periods,
             Edit(r, b, fields, item, d)
      PROVE  TieInv'
  <2> DEFINE values == [NoBill EXCEPT !.net = item.net, !.vat = item.vat,
                                  !.total = item.net + item.vat, !.date = d]
             checks == {bill[b].date} \cup (IF "date" \in fields THEN {d} ELSE {})
             local == [Resting EXCEPT !.step = "writeBill", !.edit = values, !.fields = fields,
                                      !.check = checks]
  <2>1. values \in Row
    <3>1. item.net \in Nat /\ item.vat \in Nat /\ item.net + item.vat \in Nat
      OBVIOUS
    <3> QED BY <3>1, AnyPeriodType DEF NoBill, Row, Statuses, Charges
  <2>2. checks \in SUBSET Periods
    BY DEF TypeOK, Row
  <2>3. Begin(r, b, local)
    BY <1>4 DEF Edit
  <2> HIDE DEF values, checks
  <2>4. local \in LocalState /\ local.mode = "write" /\ local.step = "writeBill" /\ local.todo = {}
    BY <1>2, <2>1, <2>2 DEF LocalState, Steps
  <2> HIDE DEF local
  <2> QED BY <1>1, <2>3, <2>4
<1>5. ASSUME NEW amount \in Amounts, NEW d \in Periods, Pay(r, b, amount, d) PROVE TieInv'
  <2> DEFINE local == [Resting EXCEPT !.step = "insertPayment", !.mode = "pay", !.snap = bill[b],
                                      !.amount = amount, !.date = d, !.check = {d}]
  <2>1. bill[b] \in Row
    BY DEF TypeOK
  <2>2. local \in LocalState /\ local.step = "insertPayment" /\ local.snap = bill[b] /\ local.todo = {}
    BY <1>2, <2>1 DEF LocalState, Steps
  <2>3. Begin(r, b, local)
    BY <1>5 DEF Pay
  <2> HIDE DEF local
  <2> QED BY <1>1, <2>2, <2>3
<1>6. CASE Approve(r, b) \/ Backfill(r, b)
  <2>1. PICK mode \in {"approve", "backfill"} :
           Begin(r, b, [Resting EXCEPT !.step = "readLine", !.mode = mode, !.snap = bill[b],
                                       !.check = {bill[b].date}])
    BY <1>6 DEF Approve, Backfill
  <2> DEFINE local == [Resting EXCEPT !.step = "readLine", !.mode = mode, !.snap = bill[b],
                                      !.check = {bill[b].date}]
  <2>2. bill[b] \in Row /\ {bill[b].date} \in SUBSET Periods
    BY DEF TypeOK, Row
  <2>3. local \in LocalState /\ local.mode = mode /\ local.step = "readLine" /\ local.todo = {}
    BY <1>2, <2>2 DEF LocalState, Steps
  <2>4. Begin(r, b, local)
    BY <2>1
  <2> HIDE DEF local
  <2> QED BY <1>1, <2>3, <2>4
<1> QED BY <1>3, <1>4, <1>5, <1>6 DEF Request

LEMMA TieStep == TypeOK /\ TypeOK' /\ PaidInv /\ BookInv /\ TieInv /\ [Next]_vars => TieInv'
<1> SUFFICES ASSUME TypeOK, TypeOK', PaidInv, BookInv, TieInv, [Next]_vars PROVE TieInv'
  OBVIOUS
<1>1. ASSUME UNCHANGED <<bill, payment, cleared, request, past>> PROVE TieInv'
  <2>1. \A b \in Bills : PaidOut(b)' = PaidOut(b)
    BY <1>1 DEF PaidOut, MapThenSumSet, MapThenFoldSet
  <2>2. RowsKept'
    <3>1. Inserted' = Inserted
      BY <1>1 DEF Inserted
    <3> QED BY <1>1, <3>1 DEF TieInv, RowsKept
  <2>3. ASSUME NEW r \in Requests PROVE Listed(r)' /\ KnowsPaid(r)'
    <3>1. Listed(r) /\ KnowsPaid(r) /\ request[r].bill \in Bills
      BY DEF TieInv, TypeOK, LocalState
    <3>2. Listed(r)'
      BY <1>1, <3>1 DEF Listed, Of
    <3>3. KnowsPaid(r)'
      BY <1>1, <2>1, <3>1 DEF KnowsPaid, Adding, Tied, Exists, Idle
    <3> QED BY <3>2, <3>3
  <2>4. ASSUME NEW b \in Bills PROVE RowsTie(b)'
    BY <1>1, <2>1 DEF TieInv, RowsTie, Tied, Exists, Of, AddingTo, Adding
  <2> QED BY <2>2, <2>3, <2>4 DEF TieInv
<1>2. ASSUME NEW b \in Bills, DeleteBill(b) PROVE TieInv'
  <2>1. /\ bill' = [bill EXCEPT ![b].status = "deleted"] /\ UNCHANGED <<cleared, request, past>>
        /\ payment' = [p \in Payments |->
                          IF payment[p].state = "live" /\ payment[p].bill = b
                          THEN [payment[p] EXCEPT !.state = "removed"] ELSE payment[p]]
    BY <1>2 DEF DeleteBill, history
  <2>2. bill'[b].status = "deleted" /\ \A c \in Bills \ {b} : bill'[c] = bill[c]
    BY <2>1 DEF TypeOK, Row
  <2>3. ASSUME NEW p \in Payments
        PROVE  /\ payment'[p].state = "absent" <=> payment[p].state = "absent"
               /\ payment'[p].bill = payment[p].bill /\ payment'[p].amount = payment[p].amount
               /\ payment[p].bill # b => payment'[p] = payment[p]
    BY <2>1 DEF TypeOK, PaymentRow
  <2>4. \A p \in Payments, c \in Bills : Of(p, c)' <=> Of(p, c)
    BY <2>3 DEF Of
  <2>5. RowsKept'
    <3>1. Inserted' = Inserted
      BY <2>3 DEF Inserted
    <3>2. ASSUME NEW p \in Payments
          PROVE  IF payment'[p].state = "absent" THEN cleared'[p] = 0
                                                 ELSE bill'[payment'[p].bill].status # "absent"
      <4>1. payment[p].bill \in Bills
        BY DEF TypeOK, PaymentRow
      <4> QED BY <2>1, <2>2, <2>3, <4>1 DEF TieInv, RowsKept
    <3> QED BY <3>1, <3>2 DEF TieInv, RowsKept
  <2>6. Within(b)
    BY <2>1, <2>3, <2>4 DEF Within, Of
  <2>7. ~Tied(b)' /\ \A c \in Bills \ {b} : PaidOut(c)' = PaidOut(c) /\ (Tied(c)' <=> Tied(c))
    <3>1. \A c \in Bills \ {b} : PaidOut(c)' = PaidOut(c)
      <4>1. ASSUME NEW c \in Bills \ {b} PROVE RowsOf(c)' = RowsOf(c)
        BY <2>3 DEF RowsOf
      <4>2. \A p \in Payments : payment'[p].amount = payment[p].amount
        BY <2>3
      <4> QED BY <2>5, <4>1, <4>2, RowsAreFinite, PaidOutChanges DEF TieInv, RowsOf
    <3> QED BY <2>1, <2>2, <3>1 DEF Tied, Exists
  <2>8. ASSUME NEW r \in Requests PROVE Listed(r)' /\ KnowsPaid(r)'
    <3>1. PICK c \in Bills : c = request[r].bill
      BY DEF TypeOK, LocalState
    <3>2. Listed(r) /\ KnowsPaid(r) /\ request[r].todo \subseteq Payments
          /\ request[r].payment \in Payments
      BY DEF TieInv, TypeOK, LocalState
    <3>3. Listed(r)'
      BY <2>1, <2>4, <3>1, <3>2 DEF Listed
    <3>4. CASE c = b
      BY <2>1, <2>7, <3>1, <3>3, <3>4 DEF KnowsPaid
    <3>5. ASSUME c # b, Tied(c), ~Idle(r) PROVE KnowsPaid(r)'
      <4>1. (Adding(r) => payment'[request[r].payment] = payment[request[r].payment])
            /\ \A p \in request[r].todo : payment'[p] = payment[p]
        BY <2>3, <3>1, <3>2, <3>5 DEF Listed, Of, Adding
      <4>2. request'[r] = request[r] /\ bill'[c] = bill[c] /\ cleared' = cleared /\ PaidOut(c)' = PaidOut(c)
        BY <2>1, <2>2, <2>7, <3>5
      <4> QED BY <3>1, <3>2, <3>5, <4>1, <4>2 DEF KnowsPaid, Adding
    <3>6. CASE c # b /\ ~(Tied(c) /\ ~Idle(r))
      <4>1. request'[r] = request[r] /\ bill'[c] = bill[c] /\ past' = past
        BY <2>1, <2>2, <3>6
      <4>2. ~(Tied(request[r].bill)' /\ ~Idle(r)')
        BY <3>1, <3>6, <4>1 DEF Tied, Exists, Idle
      <4> QED BY <3>3, <4>2 DEF KnowsPaid
    <3> QED BY <3>3, <3>4, <3>5, <3>6
  <2>9. ASSUME NEW c \in Bills PROVE RowsTie(c)'
    <3>1. CASE c = b
      BY <2>7, <3>1 DEF RowsTie
    <3>2. CASE c # b
      <4>1. \A q \in Requests : AddingTo(q, c)' <=> AddingTo(q, c)
        BY <2>1 DEF AddingTo, Adding
      <4>2. \A p \in Payments : Of(p, c)' => Of(p, c) /\ payment'[p] = payment[p]
        BY <2>3, <2>4, <3>2 DEF Of
      <4> QED BY <2>1, <2>2, <2>7, <3>2, <4>1, <4>2 DEF TieInv, RowsTie
    <3> QED BY <3>1, <3>2
  <2> QED BY <2>5, <2>8, <2>9 DEF TieInv
<1>3. ASSUME NEW p \in Lockable, LockPeriod(p) \/ UnlockPeriod(p) PROVE TieInv'
  BY <1>1, <1>3 DEF LockPeriod, UnlockPeriod, stored
<1>4. CASE UNCHANGED vars
  BY <1>1, <1>4 DEF vars
<1> QED BY <1>2, <1>3, <1>4, HandlerTies, RequestTies DEF Next

\* On a bill whose handlers never overlapped and never died half way, amount_paid,
\* the payment rows and the ledger tell the same whenever no handler is on it:
\* amount_paid is what the live rows add up to, each of them is posted once, and no
\* payment that was taken back is.
THEOREM PaymentsTieUp == Spec => []PaymentsTie
<1>1. Init => TieInv
  <2> SUFFICES ASSUME Init PROVE TieInv
    OBVIOUS
  <2>1. /\ \A p \in Payments : payment[p].state = "absent" /\ cleared[p] = 0
        /\ \A r \in Requests : request[r] = Resting
        /\ \A b \in Bills : ~Exists(b)
    BY DEF Init, NoPayment, NoBill, Exists
  <2>2. RowsKept
    <3>1. Inserted = {}
      BY <2>1 DEF Inserted
    <3> QED BY <2>1, <3>1, FS_EmptySet DEF RowsKept
  <2>3. Resting.todo = {}
    BY DEF Resting
  <2> QED BY <2>1, <2>2, <2>3, RestingType DEF TieInv, Listed, KnowsPaid, RowsTie, Tied, Idle
<1>2. TieInv => PaymentsTie
  <2> SUFFICES ASSUME TieInv, NEW b \in Bills, Tied(b), AtRest(b)
               PROVE  /\ bill[b].paid = PaidOut(b)
                      /\ \A p \in Payments : Of(p, b) =>
                            cleared[p] = IF payment[p].state = "live" THEN 1 ELSE 0
    BY DEF PaymentsTie, Tied, Of
  <2>1. ~ \E r \in Requests : AddingTo(r, b)
    BY DEF AtRest, AddingTo, Adding, Idle
  <2> QED BY <2>1 DEF TieInv, RowsTie
<1>3. Spec => [](TypeOK /\ PaidInv /\ BookInv /\ TieInv)
  <2>1. TypeOK /\ PaidInv /\ BookInv /\ TypeOK' /\ TieInv /\ [Next]_vars => TieInv'
    BY TieStep
  <2> QED BY <1>1, <2>1, BookInvariant, PTL DEF Spec
<1> QED BY <1>2, <1>3, PTL

=============================================================================
