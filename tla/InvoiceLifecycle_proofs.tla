----------------------- MODULE InvoiceLifecycle_proofs -----------------------
(***************************************************************************)
(* Theorems about InvoiceLifecycle, for any number of invoices, handlers,  *)
(* totals, rates and periods: its types; the payments against the ledger   *)
(* and the totals; the locked months; and the revenue of an invoice, up to *)
(* the refinement of RevenueRecognition.                                   *)
(***************************************************************************)
EXTENDS InvoiceLifecycle, TLAPS

(* A deletion that is about to remove the entries it read still finds them,  *)
(* in draft or posted meanwhile, as long as the invoice is there: this is    *)
(* what keeps the number of posted entries a natural number.                *)
DeletionFindsItsEntries ==
    \A r \in Requests :
        LET i == request[r].inv IN
        request[r].step = "deleteRows" =>
            /\ invoice[i].status # "absent"
            /\ request[r].amount # 0 /\ Exists(i) => ledger[i].draft # 0 \/ ledger[i].posted > 0

(* A handler that is about to set a status has one to set.                  *)
TargetsAreStatuses ==
    \A r \in Requests :
        request[r].step \in {"sumPayments", "findOriginal", "postReversal", "setStatus"} =>
            request[r].target \in Statuses

TypeInv == TypeOK /\ DeletionFindsItsEntries /\ TargetsAreStatuses

USE LifecycleAssumption

(* The constant records of the module are of their types.                   *)
LEMMA ARowType == ARow \in Row
  BY DEF ARow, Row, RowStates

LEMMA RestingType == Resting \in LocalState
  BY ARowType DEF Resting, LocalState, Steps, Targets

LEMMA RowNumbers ==
    ASSUME NEW row \in Row
    PROVE  row.total \in Nat /\ row.rate \in Nat /\ row.total > 0 /\ row.rate > 0
  <1>1. row.total \in Totals /\ row.rate \in Rates
    BY DEF Row
  <1>2. Totals \subseteq Nat \ {0} /\ Rates \subseteq Nat \ {0}
    OBVIOUS
  <1>3. row.total \in Nat \ {0} /\ row.rate \in Nat \ {0}
    BY <1>1, <1>2, Zenon
  <1>4. \A n \in Nat \ {0} : n \in Nat /\ n > 0
    OBVIOUS
  <1> QED BY ONLY <1>3, <1>4

LEMMA LedgerUpdate ==
    ASSUME NEW e \in LedgerRow, NEW n \in Nat, NEW s \in Int
    PROVE  [e EXCEPT !.posted = n, !.sales = s] \in LedgerRow
  BY DEF LedgerRow

LEMMA EntriesType ==
    /\ NoEntries \in LedgerRow
    /\ \A row \in Row : OldLedger(row) \subseteq LedgerRow
  <1>1. NoEntries \in LedgerRow
    BY DEF NoEntries, LedgerRow
  <1>2. ASSUME NEW row \in Row PROVE OldLedger(row) \subseteq LedgerRow
    <2>1. row.total \in Nat /\ row.rate \in Nat
      BY RowNumbers
    <2> DEFINE amount == row.total * row.rate
    <2>2. amount \in Nat /\ amount \in Int
      BY <2>1
    <2> HIDE DEF amount
    <2>3. OldLedger(row) = {NoEntries, [NoEntries EXCEPT !.draft = amount],
                            [NoEntries EXCEPT !.posted = 1, !.sales = amount]}
      BY DEF OldLedger, amount
    <2>4. [NoEntries EXCEPT !.draft = amount] \in LedgerRow
      BY <2>2 DEF NoEntries, LedgerRow
    <2>5. [NoEntries EXCEPT !.posted = 1, !.sales = amount] \in LedgerRow
      BY <2>2, <1>1, LedgerUpdate
    <2> QED BY <2>3, <2>4, <2>5, <1>1
  <1> QED BY <1>1, <1>2

LEMMA InitTypeInv == Init => TypeInv
  <1> SUFFICES ASSUME Init PROVE TypeInv
    OBVIOUS
  <1>1. ledger \in [Invoices -> LedgerRow]
    <2>1. ASSUME NEW i \in Invoices PROVE ledger[i] \in LedgerRow
      <3>1. invoice[i] \in Row
        BY DEF Init
      <3> QED BY <3>1, EntriesType DEF Init
    <2> QED BY <2>1 DEF Init
  <1>2. request \in [Requests -> LocalState]
    BY RestingType DEF Init
  <1>3. TypeOK
    BY <1>1, <1>2 DEF Init, TypeOK
  <1>4. DeletionFindsItsEntries
    BY DEF Init, DeletionFindsItsEntries, Resting
  <1>5. TargetsAreStatuses
    BY DEF Init, TargetsAreStatuses, Resting
  <1> QED BY <1>3, <1>4, <1>5 DEF TypeInv

(* How the shared parts of the actions keep the types.                      *)
LEMMA StepType ==
    ASSUME TypeOK, NEW r \in Requests, NEW step \in Steps, Goto(r, step)
    PROVE  request' \in [Requests -> LocalState]
  BY DEF TypeOK, Goto, LocalState

LEMMA FinishType ==
    ASSUME TypeOK, NEW r \in Requests, Finish(r)
    PROVE  request' \in [Requests -> LocalState]
  BY RestingType DEF TypeOK, Finish

LEMMA BeginType ==
    ASSUME TypeOK, NEW r \in Requests, NEW i \in Invoices, NEW local \in LocalState,
           Begin(r, i, local)
    PROVE  request' \in [Requests -> LocalState]
  BY DEF TypeOK, Begin, LocalState

LEMMA CheckType ==
    ASSUME TypeOK, NEW r \in Requests, NEW step \in Steps, NEW check \in SUBSET Periods,
           request' = [request EXCEPT ![r].step = step, ![r].check = check]
    PROVE  request' \in [Requests -> LocalState]
  <1> DEFINE local == [request[r] EXCEPT !.step = step, !.check = check]
  <1>1. request \in [Requests -> LocalState]
    BY DEF TypeOK
  <1>2. local \in LocalState
    BY <1>1 DEF LocalState
  <1>3. request' = [request EXCEPT ![r] = local]
    BY <1>1
  <1> HIDE DEF local
  <1> QED BY <1>1, <1>2, <1>3

LEMMA AmountType ==
    ASSUME TypeOK, NEW r \in Requests, NEW step \in Steps, NEW amount \in Nat,
           request' = [request EXCEPT ![r].step = step, ![r].amount = amount]
    PROVE  request' \in [Requests -> LocalState]
  <1> DEFINE local == [request[r] EXCEPT !.step = step, !.amount = amount]
  <1>1. request \in [Requests -> LocalState]
    BY DEF TypeOK
  <1>2. local \in LocalState
    BY <1>1 DEF LocalState
  <1>3. request' = [request EXCEPT ![r] = local]
    BY <1>1
  <1> HIDE DEF local
  <1> QED BY <1>1, <1>2, <1>3

LEMMA PostSaleType ==
    ASSUME TypeOK, NEW i \in Invoices, NEW delta \in Int, NEW p \in Periods,
           PostSale(i, delta, p)
    PROVE  /\ ledger' \in [Invoices -> LedgerRow]
           /\ volume' \in [Periods -> Int]
  <1>1. ledger' \in [Invoices -> LedgerRow]
    <2> DEFINE n == ledger[i].posted + 1
               s == ledger[i].sales + delta
    <2>1. ledger[i] \in LedgerRow
      BY DEF TypeOK
    <2>2. n \in Nat /\ s \in Int
      BY <2>1 DEF LedgerRow
    <2>3. ledger' = [ledger EXCEPT ![i] = [ledger[i] EXCEPT !.posted = n, !.sales = s]]
      BY <2>1 DEF PostSale, TypeOK, LedgerRow
    <2> HIDE DEF n, s
    <2>4. [ledger[i] EXCEPT !.posted = n, !.sales = s] \in LedgerRow
      BY <2>1, <2>2, LedgerUpdate
    <2> QED BY <2>3, <2>4 DEF TypeOK
  <1>2. volume' \in [Periods -> Int]
    BY DEF TypeOK, PostSale
  <1> QED BY <1>1, <1>2

(* What the other parts of DeletionFindsItsEntries rest on: a step that      *)
(* starts no deletion and takes no entry away keeps it.                     *)
LEMMA DeletionUndisturbed ==
    ASSUME TypeInv,
           \A q \in Requests : request'[q].step = "deleteRows" =>
               request'[q] = request[q],
           \A i \in Invoices : invoice[i].status # "absent" =>
               invoice'[i].status # "absent" /\ (Exists(i)' => Exists(i)),
           \A i \in Invoices : ledger[i].draft # 0 \/ ledger[i].posted > 0 =>
               (ledger[i].draft # 0 \/ ledger[i].posted > 0)'
    PROVE  DeletionFindsItsEntries'
  BY DEF TypeInv, TypeOK, DeletionFindsItsEntries, LocalState, Exists

LEMMA StepTypeInv == TypeInv /\ [Next]_vars => TypeInv'
  <1> SUFFICES ASSUME TypeInv, [Next]_vars PROVE TypeInv'
    OBVIOUS
  <1> USE DEF TypeInv
  <1>1. ASSUME NEW r \in Requests, NEW p \in Periods, PassLock(r, p) PROVE TypeInv'
    <2>1. TypeOK'
      BY <1>1 DEF PassLock, TypeOK, LocalState
    <2>2. DeletionFindsItsEntries'
      BY <1>1 DEF PassLock, TypeOK, DeletionFindsItsEntries, Exists, LocalState
    <2>9. TargetsAreStatuses'
      BY <1>1  DEF PassLock, TargetsAreStatuses, Finish, Resting, Goto, At, Begin, TypeOK, LocalState, Targets
    <2> QED BY <2>1, <2>2, <2>9
  <1>2. ASSUME NEW p \in Periods, LockPeriod(p) \/ UnlockPeriod(p) PROVE TypeInv'
    <2>1. TypeOK'
      BY <1>2 DEF LockPeriod, UnlockPeriod, TypeOK
    <2>2. DeletionFindsItsEntries'
      BY <1>2 DEF LockPeriod, UnlockPeriod, DeletionFindsItsEntries, Exists
    <2>9. TargetsAreStatuses'
      BY <1>2  DEF LockPeriod, UnlockPeriod, TargetsAreStatuses, Finish, Resting, Goto, At, Begin, TypeOK, LocalState, Targets
    <2> QED BY <2>1, <2>2, <2>9
  <1>3. ASSUME NEW r \in Requests, GiveUp(r) PROVE TypeInv'
    <2>1. TypeOK'
      BY <1>3, FinishType DEF GiveUp, TypeOK
    <2>2. DeletionFindsItsEntries'
      BY <1>3, DeletionUndisturbed DEF GiveUp, Finish, Resting, TypeOK, Exists
    <2>9. TargetsAreStatuses'
      BY <1>3  DEF GiveUp, TargetsAreStatuses, Finish, Resting, Goto, At, Begin, TypeOK, LocalState, Targets
    <2> QED BY <2>1, <2>2, <2>9
  <1>4. ASSUME NEW r \in Requests, NEW row \in Row, CreateBegin(r, row) PROVE TypeInv'
    <2>1. TypeOK'
      BY <1>4, RestingType DEF CreateBegin, TypeOK, LocalState, Steps, Row
    <2>2. DeletionFindsItsEntries'
      BY <1>4, DeletionUndisturbed DEF CreateBegin, Finish, Resting, Goto, At, Begin, Exists, TypeOK, LocalState
    <2>9. TargetsAreStatuses'
      BY <1>4  DEF CreateBegin, TargetsAreStatuses, Finish, Resting, Goto, At, Begin, TypeOK, LocalState, Targets
    <2> QED BY <2>1, <2>2, <2>9
  <1>5. ASSUME NEW r \in Requests, NEW i \in Invoices, Insert(r, i) PROVE TypeInv'
    <2>3. \A q \in Requests : request'[q] = request[q]
                             \/ request'[q].step = "idle"
      BY <1>5 DEF Insert, Finish, Resting, TypeOK, LocalState
    <2>1. TypeOK'
      BY <1>5, FinishType DEF Insert, TypeOK, LocalState, Steps
    <2>2. DeletionFindsItsEntries'
      BY <1>5, DeletionUndisturbed DEF Insert, Finish, Resting, Goto, At, Begin, Exists, TypeOK, LocalState
    <2>9. TargetsAreStatuses'
      BY <1>5, <2>3 DEF TargetsAreStatuses, TypeOK
    <2> QED BY <2>1, <2>2, <2>9
  <1>7. ASSUME NEW r \in Requests, NEW i \in Invoices, NEW to \in Statuses, StatusBegin(r, i, to) PROVE TypeInv'
    <2> DEFINE local ==
          [Resting EXCEPT
              !.step = FirstStep(invoice[i].status, to), !.target = to,
              !.check = IF to = "paid" \/ Issues(invoice[i].status, to)
                        THEN {invoice[i].date} ELSE {}]
    <2>3. local \in LocalState
      BY RestingType DEF TypeOK, LocalState, Steps, Row, Targets, FirstStep
    <2>4. Begin(r, i, local)
      BY <1>7 DEF StatusBegin
    <2>1. TypeOK'
      BY <1>7, <2>3, <2>4, BeginType DEF StatusBegin, TypeOK
    <2>2. DeletionFindsItsEntries'
      BY <1>7, DeletionUndisturbed DEF StatusBegin, Finish, Resting, Goto, At, Begin, Exists, TypeOK, LocalState, FirstStep
    <2>9. TargetsAreStatuses'
      BY <1>7  DEF StatusBegin, TargetsAreStatuses, Finish, Resting, Goto, At, Begin, TypeOK, LocalState, Targets, FirstStep
    <2> QED BY <2>1, <2>2, <2>9
  <1>8. ASSUME NEW r \in Requests, SumPayments(r) PROVE TypeInv'
    <2> DEFINE remaining == request[r].snap.total - paid[request[r].inv]
    <2>3. remaining > 0 => remaining \in Nat
      BY RowNumbers DEF TypeOK, LocalState
    <2>4. ASSUME remaining > 0, request' = [request EXCEPT ![r].step = "recordPayment", ![r].amount = remaining]
          PROVE  request' \in [Requests -> LocalState]
      <3> HIDE DEF remaining
      <3> QED BY <2>3, <2>4, AmountType DEF Steps
    <2>1. TypeOK'
      BY <1>8, <2>3, <2>4, StepType DEF SumPayments, TypeOK, Steps
    <2>2. DeletionFindsItsEntries'
      BY <1>8, DeletionUndisturbed DEF SumPayments, Finish, Resting, Goto, At, Begin, Exists, TypeOK, LocalState
    <2>9. TargetsAreStatuses'
      BY <1>8  DEF SumPayments, TargetsAreStatuses, Finish, Resting, Goto, At, Begin, TypeOK, LocalState, Targets
    <2> QED BY <2>1, <2>2, <2>9
  <1>9. ASSUME NEW r \in Requests, FindRevenue(r) PROVE TypeInv'
    <2>1. TypeOK'
      BY <1>9, StepType, FinishType DEF FindRevenue, AfterRevenue, TypeOK, Steps
    <2>2. DeletionFindsItsEntries'
      BY <1>9, DeletionUndisturbed DEF FindRevenue, Finish, Resting, Goto, At, Begin, Exists, TypeOK, LocalState, AfterRevenue
    <2>9. TargetsAreStatuses'
      BY <1>9  DEF FindRevenue, TargetsAreStatuses, Finish, Resting, Goto, At, Begin, TypeOK, LocalState, Targets, AfterRevenue
    <2> QED BY <2>1, <2>2, <2>9
  <1>10. ASSUME NEW r \in Requests, PostRevenue(r) PROVE TypeInv'
    <2> DEFINE delta == request[r].snap.total * request[r].snap.rate
    <2>1. request[r] \in LocalState /\ request[r].inv \in Invoices /\ request[r].snap \in Row
      BY DEF TypeOK, LocalState
    <2>2. delta \in Int
      BY <2>1, RowNumbers
    <2>3. PICK p \in Periods : PostSale(request[r].inv, delta, p)
      BY <1>10, <2>1 DEF PostRevenue, Row
    <2>4. request' \in [Requests -> LocalState]
      BY <1>10, StepType, FinishType DEF PostRevenue, AfterRevenue, Steps
    <2>5. TypeOK'
      <3> HIDE DEF delta
      <3> QED BY <1>10, <2>1, <2>2, <2>3, <2>4, PostSaleType DEF PostRevenue, TypeOK
    <2>6. DeletionFindsItsEntries'
      <3> HIDE DEF delta
      <3>1. \A i \in Invoices : ledger[i].draft # 0 \/ ledger[i].posted > 0 =>
                 (ledger[i].draft # 0 \/ ledger[i].posted > 0)'
        BY <2>1, <2>3 DEF PostSale, TypeOK, LedgerRow
      <3>2. \A q \in Requests : request'[q].step = "deleteRows" => request'[q] = request[q]
        BY <1>10, <2>1 DEF PostRevenue, AfterRevenue, Finish, Goto, Resting, TypeOK, LocalState
      <3>3. invoice' = invoice
        BY <1>10 DEF PostRevenue
      <3> QED BY <3>1, <3>2, <3>3, DeletionUndisturbed DEF Exists
    <2>7. TargetsAreStatuses'
      BY <1>10 DEF PostRevenue, AfterRevenue, TargetsAreStatuses, Finish, Resting, Goto, At, TypeOK, LocalState, Targets
    <2> QED BY <2>5, <2>6, <2>7
  <1>11. ASSUME NEW r \in Requests, FindOriginal(r) PROVE TypeInv'
    <2>1. TypeOK'
      <3>1. CASE Goto(r, "setStatus")
        BY <1>11, <3>1, StepType DEF FindOriginal, TypeOK, Steps
      <3>2. CASE request' = [request EXCEPT ![r].step = "postReversal", ![r].check = {Today}]
        <4>1. {Today} \in SUBSET Periods /\ "postReversal" \in Steps
          BY LifecycleAssumption DEF Steps
        <4>2. request' \in [Requests -> LocalState]
          BY <3>2, <4>1, CheckType
        <4> QED BY <1>11, <4>2 DEF FindOriginal, TypeOK
      <3> QED BY <1>11, <3>1, <3>2 DEF FindOriginal
    <2>2. DeletionFindsItsEntries'
      BY <1>11, DeletionUndisturbed DEF FindOriginal, Finish, Resting, Goto, At, Begin, Exists, TypeOK, LocalState
    <2>9. TargetsAreStatuses'
      BY <1>11  DEF FindOriginal, TargetsAreStatuses, Finish, Resting, Goto, At, Begin, TypeOK, LocalState, Targets
    <2> QED BY <2>1, <2>2, <2>9
  <1>12. ASSUME NEW r \in Requests, PostReversal(r) PROVE TypeInv'
    <2> DEFINE delta == -request[r].snap.total
    <2>1. request[r] \in LocalState /\ request[r].inv \in Invoices /\ request[r].snap \in Row
      BY DEF TypeOK, LocalState
    <2>2. delta \in Int
      BY <2>1, RowNumbers
    <2>3. PICK p \in Periods : PostSale(request[r].inv, delta, p)
      BY <1>12, <2>1 DEF PostReversal, Row
    <2>4. request' \in [Requests -> LocalState]
      BY <1>12, StepType DEF PostReversal, Steps
    <2>5. TypeOK'
      <3> HIDE DEF delta
      <3> QED BY <1>12, <2>1, <2>2, <2>3, <2>4, PostSaleType DEF PostReversal, TypeOK
    <2>6. DeletionFindsItsEntries'
      <3> HIDE DEF delta
      <3>1. \A i \in Invoices : ledger[i].draft # 0 \/ ledger[i].posted > 0 =>
                 (ledger[i].draft # 0 \/ ledger[i].posted > 0)'
        BY <2>1, <2>3 DEF PostSale, TypeOK, LedgerRow
      <3>2. \A q \in Requests : request'[q].step = "deleteRows" => request'[q] = request[q]
        BY <1>12, <2>1 DEF PostReversal, AfterRevenue, Finish, Goto, Resting, TypeOK, LocalState
      <3>3. invoice' = invoice
        BY <1>12 DEF PostReversal
      <3> QED BY <3>1, <3>2, <3>3, DeletionUndisturbed DEF Exists
    <2>7. TargetsAreStatuses'
      BY <1>12 DEF PostReversal, AfterRevenue, TargetsAreStatuses, Finish, Resting, Goto, At, TypeOK, LocalState, Targets
    <2> QED BY <2>5, <2>6, <2>7
  <1>13. ASSUME NEW r \in Requests, SetStatus(r) PROVE TypeInv'
    <2>3. request[r].inv \in Invoices /\ request[r].target \in RowStates /\ request[r].target # "absent"
      BY <1>13 DEF SetStatus, At, TargetsAreStatuses, TypeOK, LocalState, Statuses, RowStates
    <2>1. TypeOK'
      BY <1>13, <2>3, FinishType DEF SetStatus, TypeOK, Row
    <2>2. DeletionFindsItsEntries'
      BY <1>13, DeletionUndisturbed, <2>3 DEF SetStatus, Finish, Resting, Goto, At, Begin, Exists, TypeOK, LocalState
    <2>9. TargetsAreStatuses'
      BY <1>13  DEF SetStatus, TargetsAreStatuses, Finish, Resting, Goto, At, Begin, TypeOK, LocalState, Targets
    <2> QED BY <2>1, <2>2, <2>9
  <1>14. ASSUME NEW r \in Requests, NEW i \in Invoices, NEW amount \in Amounts, NEW date \in Periods, PayBegin(r, i, amount, date) PROVE TypeInv'
    <2>3. [Resting EXCEPT !.step = "recordPayment", !.amount = amount, !.date = date,
                          !.check = {date}] \in LocalState
      <3>1. amount \in Nat
        BY DEF Amounts
      <3> QED BY <3>1, RestingType DEF LocalState, Steps
    <2>1. TypeOK'
      BY <1>14, <2>3, BeginType DEF PayBegin, TypeOK
    <2>2. DeletionFindsItsEntries'
      BY <1>14, DeletionUndisturbed DEF PayBegin, Finish, Resting, Goto, At, Begin, Exists, TypeOK, LocalState
    <2>9. TargetsAreStatuses'
      BY <1>14  DEF PayBegin, TargetsAreStatuses, Finish, Resting, Goto, At, Begin, TypeOK, LocalState, Targets
    <2> QED BY <2>1, <2>2, <2>9
  <1>15. ASSUME NEW r \in Requests, NEW i \in Invoices, PostBegin(r, i) PROVE TypeInv'
    <2>3. [Resting EXCEPT !.step = "findDrafts"] \in LocalState
      BY RestingType DEF LocalState, Steps
    <2>1. TypeOK'
      BY <1>15, <2>3, BeginType DEF PostBegin, TypeOK
    <2>2. DeletionFindsItsEntries'
      BY <1>15, DeletionUndisturbed DEF PostBegin, Finish, Resting, Goto, At, Begin, Exists, TypeOK, LocalState
    <2>9. TargetsAreStatuses'
      BY <1>15  DEF PostBegin, TargetsAreStatuses, Finish, Resting, Goto, At, Begin, TypeOK, LocalState, Targets
    <2> QED BY <2>1, <2>2, <2>9
  <1>16. ASSUME NEW r \in Requests, FindDrafts(r) PROVE TypeInv'
    <2>3. request[r].snap.date \in Periods
      BY DEF TypeOK, LocalState, Row
    <2>4. {"postDrafts", "findRevenue"} \subseteq Steps
      BY DEF Steps
    <2>5. \E step \in Steps, check \in SUBSET Periods :
             request' = [request EXCEPT ![r].step = step, ![r].check = check]
      BY <1>16, <2>3, <2>4 DEF FindDrafts
    <2>1. TypeOK'
      BY <1>16, <2>5, CheckType DEF FindDrafts, TypeOK
    <2>2. DeletionFindsItsEntries'
      BY <1>16, DeletionUndisturbed DEF FindDrafts, Finish, Resting, Goto, At, Begin, Exists, TypeOK, LocalState
    <2>9. TargetsAreStatuses'
      BY <1>16  DEF FindDrafts, TargetsAreStatuses, Finish, Resting, Goto, At, Begin, TypeOK, LocalState, Targets
    <2> QED BY <2>1, <2>2, <2>9
  <1>17. ASSUME NEW r \in Requests, NEW i \in Invoices, NEW row \in Row, EditBegin(r, i, row) PROVE TypeInv'
    <2>3. [Resting EXCEPT !.step = "checkPosted", !.edit = row] \in LocalState
      BY RestingType DEF LocalState, Steps
    <2>1. TypeOK'
      BY <1>17, <2>3, BeginType DEF EditBegin, TypeOK
    <2>2. DeletionFindsItsEntries'
      BY <1>17, DeletionUndisturbed DEF EditBegin, Finish, Resting, Goto, At, Begin, Exists, TypeOK, LocalState
    <2>9. TargetsAreStatuses'
      BY <1>17  DEF EditBegin, TargetsAreStatuses, Finish, Resting, Goto, At, Begin, TypeOK, LocalState, Targets
    <2> QED BY <2>1, <2>2, <2>9
  <1>18. ASSUME NEW r \in Requests, CheckPosted(r) PROVE TypeInv'
    <2>3. request[r].snap.date \in Periods /\ request[r].edit.date \in Periods
      BY DEF TypeOK, LocalState, Row
    <2>4. "writeEdit" \in Steps
      BY DEF Steps
    <2>5. \E step \in Steps, check \in SUBSET Periods :
             request' = [request EXCEPT ![r].step = step, ![r].check = check]
      BY <1>18, <2>3, <2>4 DEF CheckPosted
    <2>1. TypeOK'
      BY <1>18, <2>5, CheckType DEF CheckPosted, TypeOK
    <2>2. DeletionFindsItsEntries'
      BY <1>18, DeletionUndisturbed DEF CheckPosted, Finish, Resting, Goto, At, Begin, Exists, TypeOK, LocalState
    <2>9. TargetsAreStatuses'
      BY <1>18  DEF CheckPosted, TargetsAreStatuses, Finish, Resting, Goto, At, Begin, TypeOK, LocalState, Targets
    <2> QED BY <2>1, <2>2, <2>9
  <1>19. ASSUME NEW r \in Requests, WriteEdit(r) PROVE TypeInv'
    <2>3. request[r].inv \in Invoices /\ request[r].edit \in Row
      BY DEF TypeOK, LocalState
    <2>1. TypeOK'
      BY <1>19, <2>3, FinishType DEF WriteEdit, TypeOK, Row
    <2>2. DeletionFindsItsEntries'
      BY <1>19, DeletionUndisturbed DEF WriteEdit, Finish, Resting, Goto, At, Begin, Exists, TypeOK, LocalState, Row
    <2>9. TargetsAreStatuses'
      BY <1>19  DEF WriteEdit, TargetsAreStatuses, Finish, Resting, Goto, At, Begin, TypeOK, LocalState, Targets, Row
    <2> QED BY <2>1, <2>2, <2>9
  <1>20. ASSUME NEW r \in Requests, NEW i \in Invoices, DeleteBegin(r, i) PROVE TypeInv'
    <2>3. [Resting EXCEPT !.step = "checkEntries"] \in LocalState
      BY RestingType DEF LocalState, Steps
    <2>1. TypeOK'
      BY <1>20, <2>3, BeginType DEF DeleteBegin, TypeOK
    <2>2. DeletionFindsItsEntries'
      BY <1>20, DeletionUndisturbed DEF DeleteBegin, Finish, Resting, Goto, At, Begin, Exists, TypeOK, LocalState
    <2>9. TargetsAreStatuses'
      BY <1>20  DEF DeleteBegin, TargetsAreStatuses, Finish, Resting, Goto, At, Begin, TypeOK, LocalState, Targets
    <2> QED BY <2>1, <2>2, <2>9
  <1>21. ASSUME NEW r \in Requests, CheckEntries(r) PROVE TypeInv'
    <2>1. TypeOK'
      <3>1. "deleteRows" \in Steps /\ ledger[request[r].inv].draft \in Nat
        BY DEF TypeOK, LocalState, LedgerRow, Steps
      <3> QED BY <1>21, <3>1, AmountType DEF CheckEntries, TypeOK
    <2>2. DeletionFindsItsEntries'
      BY <1>21 DEF CheckEntries, At, DeletionFindsItsEntries, Exists, TypeOK, LocalState
    <2>3. TargetsAreStatuses'
      BY <1>21 DEF CheckEntries, TargetsAreStatuses, TypeOK, LocalState
    <2> QED BY <2>1, <2>2, <2>3
  <1>22. ASSUME NEW r \in Requests, RecordPayment(r) PROVE TypeInv'
    <2> DEFINE i == request[r].inv
               amount == request[r].amount
               row == invoice[i]
               clears == amount * row.rate
    <2>1. /\ i \in Invoices /\ amount \in Nat /\ request[r].date \in Periods
          /\ row \in Row /\ paid[i] \in Nat /\ ledger[i] \in LedgerRow
      BY DEF TypeOK, LocalState
    <2>2. clears \in Int /\ row.total \in Nat
      BY <2>1, RowNumbers
    <2>3. paid' \in [Invoices -> Nat] /\ volume' \in [Periods -> Int] /\ locked' \subseteq Periods
      BY <1>22, <2>1 DEF RecordPayment, PaymentEffects, TypeOK
    <2>4. ledger' \in [Invoices -> LedgerRow]
      <3> DEFINE cash == ledger[i].cash + clears
      <3>1. ledger' = [ledger EXCEPT ![i].cash = ledger[i].cash + clears]
        BY <1>22 DEF RecordPayment, PaymentEffects
      <3> HIDE DEF clears
      <3>2. cash \in Int
        BY <2>1, <2>2 DEF LedgerRow
      <3>3. ledger' = [ledger EXCEPT ![i] = [ledger[i] EXCEPT !.cash = cash]]
        BY <2>1, <3>1 DEF TypeOK, LedgerRow
      <3> HIDE DEF cash
      <3>4. [ledger[i] EXCEPT !.cash = cash] \in LedgerRow
        BY <2>1, <3>2 DEF LedgerRow
      <3> QED BY <3>3, <3>4 DEF TypeOK
    <2>5. invoice' \in [Invoices -> Row]
      <3>1. StatusFromPayments(row.status, row.total, paid[i] + amount) \in RowStates
        BY <2>1 DEF StatusFromPayments, RowStates, Statuses, Row
      <3> QED BY <1>22, <2>1, <3>1 DEF RecordPayment, PaymentEffects, TypeOK, Row
    <2>6. request' \in [Requests -> LocalState]
      BY <1>22, FinishType DEF RecordPayment, PaymentEffects
    <2>7. DeletionFindsItsEntries'
      <3>1. \A q \in Requests : request'[q].step = "deleteRows" => request'[q] = request[q]
        BY <1>22 DEF RecordPayment, PaymentEffects, Finish, Resting, TypeOK
      <3>2. \A j \in Invoices : ledger'[j].draft = ledger[j].draft /\ ledger'[j].posted = ledger[j].posted
        BY <1>22, <2>1 DEF RecordPayment, PaymentEffects, TypeOK, LedgerRow
      <3>3. StatusFromPayments(row.status, row.total, paid[i] + amount) \notin {"absent", "deleted"}
        BY <1>22, <2>1 DEF RecordPayment, StatusFromPayments, Exists
      <3>4. \A j \in Invoices : invoice[j].status # "absent" =>
                 invoice'[j].status # "absent" /\ (Exists(j)' => Exists(j))
        BY <1>22, <2>1, <3>3 DEF RecordPayment, PaymentEffects, Exists, TypeOK, Row
      <3> QED BY <3>1, <3>2, <3>4, DeletionUndisturbed
    <2>8. TargetsAreStatuses'
      BY <1>22 DEF RecordPayment, PaymentEffects, TargetsAreStatuses, Finish, Resting, TypeOK
    <2>9. UNCHANGED locked /\ dictated' \subseteq Invoices
      BY <1>22 DEF RecordPayment, PaymentEffects, TypeOK
    <2> QED BY <2>3, <2>4, <2>5, <2>6, <2>7, <2>8, <2>9 DEF TypeOK
  <1>23. ASSUME NEW r \in Requests, PostDrafts(r) PROVE TypeInv'
    <2> DEFINE i == request[r].inv
               n == ledger[i].posted + 1
               s == ledger[i].sales + ledger[i].draft
               e == [ledger[i] EXCEPT !.posted = n, !.draft = 0, !.sales = s]
    <2>1. i \in Invoices /\ ledger[i] \in LedgerRow
      BY DEF TypeOK, LocalState
    <2>2. e \in LedgerRow /\ e.posted > 0
      <3>1. n \in Nat /\ n > 0 /\ s \in Int
        BY <2>1 DEF LedgerRow
      <3> HIDE DEF n, s
      <3> QED BY <2>1, <3>1 DEF LedgerRow
    <2>3. ledger' = [ledger EXCEPT ![i] = e]
      BY <1>23, <2>1 DEF PostDrafts, TypeOK, LedgerRow
    <2>4. TypeOK'
      <3> HIDE DEF e
      <3> QED BY <1>23, <2>1, <2>2, <2>3, FinishType, LifecycleAssumption DEF PostDrafts, TypeOK
    <2>5. DeletionFindsItsEntries'
      <3> HIDE DEF e
      <3>1. \A q \in Requests : request'[q].step = "deleteRows" => request'[q] = request[q]
        BY <1>23 DEF PostDrafts, Finish, Resting, TypeOK
      <3>2. invoice' = invoice
        BY <1>23 DEF PostDrafts
      <3> QED BY <2>1, <2>2, <2>3, <3>1, <3>2, DeletionUndisturbed DEF TypeOK, Exists
    <2>6. TargetsAreStatuses'
      BY <1>23 DEF PostDrafts, TargetsAreStatuses, Finish, Resting, TypeOK
    <2> QED BY <2>4, <2>5, <2>6
  <1>24. ASSUME NEW r \in Requests, DeleteRows(r) PROVE TypeInv'
    <2> DEFINE i == request[r].inv
               amount == request[r].amount
    <2>1. i \in Invoices /\ ledger[i] \in LedgerRow /\ amount \in Nat
      BY DEF TypeOK, LocalState
    <2>2. ledger' \in [Invoices -> LedgerRow] /\ volume' \in [Periods -> Int]
      <3>1. CASE amount # 0 /\ ledger[i].draft = 0 /\ Exists(i)
        <4> DEFINE n == ledger[i].posted - 1
                   s == ledger[i].sales - amount
        <4>1. ledger[i].posted > 0
          BY <1>24, <3>1 DEF DeleteRows, At, DeletionFindsItsEntries
        <4>2. n \in Nat /\ s \in Int
          BY <2>1, <4>1 DEF LedgerRow
        <4>3. ledger' = [ledger EXCEPT ![i] = [ledger[i] EXCEPT !.posted = n, !.sales = s]]
          BY <1>24, <2>1, <3>1 DEF DeleteRows, TypeOK, LedgerRow
        <4> HIDE DEF n, s
        <4>4. [ledger[i] EXCEPT !.posted = n, !.sales = s] \in LedgerRow
          BY <2>1, <4>2, LedgerUpdate
        <4>5. volume' \in [Periods -> Int]
          BY <1>24, <3>1 DEF DeleteRows, TypeOK
        <4> QED BY <4>3, <4>4, <4>5 DEF TypeOK
      <3>2. CASE ~(amount # 0 /\ ledger[i].draft = 0 /\ Exists(i))
        <4>1. ledger' = [ledger EXCEPT ![i] = [ledger[i] EXCEPT !.draft = 0]] /\ volume' = volume
          BY <1>24, <3>2 DEF DeleteRows, TypeOK, LedgerRow
        <4>2. [ledger[i] EXCEPT !.draft = 0] \in LedgerRow
          BY <2>1 DEF LedgerRow
        <4> QED BY <4>1, <4>2 DEF TypeOK
      <3> QED BY <3>1, <3>2
    <2>3. invoice' \in [Invoices -> Row]
      <3>1. invoice' = [invoice EXCEPT ![i] = [invoice[i] EXCEPT !.status = "deleted"]]
        BY <1>24, <2>1 DEF DeleteRows, TypeOK, Row
      <3>2. [invoice[i] EXCEPT !.status = "deleted"] \in Row
        <4>1. \A row \in Row : [row EXCEPT !.status = "deleted"] \in Row
          BY DEF Row, RowStates
        <4>2. invoice[i] \in Row
          BY <2>1 DEF TypeOK
        <4> QED BY <4>1, <4>2
      <3> QED BY <3>1, <3>2 DEF TypeOK
    <2>4. paid' \in [Invoices -> Nat] /\ locked' \subseteq Periods /\ request' \in [Requests -> LocalState]
      BY <1>24, FinishType DEF DeleteRows, TypeOK
    <2>5. DeletionFindsItsEntries'
      <3>1. \A q \in Requests : request'[q].step = "deleteRows" => request'[q] = request[q]
        BY <1>24 DEF DeleteRows, Finish, Resting, TypeOK
      <3>2. invoice'[i].status = "deleted"
        BY <1>24, <2>1 DEF DeleteRows, TypeOK, Row
      <3>3. \A j \in Invoices \ {i} : invoice'[j] = invoice[j] /\ ledger'[j] = ledger[j]
        BY <1>24, <2>1 DEF DeleteRows, TypeOK
      <3> QED BY <2>1, <3>1, <3>2, <3>3 DEF DeletionFindsItsEntries, Exists, TypeOK, LocalState
    <2>6. TargetsAreStatuses'
      BY <1>24 DEF DeleteRows, TargetsAreStatuses, Finish, Resting, TypeOK
    <2>7. UNCHANGED <<locked, dictated>>
      BY <1>24 DEF DeleteRows
    <2> QED BY <2>2, <2>3, <2>4, <2>5, <2>6, <2>7 DEF TypeOK
  <1>25. ASSUME UNCHANGED vars PROVE TypeInv'
    BY <1>25 DEF vars, TypeOK, DeletionFindsItsEntries, TargetsAreStatuses, Exists
  <1> QED
    BY <1>1, <1>2, <1>3, <1>4, <1>5, <1>7, <1>8, <1>9, <1>10, <1>11, <1>12, <1>13, <1>14, <1>15, <1>16, <1>17, <1>18, <1>19, <1>20, <1>21, <1>22, <1>23, <1>24, <1>25
       DEF Next, Handler, Creation, StatusChange, Payment, Posting, Edit, Deletion

(* The tables and the handlers' local state keep their types: in particular  *)
(* no interleaving of deletions and postings counts an entry away that is    *)
(* not there (storage.ts safeDeleteInvoice).                                 *)
THEOREM TypeCorrect == Spec => []TypeOK
  <1>1. TypeInv => TypeOK
    BY DEF TypeInv
  <1> QED BY InitTypeInv, StepTypeInv, <1>1, PTL DEF Spec

-----------------------------------------------------------------------------
(* The steps that change an invoice row, its payments or its entries.       *)
Writes(r) ==
    \/ \E i \in Invoices : Insert(r, i)
    \/ PostRevenue(r) \/ PostReversal(r) \/ PostDrafts(r)
    \/ SetStatus(r) \/ RecordPayment(r) \/ WriteEdit(r) \/ DeleteRows(r)

LEMMA NextCases ==
    ASSUME [Next]_vars
    PROVE  UNCHANGED <<invoice, paid, ledger, volume, dictated>> \/ \E r \in Requests : Writes(r)
  <1> DEFINE Goal == UNCHANGED <<invoice, paid, ledger, volume, dictated>> \/ \E r \in Requests : Writes(r)
  <1>1. ASSUME NEW r \in Requests, Creation(r) PROVE Goal
    BY <1>1 DEF Creation, CreateBegin, Writes
  <1>2. ASSUME NEW r \in Requests, StatusChange(r) PROVE Goal
    BY <1>2 DEF StatusChange, StatusBegin, SumPayments, FindRevenue, FindOriginal, Writes
  <1>3. ASSUME NEW r \in Requests, Payment(r) \/ Posting(r) PROVE Goal
    BY <1>3 DEF Payment, PayBegin, Posting, PostBegin, FindDrafts, Writes
  <1>4. ASSUME NEW r \in Requests, Edit(r) \/ Deletion(r) PROVE Goal
    BY <1>4 DEF Edit, EditBegin, CheckPosted, Deletion, DeleteBegin, CheckEntries, Writes
  <1>5. ASSUME NEW r \in Requests, (\E p \in Periods : PassLock(r, p)) \/ GiveUp(r) PROVE Goal
    BY <1>5 DEF PassLock, GiveUp
  <1>6. ASSUME NEW p \in Periods, LockPeriod(p) \/ UnlockPeriod(p) PROVE Goal
    BY <1>6 DEF LockPeriod, UnlockPeriod
  <1>7. CASE UNCHANGED vars
    BY <1>7 DEF vars
  <1> HIDE DEF Goal
  <1>8. ASSUME NEW r \in Requests, Handler(r) PROVE Goal
    BY <1>1, <1>2, <1>3, <1>4, <1>5, <1>8 DEF Handler
  <1>9. CASE Next
    <2>1. Goal
      BY <1>6, <1>8, <1>9 DEF Next
    <2> QED BY <2>1 DEF Goal
  <1> QED BY <1>7, <1>9 DEF Goal

(* Posting an entry touches neither rows nor payments nor cash.             *)
Posts(r) == PostRevenue(r) \/ PostReversal(r) \/ PostDrafts(r)

LEMMA PostsFrame ==
    ASSUME TypeOK, NEW r \in Requests, Posts(r)
    PROVE  /\ UNCHANGED <<invoice, paid, dictated>>
           /\ \A i \in Invoices : ledger'[i].cash = ledger[i].cash
  <1>1. UNCHANGED <<invoice, paid, dictated>>
    BY DEF Posts, PostRevenue, PostReversal, PostDrafts
  <1>2. ASSUME NEW j \in Invoices, NEW delta, NEW p \in Periods, PostSale(j, delta, p)
        PROVE  \A i \in Invoices : ledger'[i].cash = ledger[i].cash
    BY <1>2 DEF PostSale, TypeOK, LedgerRow
  <1>3. request[r].inv \in Invoices /\ request[r].snap.date \in Periods /\ Today \in Periods
    BY LifecycleAssumption DEF TypeOK, LocalState, Row
  <1>5. CASE PostRevenue(r)
    BY <1>2, <1>3, <1>5 DEF PostRevenue
  <1>6. CASE PostReversal(r)
    BY <1>2, <1>3, <1>6 DEF PostReversal
  <1>7. CASE PostDrafts(r)
    BY <1>3, <1>7 DEF PostDrafts, TypeOK, LedgerRow
  <1> QED BY <1>1, <1>5, <1>6, <1>7 DEF Posts

(* An invoice that is not there yet has neither payments nor cash, so the    *)
(* two agree from the moment it is inserted.                                *)
AbsentIsBlank ==
    \A i \in Invoices : invoice[i].status = "absent" => paid[i] = 0 /\ ledger[i].cash = 0

CashInv == AbsentIsBlank /\ CashMatchesPayments

LEMMA InitCashInv == Init => CashInv
  <1> SUFFICES ASSUME Init PROVE CashInv
    OBVIOUS
  <1>1. \A i \in Invoices : paid[i] = 0 /\ ledger[i].cash = 0
    <2>1. NoEntries.cash = 0
      BY DEF NoEntries
    <2>2. ASSUME NEW amount
          PROVE  /\ [NoEntries EXCEPT !.draft = amount].cash = 0
                 /\ [NoEntries EXCEPT !.posted = 1, !.sales = amount].cash = 0
      BY DEF NoEntries
    <2>3. ASSUME NEW row \in Row PROVE \A e \in OldLedger(row) : e.cash = 0
      BY <2>1, <2>2 DEF OldLedger
    <2> QED BY <2>1, <2>3 DEF Init
  <1> QED BY <1>1 DEF CashInv, AbsentIsBlank, CashMatchesPayments

LEMMA StepCashInv == TypeInv /\ CashInv /\ [Next]_vars => CashInv'
  <1> SUFFICES ASSUME TypeInv, CashInv, [Next]_vars PROVE CashInv'
    OBVIOUS
  <1>t. TypeOK /\ TargetsAreStatuses
    BY DEF TypeInv
  <1>1. CASE UNCHANGED <<invoice, paid, ledger>>
    BY <1>1 DEF CashInv, AbsentIsBlank, CashMatchesPayments, Exists
  <1>2. ASSUME NEW r \in Requests, Posts(r) PROVE CashInv'
    BY <1>t, <1>2, PostsFrame DEF CashInv, AbsentIsBlank, CashMatchesPayments, Exists
  <1>3. ASSUME NEW r \in Requests, NEW i \in Invoices, Insert(r, i) PROVE CashInv'
    <2>1. /\ paid' = paid /\ ledger' = ledger
          /\ \A j \in Invoices : j # i => invoice'[j] = invoice[j]
          /\ invoice[i].status = "absent"
      BY <1>t, <1>3 DEF Insert, TypeOK
    <2>2. AbsentIsBlank'
      BY <2>1 DEF CashInv, AbsentIsBlank
    <2>3. CashMatchesPayments'
      BY <2>1 DEF CashInv, AbsentIsBlank, CashMatchesPayments, Exists
    <2> QED BY <2>2, <2>3 DEF CashInv
  <1>4. ASSUME NEW r \in Requests, SetStatus(r) \/ WriteEdit(r) PROVE CashInv'
    <2>1. UNCHANGED <<paid, ledger>>
      BY <1>4 DEF SetStatus, WriteEdit
    <2>2. \A j \in Invoices :
             \/ invoice'[j].status = invoice[j].status
             \/ Exists(j) /\ invoice'[j].status # "absent"
      <3>1. CASE SetStatus(r)
        <4> DEFINE i == request[r].inv
                   target == request[r].target
        <4>1. i \in Invoices /\ target # "absent"
          BY <1>t, <3>1 DEF SetStatus, At, TargetsAreStatuses, Statuses, TypeOK, LocalState
        <4>2. (invoice' = [invoice EXCEPT ![i].status = target] /\ Exists(i)) \/ invoice' = invoice
          BY <3>1 DEF SetStatus
        <4> HIDE DEF target
        <4> QED BY <1>t, <4>1, <4>2 DEF TypeOK, Row, Exists
      <3>2. CASE WriteEdit(r)
        BY <1>t, <3>2 DEF WriteEdit, TypeOK, LocalState, Row
      <3> QED BY <1>4, <3>1, <3>2
    <2> QED BY <2>1, <2>2 DEF CashInv, AbsentIsBlank, CashMatchesPayments, Exists
  <1>5. ASSUME NEW r \in Requests, RecordPayment(r) PROVE CashInv'
    <2> DEFINE i == request[r].inv
               amount == request[r].amount
               clears == amount * invoice[i].rate
    <2>1. i \in Invoices /\ amount \in Nat /\ invoice[i] \in Row /\ ledger[i] \in LedgerRow
      BY <1>t DEF TypeOK, LocalState
    <2>2. Exists(i) /\ paid' = [paid EXCEPT ![i] = paid[i] + amount]
      BY <1>5 DEF RecordPayment, PaymentEffects
    <2>3. ledger' = [ledger EXCEPT ![i].cash = ledger[i].cash + clears]
      BY <1>5 DEF RecordPayment, PaymentEffects
    <2>4. \A j \in Invoices : j # i => invoice'[j] = invoice[j]
      BY <1>t, <1>5, <2>1 DEF RecordPayment, PaymentEffects, TypeOK
    <2>5. invoice'[i].status \notin {"absent", "deleted"}
      <3> DEFINE status == StatusFromPayments(invoice[i].status, invoice[i].total, paid[i] + amount)
      <3>1. status \notin {"absent", "deleted"}
        BY <2>2 DEF StatusFromPayments, Exists
      <3>2. invoice' = [invoice EXCEPT ![i].status = status]
        BY <1>5 DEF RecordPayment, PaymentEffects
      <3> HIDE DEF status
      <3> QED BY <1>t, <2>1, <3>1, <3>2 DEF TypeOK, Row
    <2>6. Rates = {1} => clears = amount
      BY <2>1 DEF Row
    <2> HIDE DEF clears
    <2>7. AbsentIsBlank'
      <3>1. \A j \in Invoices : j # i => paid'[j] = paid[j] /\ ledger'[j] = ledger[j]
        BY <1>t, <2>1, <2>2, <2>3 DEF TypeOK
      <3> QED BY <2>4, <2>5, <3>1 DEF CashInv, AbsentIsBlank, Exists
    <2>8. CashMatchesPayments'
      BY <1>t, <2>1, <2>2, <2>3, <2>4, <2>5, <2>6
         DEF CashInv, CashMatchesPayments, Exists, TypeOK, LedgerRow
    <2> QED BY <2>7, <2>8 DEF CashInv
  <1>6. ASSUME NEW r \in Requests, DeleteRows(r) PROVE CashInv'
    <2> DEFINE i == request[r].inv
    <2>1. i \in Invoices
      BY <1>t DEF TypeOK, LocalState
    <2>2. invoice'[i].status = "deleted"
      BY <1>t, <1>6, <2>1 DEF DeleteRows, TypeOK, Row
    <2>3. \A j \in Invoices : j # i =>
             invoice'[j] = invoice[j] /\ paid'[j] = paid[j] /\ ledger'[j] = ledger[j]
      BY <1>t, <1>6, <2>1 DEF DeleteRows, TypeOK
    <2> QED BY <2>1, <2>2, <2>3 DEF CashInv, AbsentIsBlank, CashMatchesPayments, Exists
  <1> QED BY <1>1, <1>2, <1>3, <1>4, <1>5, <1>6, NextCases DEF Writes, Posts

(* Whatever handlers run and die, the cash the ledger cleared for an AED     *)
(* invoice is the sum of its payment rows (storage.ts recordInvoicePayment). *)
THEOREM PaymentsReachTheLedger == Spec => []CashMatchesPayments
  <1>1. CashInv => CashMatchesPayments
    BY DEF CashInv
  <1> QED BY InitTypeInv, StepTypeInv, InitCashInv, StepCashInv, <1>1, PTL DEF Spec

-----------------------------------------------------------------------------
(* Settlement, while totals are not edited (one total): two requests may     *)
(* have read the same balance, but the sum under the row lock lets only what *)
(* is left through, and a status set from a sum read earlier is still right, *)
(* because payments are only ever added to an invoice that is there.        *)

\* Only the branch that summed the payments sets "paid".
PaidOnlyAfterSum ==
    \A r \in Requests :
        request[r].step \in {"findDrafts", "findRevenue", "postRevenue", "findOriginal",
                             "postReversal"} => request[r].target # "paid"

\* What was settled when the payments were summed is settled when "paid" is set.
SettlesInFull ==
    \A r \in Requests :
        LET i == request[r].inv IN
        request[r].step = "setStatus" /\ request[r].target = "paid" =>
            invoice[i].status = "deleted" \/ paid[i] >= invoice[i].total

RequestsSound == PaidOnlyAfterSum

SettlementInv == RequestsSound /\ SettlesInFull /\ NeverOverpaid /\ PaidMeansSettled

LEMMA InitSettlementInv == Init => SettlementInv
  <1> SUFFICES ASSUME Init PROVE SettlementInv
    OBVIOUS
  <1>1. RequestsSound /\ SettlesInFull
    BY DEF Init, Resting, RequestsSound, PaidOnlyAfterSum, SettlesInFull
  <1>2. \A i \in Invoices : invoice[i] \in Row /\ paid[i] = 0 /\ invoice[i].status # "paid"
    BY DEF Init, ARow
  <1>3. NeverOverpaid /\ PaidMeansSettled
    BY <1>2, RowNumbers DEF NeverOverpaid, PaidMeansSettled
  <1> QED BY <1>1, <1>3 DEF SettlementInv

LEMMA StepRequestsSound == TypeOK /\ RequestsSound /\ [Next]_vars => RequestsSound'
  <1> SUFFICES ASSUME TypeOK, RequestsSound, [Next]_vars PROVE RequestsSound'
    OBVIOUS
  <1>1. ASSUME NEW r \in Requests, NEW row \in Row, CreateBegin(r, row) PROVE RequestsSound'
    BY <1>1 DEF CreateBegin, Resting, At, RequestsSound, PaidOnlyAfterSum, TypeOK, LocalState
  <1>2. ASSUME NEW r \in Requests, NEW i \in Invoices, Insert(r, i) PROVE RequestsSound'
    <2>1. \A q \in Requests : request'[q] = request[q] \/ request'[q].step = "idle"
      BY <1>2 DEF Insert, Finish, Resting, TypeOK, LocalState
    <2> QED BY <2>1 DEF RequestsSound, PaidOnlyAfterSum
  <1>4. ASSUME NEW r \in Requests, NEW i \in Invoices, NEW to \in Statuses, StatusBegin(r, i, to) PROVE RequestsSound'
    BY <1>4 DEF StatusBegin, FirstStep, Begin, At, RequestsSound, PaidOnlyAfterSum, TypeOK, LocalState
  <1>5. ASSUME NEW r \in Requests, SumPayments(r) PROVE RequestsSound'
    BY <1>5 DEF SumPayments, Goto, At, RequestsSound, PaidOnlyAfterSum, TypeOK, LocalState
  <1>6. ASSUME NEW r \in Requests, FindRevenue(r) PROVE RequestsSound'
    BY <1>6 DEF FindRevenue, AfterRevenue, Goto, Finish, Resting, At, RequestsSound, PaidOnlyAfterSum, TypeOK, LocalState
  <1>7. ASSUME NEW r \in Requests, PostRevenue(r) PROVE RequestsSound'
    BY <1>7 DEF PostRevenue, AfterRevenue, Goto, Finish, Resting, At, RequestsSound, PaidOnlyAfterSum, TypeOK, LocalState
  <1>8. ASSUME NEW r \in Requests, FindOriginal(r) PROVE RequestsSound'
    <2>1. /\ \A q \in Requests \ {r} : request'[q] = request[q]
          /\ request'[r].target = request[r].target /\ request'[r].step # "insert"
      BY <1>8 DEF FindOriginal, Goto, TypeOK, LocalState
    <2>2. request[r].target # "paid"
      BY <1>8 DEF FindOriginal, At, RequestsSound, PaidOnlyAfterSum
    <2> QED BY <2>1, <2>2 DEF RequestsSound, PaidOnlyAfterSum
  <1>9. ASSUME NEW r \in Requests, PostReversal(r) PROVE RequestsSound'
    BY <1>9 DEF PostReversal, Goto, At, RequestsSound, PaidOnlyAfterSum, TypeOK, LocalState
  <1>10. ASSUME NEW r \in Requests, SetStatus(r) PROVE RequestsSound'
    BY <1>10 DEF SetStatus, Finish, Resting, At, RequestsSound, PaidOnlyAfterSum, TypeOK, LocalState
  <1>11. ASSUME NEW r \in Requests, NEW i \in Invoices, NEW amount \in Amounts, NEW date \in Periods, PayBegin(r, i, amount, date) PROVE RequestsSound'
    BY <1>11 DEF PayBegin, Begin, Resting, At, RequestsSound, PaidOnlyAfterSum, TypeOK, LocalState
  <1>12. ASSUME NEW r \in Requests, RecordPayment(r) PROVE RequestsSound'
    BY <1>12 DEF RecordPayment, PaymentEffects, Finish, Resting, At, RequestsSound, PaidOnlyAfterSum, TypeOK, LocalState
  <1>13. ASSUME NEW r \in Requests, NEW i \in Invoices, PostBegin(r, i) PROVE RequestsSound'
    BY <1>13 DEF PostBegin, Begin, Resting, At, RequestsSound, PaidOnlyAfterSum, TypeOK, LocalState
  <1>14. ASSUME NEW r \in Requests, FindDrafts(r) PROVE RequestsSound'
    <2>1. /\ \A q \in Requests \ {r} : request'[q] = request[q]
          /\ request'[r].target = request[r].target /\ request'[r].step # "insert"
      BY <1>14 DEF FindDrafts, Goto, TypeOK, LocalState
    <2>2. request[r].target # "paid"
      BY <1>14 DEF FindDrafts, At, RequestsSound, PaidOnlyAfterSum
    <2> QED BY <2>1, <2>2 DEF RequestsSound, PaidOnlyAfterSum
  <1>15. ASSUME NEW r \in Requests, PostDrafts(r) PROVE RequestsSound'
    BY <1>15 DEF PostDrafts, Finish, Resting, At, RequestsSound, PaidOnlyAfterSum, TypeOK, LocalState
  <1>16. ASSUME NEW r \in Requests, NEW i \in Invoices, NEW row \in Row, EditBegin(r, i, row) PROVE RequestsSound'
    BY <1>16 DEF EditBegin, Begin, Resting, At, RequestsSound, PaidOnlyAfterSum, TypeOK, LocalState
  <1>17. ASSUME NEW r \in Requests, CheckPosted(r) PROVE RequestsSound'
    BY <1>17 DEF CheckPosted, At, RequestsSound, PaidOnlyAfterSum, TypeOK, LocalState
  <1>18. ASSUME NEW r \in Requests, WriteEdit(r) PROVE RequestsSound'
    BY <1>18 DEF WriteEdit, Finish, Resting, At, RequestsSound, PaidOnlyAfterSum, TypeOK, LocalState
  <1>19. ASSUME NEW r \in Requests, NEW i \in Invoices, DeleteBegin(r, i) PROVE RequestsSound'
    BY <1>19 DEF DeleteBegin, Begin, Resting, At, RequestsSound, PaidOnlyAfterSum, TypeOK, LocalState
  <1>20. ASSUME NEW r \in Requests, CheckEntries(r) PROVE RequestsSound'
    BY <1>20 DEF CheckEntries, At, RequestsSound, PaidOnlyAfterSum, TypeOK, LocalState
  <1>21. ASSUME NEW r \in Requests, DeleteRows(r) PROVE RequestsSound'
    BY <1>21 DEF DeleteRows, Finish, Resting, At, RequestsSound, PaidOnlyAfterSum, TypeOK, LocalState
  <1>22. ASSUME NEW r \in Requests, NEW p \in Periods, PassLock(r, p) PROVE RequestsSound'
    BY <1>22 DEF PassLock, At, RequestsSound, PaidOnlyAfterSum, TypeOK, LocalState
  <1>23. ASSUME NEW r \in Requests, GiveUp(r) PROVE RequestsSound'
    BY <1>23 DEF GiveUp, Finish, Resting, At, RequestsSound, PaidOnlyAfterSum, TypeOK, LocalState
  <1>24. ASSUME NEW p \in Periods, LockPeriod(p) \/ UnlockPeriod(p) PROVE RequestsSound'
    BY <1>24 DEF LockPeriod, UnlockPeriod, RequestsSound, PaidOnlyAfterSum
  <1>25. CASE UNCHANGED vars
    BY <1>25 DEF vars, RequestsSound, PaidOnlyAfterSum
  <1> QED
    BY <1>1, <1>2, <1>4, <1>5, <1>6, <1>7, <1>8, <1>9, <1>10, <1>11, <1>12, <1>13, <1>14, <1>15, <1>16, <1>17, <1>18, <1>19, <1>20, <1>21, <1>22, <1>23, <1>24, <1>25
       DEF Next, Handler, Creation, StatusChange, Payment, Posting, Edit, Deletion

(* A handler that stands before setting "paid" stood there already, or has   *)
(* just found the payments sum up to the total.                             *)
LEMMA SetsPaidAfterSum ==
    ASSUME NEW total, Totals = {total}, TypeOK, RequestsSound, [Next]_vars, NEW q \in Requests,
           request'[q].step = "setStatus", request'[q].target = "paid"
    PROVE  /\ request'[q].inv = request[q].inv
           /\ \/ request[q].step = "setStatus" /\ request[q].target = "paid"
              \/ paid[request[q].inv] >= total
  <1> DEFINE Goal ==
          /\ request'[q].inv = request[q].inv
          /\ \/ request[q].step = "setStatus" /\ request[q].target = "paid"
             \/ paid[request[q].inv] >= total
  <1>1. ASSUME NEW r \in Requests, NEW row \in Row, CreateBegin(r, row) PROVE Goal
    BY <1>1 DEF CreateBegin, Resting, At, RequestsSound, PaidOnlyAfterSum, TypeOK, LocalState
  <1>2. ASSUME NEW r \in Requests, NEW i \in Invoices, Insert(r, i) PROVE Goal
    BY <1>2 DEF Insert, Finish, Resting, At, RequestsSound, PaidOnlyAfterSum, TypeOK, LocalState
  <1>4. ASSUME NEW r \in Requests, NEW i \in Invoices, NEW to \in Statuses, StatusBegin(r, i, to) PROVE Goal
    BY <1>4 DEF StatusBegin, FirstStep, Begin, At, RequestsSound, PaidOnlyAfterSum, TypeOK, LocalState
  <1>5. ASSUME NEW r \in Requests, SumPayments(r) PROVE Goal
    <2>1. request[r].snap.total = total /\ total \in Nat /\ paid[request[r].inv] \in Nat
      BY RowNumbers DEF TypeOK, LocalState, Row
    <2>2. CASE q = r
      <3> DEFINE remaining == request[r].snap.total - paid[request[r].inv]
      <3>1. ~(remaining > 0)
        BY <1>5, <2>2 DEF SumPayments, TypeOK, LocalState
      <3>2. request'[r].inv = request[r].inv
        BY <1>5 DEF SumPayments, Goto, TypeOK, LocalState
      <3> QED BY <2>1, <2>2, <3>1, <3>2
    <2>3. CASE q # r
      BY <1>5, <2>3 DEF SumPayments, At, Goto, TypeOK
    <2> QED BY <2>2, <2>3
  <1>6. ASSUME NEW r \in Requests, FindRevenue(r) PROVE Goal
    BY <1>6 DEF FindRevenue, AfterRevenue, Goto, Finish, Resting, At, RequestsSound, PaidOnlyAfterSum, TypeOK, LocalState
  <1>7. ASSUME NEW r \in Requests, PostRevenue(r) PROVE Goal
    BY <1>7 DEF PostRevenue, AfterRevenue, Goto, Finish, Resting, At, RequestsSound, PaidOnlyAfterSum, TypeOK, LocalState
  <1>8. ASSUME NEW r \in Requests, FindOriginal(r) PROVE Goal
    <2>1. CASE Goto(r, "setStatus")
      BY <1>8, <2>1 DEF FindOriginal, Goto, At, RequestsSound, PaidOnlyAfterSum, TypeOK, LocalState
    <2>2. CASE request' = [request EXCEPT ![r].step = "postReversal", ![r].check = {Today}]
      BY <1>8, <2>2 DEF FindOriginal, At, RequestsSound, PaidOnlyAfterSum, TypeOK, LocalState
    <2> QED BY <1>8, <2>1, <2>2 DEF FindOriginal
  <1>9. ASSUME NEW r \in Requests, PostReversal(r) PROVE Goal
    BY <1>9 DEF PostReversal, Goto, At, RequestsSound, PaidOnlyAfterSum, TypeOK, LocalState
  <1>10. ASSUME NEW r \in Requests, SetStatus(r) PROVE Goal
    BY <1>10 DEF SetStatus, Finish, Resting, At, RequestsSound, PaidOnlyAfterSum, TypeOK, LocalState
  <1>11. ASSUME NEW r \in Requests, NEW i \in Invoices, NEW amount \in Amounts, NEW date \in Periods, PayBegin(r, i, amount, date) PROVE Goal
    BY <1>11 DEF PayBegin, Begin, Resting, At, RequestsSound, PaidOnlyAfterSum, TypeOK, LocalState
  <1>12. ASSUME NEW r \in Requests, RecordPayment(r) PROVE Goal
    BY <1>12 DEF RecordPayment, PaymentEffects, Finish, Resting, At, RequestsSound, PaidOnlyAfterSum, TypeOK, LocalState
  <1>13. ASSUME NEW r \in Requests, NEW i \in Invoices, PostBegin(r, i) PROVE Goal
    BY <1>13 DEF PostBegin, Begin, Resting, At, RequestsSound, PaidOnlyAfterSum, TypeOK, LocalState
  <1>14. ASSUME NEW r \in Requests, FindDrafts(r) PROVE Goal
    BY <1>14 DEF FindDrafts, At, RequestsSound, PaidOnlyAfterSum, TypeOK, LocalState
  <1>15. ASSUME NEW r \in Requests, PostDrafts(r) PROVE Goal
    BY <1>15 DEF PostDrafts, Finish, Resting, At, RequestsSound, PaidOnlyAfterSum, TypeOK, LocalState
  <1>16. ASSUME NEW r \in Requests, NEW i \in Invoices, NEW row \in Row, EditBegin(r, i, row) PROVE Goal
    BY <1>16 DEF EditBegin, Begin, Resting, At, RequestsSound, PaidOnlyAfterSum, TypeOK, LocalState
  <1>17. ASSUME NEW r \in Requests, CheckPosted(r) PROVE Goal
    BY <1>17 DEF CheckPosted, At, RequestsSound, PaidOnlyAfterSum, TypeOK, LocalState
  <1>18. ASSUME NEW r \in Requests, WriteEdit(r) PROVE Goal
    BY <1>18 DEF WriteEdit, Finish, Resting, At, RequestsSound, PaidOnlyAfterSum, TypeOK, LocalState
  <1>19. ASSUME NEW r \in Requests, NEW i \in Invoices, DeleteBegin(r, i) PROVE Goal
    BY <1>19 DEF DeleteBegin, Begin, Resting, At, RequestsSound, PaidOnlyAfterSum, TypeOK, LocalState
  <1>20. ASSUME NEW r \in Requests, CheckEntries(r) PROVE Goal
    BY <1>20 DEF CheckEntries, At, RequestsSound, PaidOnlyAfterSum, TypeOK, LocalState
  <1>21. ASSUME NEW r \in Requests, DeleteRows(r) PROVE Goal
    BY <1>21 DEF DeleteRows, Finish, Resting, At, RequestsSound, PaidOnlyAfterSum, TypeOK, LocalState
  <1>22. ASSUME NEW r \in Requests, NEW p \in Periods, PassLock(r, p) PROVE Goal
    BY <1>22 DEF PassLock, At, RequestsSound, PaidOnlyAfterSum, TypeOK, LocalState
  <1>23. ASSUME NEW r \in Requests, GiveUp(r) PROVE Goal
    BY <1>23 DEF GiveUp, Finish, Resting, At, RequestsSound, PaidOnlyAfterSum, TypeOK, LocalState
  <1>24. ASSUME NEW p \in Periods, LockPeriod(p) \/ UnlockPeriod(p) PROVE Goal
    BY <1>24 DEF LockPeriod, UnlockPeriod
  <1>25. ASSUME UNCHANGED vars PROVE Goal
    BY <1>25 DEF vars
  <1> HIDE DEF Goal
  <1>26. Goal
    BY <1>1, <1>2, <1>4, <1>5, <1>6, <1>7, <1>8, <1>9, <1>10, <1>11, <1>12, <1>13, <1>14, <1>15, <1>16, <1>17, <1>18, <1>19, <1>20, <1>21, <1>22, <1>23, <1>24, <1>25
       DEF Next, Handler, Creation, StatusChange, Payment, Posting, Edit, Deletion
  <1> QED BY <1>26 DEF Goal

(* What a step may do to an invoice and its payments, seen from outside.    *)
LEMMA StepSettlementInv ==
    ASSUME NEW total, Totals = {total}, TypeInv, CashInv, SettlementInv, [Next]_vars
    PROVE  SettlementInv'
  <1>t. TypeOK /\ AbsentIsBlank /\ RequestsSound /\ TargetsAreStatuses /\ TypeOK'
    BY StepTypeInv DEF TypeInv, CashInv, SettlementInv
  <1>n. total \in Nat /\ total > 0
    BY LifecycleAssumption
  <1>r. \A row \in Row : row.total = total
    BY DEF Row
  <1>i. \A i \in Invoices : invoice[i] \in Row /\ invoice'[i] \in Row /\ paid[i] \in Nat /\ paid'[i] \in Nat
    BY <1>t DEF TypeOK
  <1>1. RequestsSound'
    BY <1>t, StepRequestsSound
  \* The rows and payments after the step.
  <1>2. \A i \in Invoices :
           /\ paid'[i] <= total
           /\ invoice'[i].status = "paid" /\ i \notin dictated' => paid'[i] >= total
           /\ invoice'[i].status = "deleted" \/ paid'[i] >= paid[i]
           /\ invoice[i].status = "deleted" => invoice'[i].status = "deleted"
    <2> DEFINE Fine(i) ==
           /\ paid'[i] <= total
           /\ invoice'[i].status = "paid" /\ i \notin dictated' => paid'[i] >= total
           /\ invoice'[i].status = "deleted" \/ paid'[i] >= paid[i]
           /\ invoice[i].status = "deleted" => invoice'[i].status = "deleted"
    <2>1. \A i \in Invoices : /\ paid[i] <= total
                              /\ invoice[i].status = "paid" /\ i \notin dictated => paid[i] >= total
      BY <1>r, <1>i DEF SettlementInv, NeverOverpaid, PaidMeansSettled
    <2>u. \A i \in Invoices : paid'[i] = paid[i] => paid'[i] <= total /\ paid'[i] >= paid[i]
      <3>1. \A i \in Invoices : paid[i] <= total
        BY <2>1
      <3> QED BY <1>n, <1>i, <3>1
    <2>2. ASSUME NEW i \in Invoices, paid'[i] = paid[i], invoice'[i].status = invoice[i].status,
                 i \in dictated => i \in dictated'
          PROVE  Fine(i)
      <3>1. invoice'[i].status = "paid" /\ i \notin dictated' => paid[i] >= total
        BY <2>1, <2>2
      <3> QED BY <2>2, <2>u, <3>1
    <2>3. CASE UNCHANGED <<invoice, paid, ledger, dictated>>
      BY <2>2, <2>3
    <2>4. ASSUME NEW r \in Requests, Posts(r) PROVE \A i \in Invoices : Fine(i)
      BY <1>t, <2>2, <2>4, PostsFrame
    <2>5. ASSUME NEW r \in Requests, NEW j \in Invoices, Insert(r, j), NEW i \in Invoices PROVE Fine(i)
      <3>1. paid' = paid /\ (i \in dictated => i \in dictated')
        BY <2>5 DEF Insert
      <3>2. CASE i = j
        <4>1. invoice[i].status = "absent"
          BY <2>5, <3>2 DEF Insert
        <4>2. invoice'[i].status # "draft" => i \in dictated'
          BY <1>t, <2>5, <3>2 DEF Insert, TypeOK
        <4>3. invoice'[i].status = "paid" /\ i \notin dictated' => paid'[i] >= total
          BY <4>2
        <4> QED BY <2>u, <3>1, <4>1, <4>3
      <3>3. CASE i # j
        BY <1>t, <2>2, <2>5, <3>1, <3>3 DEF Insert, TypeOK
      <3> QED BY <3>2, <3>3
    <2>6. ASSUME NEW r \in Requests, SetStatus(r), NEW i \in Invoices PROVE Fine(i)
      <3> DEFINE j == request[r].inv
                 target == request[r].target
      <3>1. paid' = paid /\ j \in Invoices
        BY <1>t, <2>6 DEF SetStatus, TypeOK, LocalState
      <3>2. CASE i = j /\ Exists(j)
        <4>1. invoice'[i].status = target /\ invoice[i].status # "deleted"
          BY <1>t, <2>6, <3>1, <3>2 DEF SetStatus, TypeOK, Row, Exists
        <4>2. target = "paid" => paid[i] >= total
          BY <1>i, <1>r, <2>6, <3>2, <4>1 DEF SetStatus, At, SettlementInv, SettlesInFull
        <4> HIDE DEF j, target
        <4> QED BY <2>u, <3>1, <4>1, <4>2
      <3>3. CASE ~(i = j /\ Exists(j))
        <4>1. invoice'[i] = invoice[i] /\ (i # j => (i \in dictated => i \in dictated'))
          BY <1>t, <2>6, <3>1, <3>3 DEF SetStatus, TypeOK
        <4>2. CASE i # j
          BY <2>2, <3>1, <4>1, <4>2
        <4>3. CASE ~Exists(i)
          <5>1. invoice'[i].status # "paid"
            BY <4>1, <4>3 DEF Exists
          <5> QED BY <2>u, <3>1, <4>1, <5>1
        <4> QED BY <3>3, <4>2, <4>3
      <3> QED BY <3>2, <3>3
    <2>7. ASSUME NEW r \in Requests, RecordPayment(r), NEW i \in Invoices PROVE Fine(i)
      <3> DEFINE j == request[r].inv
                 amount == request[r].amount
      <3>1. j \in Invoices /\ amount \in Nat
        BY <1>t DEF TypeOK, LocalState
      <3>2. /\ Exists(j) /\ ~IsTerminal(invoice[j].status)
            /\ amount <= total - paid[j]
            /\ paid' = [paid EXCEPT ![j] = paid[j] + amount]
            /\ invoice' = [invoice EXCEPT ![j].status =
                              StatusFromPayments(invoice[j].status, total, paid[j] + amount)]
            /\ dictated' = dictated \ {j}
        BY <1>i, <1>r, <2>7, <3>1 DEF RecordPayment, PaymentEffects
      <3> HIDE DEF j, amount
      <3>3. CASE i = j
        <4>1. paid'[i] = paid[i] + amount
          BY <1>t, <3>2, <3>3 DEF TypeOK
        <4>2. invoice'[i].status = StatusFromPayments(invoice[j].status, total, paid[j] + amount)
          BY <1>t, <3>2, <3>3 DEF TypeOK, Row
        <4>3. invoice'[i].status = "paid" => paid[i] + amount >= total
          BY <3>2, <3>3, <4>2 DEF StatusFromPayments, IsTerminal
        <4> QED BY <1>n, <1>i, <3>1, <3>2, <3>3, <4>1, <4>3 DEF Exists
      <3>4. CASE i # j
        BY <1>t, <2>2, <3>1, <3>2, <3>4 DEF TypeOK
      <3> QED BY <3>3, <3>4
    <2>8. ASSUME NEW r \in Requests, WriteEdit(r), NEW i \in Invoices PROVE Fine(i)
      <3> DEFINE j == request[r].inv
                 edit == request[r].edit
                 status == IF edit.status = "absent" THEN invoice[j].status ELSE edit.status
      <3>1. /\ j \in Invoices /\ edit \in Row /\ paid' = paid /\ Exists(j)
            /\ invoice' = [invoice EXCEPT ![j] = [edit EXCEPT !.status = status]]
            /\ dictated' = IF status = invoice[j].status THEN dictated ELSE dictated \cup {j}
        BY <1>t, <2>8 DEF WriteEdit, TypeOK, LocalState
      <3>2. [edit EXCEPT !.status = status].status = status
        BY <3>1 DEF Row
      <3> HIDE DEF j, edit, status
      <3>3. CASE i = j
        <4>1. invoice'[i].status = status /\ invoice[i].status # "deleted"
          BY <1>t, <3>1, <3>2, <3>3 DEF TypeOK, Exists
        <4>2. status # invoice[i].status => i \in dictated'
          BY <3>1, <3>3
        <4>3. i \in dictated => i \in dictated'
          BY <3>1
        <4>4. invoice'[i].status = "paid" /\ i \notin dictated' => paid[i] >= total
          BY <2>1, <4>1, <4>2, <4>3
        <4> QED BY <2>u, <3>1, <4>1, <4>4
      <3>4. CASE i # j
        BY <1>t, <2>2, <3>1, <3>4 DEF TypeOK
      <3> QED BY <3>3, <3>4
    <2>9. ASSUME NEW r \in Requests, DeleteRows(r), NEW i \in Invoices PROVE Fine(i)
      <3> DEFINE j == request[r].inv
      <3>1. j \in Invoices /\ invoice' = [invoice EXCEPT ![j].status = "deleted"]
                          /\ paid' = [paid EXCEPT ![j] = 0] /\ dictated' = dictated
        BY <1>t, <2>9 DEF DeleteRows, TypeOK, LocalState
      <3> HIDE DEF j
      <3>2. CASE i = j
        <4>1. paid'[i] = 0 /\ invoice'[i].status = "deleted"
          BY <1>t, <3>1, <3>2 DEF TypeOK, Row
        <4> QED BY <1>n, <4>1
      <3>3. CASE i # j
        BY <1>t, <2>2, <3>1, <3>3 DEF TypeOK
      <3> QED BY <3>2, <3>3
    <2> HIDE DEF Fine
    <2>10. \A i \in Invoices : Fine(i)
      <3>1. CASE \E r \in Requests : Writes(r)
        BY <2>4, <2>5, <2>6, <2>7, <2>8, <2>9, <3>1 DEF Writes, Posts
      <3> QED BY <2>3, <3>1, NextCases DEF Fine
    <2> QED BY <2>10 DEF Fine
  \* A handler that comes to set "paid" in this step has just summed the payments.
  <1>3. ASSUME NEW r \in Requests, request'[r].step = "setStatus", request'[r].target = "paid"
        PROVE  /\ request'[r].inv = request[r].inv
               /\ \/ request[r].step = "setStatus" /\ request[r].target = "paid"
                  \/ paid[request[r].inv] >= total
    BY <1>t, <1>3, SetsPaidAfterSum
  <1>4. SettlesInFull'
    BY <1>2, <1>3, <1>i, <1>r, <1>n, <1>t DEF SettlementInv, SettlesInFull, TypeOK, LocalState
  <1>5. NeverOverpaid' /\ PaidMeansSettled'
    BY <1>2, <1>i, <1>r DEF NeverOverpaid, PaidMeansSettled
  <1> QED BY <1>1, <1>4, <1>5 DEF SettlementInv

(* No interleaving of payments and status changes overpays an invoice whose *)
(* total stays as it is (storage.ts recordInvoicePayment).                   *)
THEOREM CustomersAreNeverOverpaid ==
    ASSUME NEW CONSTANT total, Totals = {total}
    PROVE  Spec => []NeverOverpaid
  <1>1. SettlementInv => NeverOverpaid
    BY DEF SettlementInv
  <1>2. TypeInv /\ CashInv /\ SettlementInv /\ [Next]_vars => SettlementInv'
    BY StepSettlementInv
  <1> QED BY InitTypeInv, StepTypeInv, InitCashInv, StepCashInv, InitSettlementInv, <1>1, <1>2, PTL
             DEF Spec

(* Under the same condition an invoice that says "paid" is covered by its    *)
(* payments, also when its status was set from a sum read earlier, unless    *)
(* the body of a POST or PUT wrote that status over the last one.           *)
THEOREM PaidInvoicesAreSettled ==
    ASSUME NEW CONSTANT total, Totals = {total}
    PROVE  Spec => []PaidMeansSettled
  <1>1. SettlementInv => PaidMeansSettled
    BY DEF SettlementInv
  <1>2. TypeInv /\ CashInv /\ SettlementInv /\ [Next]_vars => SettlementInv'
    BY StepSettlementInv
  <1> QED BY InitTypeInv, StepTypeInv, InitCashInv, StepCashInv, InitSettlementInv, <1>1, <1>2, PTL
             DEF Spec
-----------------------------------------------------------------------------
(* The months in which a handler is about to date a sale or a reversal.     *)
Due(r) ==
    IF request[r].step \in {"findRevenue", "postRevenue"} THEN {request[r].snap.date}
    ELSE IF request[r].step = "postReversal" THEN {Today}
    ELSE {}

(* A month is locked when nobody is in progress, so what a handler is about  *)
(* to date in a locked month still has to pass that lock.                   *)
LocksHold == \A r \in Requests : Due(r) \cap locked \subseteq request[r].check

(* Without old invoices there are no draft entries, and nothing deletes.    *)
NothingOld ==
    /\ \A i \in Invoices : ledger[i].draft = 0
    /\ \A r \in Requests : request[r].step \notin {"postDrafts", "checkEntries", "deleteRows"}

(* A payment that is about to be recorded is one of more than nothing.      *)
PaymentsPay == \A r \in Requests : request[r].step = "recordPayment" => request[r].amount > 0

ClosedInv == LocksHold /\ NothingOld /\ PaymentsPay

LEMMA InitClosedInv == OldInvoices = {} /\ Init => ClosedInv
  <1> SUFFICES ASSUME OldInvoices = {}, Init PROVE ClosedInv
    OBVIOUS
  <1>1. \A i \in Invoices : ledger[i].draft = 0
    BY DEF Init, NoEntries
  <1>2. \A r \in Requests : request[r] = Resting
    BY DEF Init
  <1>3. \A r \in Requests : request[r].step = "idle"
    <2>1. Resting.step = "idle"
      BY DEF Resting
    <2> QED BY <1>2, <2>1
  <1>4. \A r \in Requests : Due(r) = {}
    BY <1>3 DEF Due
  <1> QED BY <1>1, <1>3, <1>4 DEF ClosedInv, LocksHold, NothingOld, PaymentsPay

LEMMA StepLocksHold ==
    ASSUME LocksAtRest, TypeOK, NothingOld, LocksHold, [Next]_vars
    PROVE  LocksHold'
  <1>1. ASSUME NEW r \in Requests, NEW row \in Row, CreateBegin(r, row) PROVE LocksHold'
    BY <1>1 DEF CreateBegin, Resting, LocksHold, Due, TypeOK, LocalState
  <1>2. ASSUME NEW r \in Requests, NEW i \in Invoices, Insert(r, i) PROVE LocksHold'
    BY <1>2 DEF Insert, At, Finish, Resting, LocksHold, Due, TypeOK, LocalState
  <1>4. ASSUME NEW r \in Requests, NEW i \in Invoices, NEW to \in Statuses, StatusBegin(r, i, to) PROVE LocksHold'
    BY <1>4 DEF StatusBegin, Begin, Resting, FirstStep, LocksHold, Due, TypeOK, LocalState
  <1>5. ASSUME NEW r \in Requests, SumPayments(r) PROVE LocksHold'
    BY <1>5 DEF SumPayments, At, Goto, LocksHold, Due, TypeOK, LocalState
  <1>6. ASSUME NEW r \in Requests, FindRevenue(r) PROVE LocksHold'
    BY <1>6 DEF FindRevenue, At, AfterRevenue, Goto, Finish, Resting, LocksHold, Due, TypeOK, LocalState
  <1>7. ASSUME NEW r \in Requests, PostRevenue(r) PROVE LocksHold'
    BY <1>7 DEF PostRevenue, At, AfterRevenue, Goto, Finish, Resting, LocksHold, Due, TypeOK, LocalState
  <1>8. ASSUME NEW r \in Requests, FindOriginal(r) PROVE LocksHold'
    BY <1>8 DEF FindOriginal, At, Goto, LocksHold, Due, TypeOK, LocalState
  <1>9. ASSUME NEW r \in Requests, PostReversal(r) PROVE LocksHold'
    BY <1>9 DEF PostReversal, At, Goto, LocksHold, Due, TypeOK, LocalState
  <1>10. ASSUME NEW r \in Requests, SetStatus(r) PROVE LocksHold'
    BY <1>10 DEF SetStatus, At, Finish, Resting, LocksHold, Due, TypeOK, LocalState
  <1>11. ASSUME NEW r \in Requests, NEW i \in Invoices, NEW amount \in Amounts, NEW date \in Periods, PayBegin(r, i, amount, date) PROVE LocksHold'
    BY <1>11 DEF PayBegin, Begin, Resting, LocksHold, Due, TypeOK, LocalState
  <1>12. ASSUME NEW r \in Requests, RecordPayment(r) PROVE LocksHold'
    <2>1. locked' = locked /\ request' = [request EXCEPT ![r] = Resting]
      BY <1>12 DEF RecordPayment, PaymentEffects, Finish
    <2> QED BY <2>1 DEF Resting, LocksHold, Due, TypeOK
  <1>13. ASSUME NEW r \in Requests, NEW i \in Invoices, PostBegin(r, i) PROVE LocksHold'
    BY <1>13 DEF PostBegin, Begin, Resting, LocksHold, Due, TypeOK, LocalState
  <1>14. ASSUME NEW r \in Requests, FindDrafts(r) PROVE LocksHold'
    <2>1. /\ locked' = locked
          /\ request' = [request EXCEPT ![r].step = "findRevenue", ![r].check = {request[r].snap.date}]
      BY <1>14 DEF FindDrafts, NothingOld, TypeOK, LocalState
    <2> QED BY <2>1 DEF LocksHold, Due, TypeOK, LocalState
  <1>15. ASSUME NEW r \in Requests, PostDrafts(r) PROVE LocksHold'
    BY <1>15 DEF PostDrafts, At, Finish, Resting, LocksHold, Due, TypeOK, LocalState
  <1>16. ASSUME NEW r \in Requests, NEW i \in Invoices, NEW row \in Row, EditBegin(r, i, row) PROVE LocksHold'
    BY <1>16 DEF EditBegin, Begin, Resting, LocksHold, Due, TypeOK, LocalState
  <1>17. ASSUME NEW r \in Requests, CheckPosted(r) PROVE LocksHold'
    BY <1>17 DEF CheckPosted, At, LocksHold, Due, TypeOK, LocalState
  <1>18. ASSUME NEW r \in Requests, WriteEdit(r) PROVE LocksHold'
    BY <1>18 DEF WriteEdit, At, Finish, Resting, LocksHold, Due, TypeOK, LocalState
  <1>19. ASSUME NEW r \in Requests, NEW i \in Invoices, DeleteBegin(r, i) PROVE LocksHold'
    BY <1>19 DEF DeleteBegin, Begin, Resting, LocksHold, Due, TypeOK, LocalState
  <1>20. ASSUME NEW r \in Requests, CheckEntries(r) PROVE LocksHold'
    BY <1>20 DEF CheckEntries, At, NothingOld
  <1>21. ASSUME NEW r \in Requests, DeleteRows(r) PROVE LocksHold'
    BY <1>21 DEF DeleteRows, At, Finish, Resting, LocksHold, Due, TypeOK, LocalState
  <1>22. ASSUME NEW r \in Requests, NEW p \in Periods, PassLock(r, p) PROVE LocksHold'
    BY <1>22 DEF PassLock, At, LocksHold, Due, TypeOK, LocalState
  <1>23. ASSUME NEW r \in Requests, GiveUp(r) PROVE LocksHold'
    BY <1>23 DEF GiveUp, Idle, Finish, Resting, LocksHold, Due, TypeOK, LocalState
  <1>24. ASSUME NEW p \in Periods, LockPeriod(p) \/ UnlockPeriod(p) PROVE LocksHold'
    BY <1>24 DEF LockPeriod, UnlockPeriod, Quiet, Idle, LocksHold, Due, TypeOK
  <1>25. CASE UNCHANGED vars
    BY <1>25 DEF vars, LocksHold, Due
  <1> QED
    BY <1>1, <1>2, <1>4, <1>5, <1>6, <1>7, <1>8, <1>9, <1>10, <1>11, <1>12, <1>13, <1>14, <1>15, <1>16, <1>17, <1>18, <1>19, <1>20, <1>21, <1>22, <1>23, <1>24, <1>25
       DEF Next, Handler, Creation, StatusChange, Payment, Posting, Edit, Deletion

LEMMA StepNothingOld ==
    ASSUME OldInvoices = {}, TypeOK, NothingOld, [Next]_vars
    PROVE  NothingOld'
  <1>1. ASSUME NEW r \in Requests, NEW row \in Row, CreateBegin(r, row) PROVE NothingOld'
    BY <1>1 DEF CreateBegin, Resting, NothingOld, TypeOK, LocalState
  <1>2. ASSUME NEW r \in Requests, NEW i \in Invoices, Insert(r, i) PROVE NothingOld'
    BY <1>2 DEF Insert, At, Finish, Resting, NothingOld, TypeOK, LocalState
  <1>4. ASSUME NEW r \in Requests, NEW i \in Invoices, NEW to \in Statuses, StatusBegin(r, i, to) PROVE NothingOld'
    BY <1>4 DEF StatusBegin, Begin, Resting, FirstStep, NothingOld, TypeOK, LocalState
  <1>5. ASSUME NEW r \in Requests, SumPayments(r) PROVE NothingOld'
    BY <1>5 DEF SumPayments, At, Goto, NothingOld, TypeOK, LocalState
  <1>6. ASSUME NEW r \in Requests, FindRevenue(r) PROVE NothingOld'
    BY <1>6 DEF FindRevenue, At, AfterRevenue, Goto, Finish, Resting, NothingOld, TypeOK, LocalState
  <1>7. ASSUME NEW r \in Requests, PostRevenue(r) PROVE NothingOld'
    <2>1. \A j \in Invoices : ledger'[j].draft = ledger[j].draft
      BY <1>7 DEF PostRevenue, PostSale, TypeOK, LedgerRow
    <2>2. \A q \in Requests : request'[q].step \in {request[q].step, "idle", "setStatus"}
      BY <1>7 DEF PostRevenue, AfterRevenue, Goto, Finish, Resting, TypeOK, LocalState
    <2> QED BY <2>1, <2>2 DEF NothingOld
  <1>8. ASSUME NEW r \in Requests, FindOriginal(r) PROVE NothingOld'
    BY <1>8 DEF FindOriginal, At, Goto, NothingOld, TypeOK, LocalState
  <1>9. ASSUME NEW r \in Requests, PostReversal(r) PROVE NothingOld'
    <2>1. \A j \in Invoices : ledger'[j].draft = ledger[j].draft
      BY <1>9 DEF PostReversal, PostSale, TypeOK, LedgerRow
    <2>2. request' = [request EXCEPT ![r].step = "setStatus"]
      BY <1>9 DEF PostReversal, Goto
    <2>3. \A q \in Requests : request'[q].step \in {request[q].step, "setStatus"}
      BY <2>2 DEF TypeOK, LocalState
    <2> QED BY <2>1, <2>3 DEF NothingOld
  <1>10. ASSUME NEW r \in Requests, SetStatus(r) PROVE NothingOld'
    BY <1>10 DEF SetStatus, At, Finish, Resting, NothingOld, TypeOK, LocalState
  <1>11. ASSUME NEW r \in Requests, NEW i \in Invoices, NEW amount \in Amounts, NEW date \in Periods, PayBegin(r, i, amount, date) PROVE NothingOld'
    BY <1>11 DEF PayBegin, Begin, Resting, NothingOld, TypeOK, LocalState
  <1>12. ASSUME NEW r \in Requests, RecordPayment(r) PROVE NothingOld'
    <2>1. request' = [request EXCEPT ![r] = Resting]
      BY <1>12 DEF RecordPayment, PaymentEffects, Finish
    <2>2. \A j \in Invoices : ledger'[j].draft = ledger[j].draft
      BY <1>12 DEF RecordPayment, PaymentEffects, TypeOK, LedgerRow
    <2> QED BY <2>1, <2>2 DEF Resting, NothingOld, TypeOK
  <1>13. ASSUME NEW r \in Requests, NEW i \in Invoices, PostBegin(r, i) PROVE NothingOld'
    BY <1>13 DEF PostBegin, Begin, Resting, NothingOld, TypeOK, LocalState
  <1>14. ASSUME NEW r \in Requests, FindDrafts(r) PROVE NothingOld'
    <2>1. ledger' = ledger /\ request' = [request EXCEPT ![r].step = "findRevenue", ![r].check = {request[r].snap.date}]
      BY <1>14 DEF FindDrafts, NothingOld, TypeOK, LocalState
    <2> QED BY <2>1 DEF NothingOld, TypeOK, LocalState
  <1>15. ASSUME NEW r \in Requests, PostDrafts(r) PROVE NothingOld'
    BY <1>15 DEF PostDrafts, At, NothingOld
  <1>16. ASSUME NEW r \in Requests, NEW i \in Invoices, NEW row \in Row, EditBegin(r, i, row) PROVE NothingOld'
    BY <1>16 DEF EditBegin, Begin, Resting, NothingOld, TypeOK, LocalState
  <1>17. ASSUME NEW r \in Requests, CheckPosted(r) PROVE NothingOld'
    BY <1>17 DEF CheckPosted, At, NothingOld, TypeOK, LocalState
  <1>18. ASSUME NEW r \in Requests, WriteEdit(r) PROVE NothingOld'
    BY <1>18 DEF WriteEdit, At, Finish, Resting, NothingOld, TypeOK, LocalState
  <1>19. ASSUME NEW r \in Requests, NEW i \in Invoices, DeleteBegin(r, i) PROVE NothingOld'
    BY <1>19 DEF DeleteBegin
  <1>20. ASSUME NEW r \in Requests, CheckEntries(r) PROVE NothingOld'
    BY <1>20 DEF CheckEntries, At, NothingOld
  <1>21. ASSUME NEW r \in Requests, DeleteRows(r) PROVE NothingOld'
    BY <1>21 DEF DeleteRows, At, NothingOld
  <1>22. ASSUME NEW r \in Requests, NEW p \in Periods, PassLock(r, p) PROVE NothingOld'
    BY <1>22 DEF PassLock, At, NothingOld, TypeOK, LocalState
  <1>23. ASSUME NEW r \in Requests, GiveUp(r) PROVE NothingOld'
    BY <1>23 DEF GiveUp, Idle, Finish, Resting, NothingOld, TypeOK, LocalState
  <1>24. ASSUME NEW p \in Periods, LockPeriod(p) \/ UnlockPeriod(p) PROVE NothingOld'
    BY <1>24 DEF LockPeriod, UnlockPeriod, NothingOld
  <1>25. CASE UNCHANGED vars
    BY <1>25 DEF vars, NothingOld
  <1> QED
    BY <1>1, <1>2, <1>4, <1>5, <1>6, <1>7, <1>8, <1>9, <1>10, <1>11, <1>12, <1>13, <1>14, <1>15, <1>16, <1>17, <1>18, <1>19, <1>20, <1>21, <1>22, <1>23, <1>24, <1>25
       DEF Next, Handler, Creation, StatusChange, Payment, Posting, Edit, Deletion

LEMMA StepPaymentsPay ==
    ASSUME TypeOK, PaymentsPay, [Next]_vars
    PROVE  PaymentsPay'
  <1>1. ASSUME NEW r \in Requests, NEW row \in Row, CreateBegin(r, row) PROVE PaymentsPay'
    BY <1>1 DEF CreateBegin, Resting, PaymentsPay, TypeOK, LocalState
  <1>2. ASSUME NEW r \in Requests, NEW i \in Invoices, Insert(r, i) PROVE PaymentsPay'
    BY <1>2 DEF Insert, At, Finish, Resting, PaymentsPay, TypeOK, LocalState
  <1>4. ASSUME NEW r \in Requests, NEW i \in Invoices, NEW to \in Statuses, StatusBegin(r, i, to) PROVE PaymentsPay'
    BY <1>4 DEF StatusBegin, Begin, Resting, FirstStep, PaymentsPay, TypeOK, LocalState
  <1>5. ASSUME NEW r \in Requests, SumPayments(r) PROVE PaymentsPay'
    BY <1>5 DEF SumPayments, At, Goto, PaymentsPay, TypeOK, LocalState
  <1>6. ASSUME NEW r \in Requests, FindRevenue(r) PROVE PaymentsPay'
    BY <1>6 DEF FindRevenue, At, AfterRevenue, Goto, Finish, Resting, PaymentsPay, TypeOK, LocalState
  <1>7. ASSUME NEW r \in Requests, PostRevenue(r) PROVE PaymentsPay'
    BY <1>7 DEF PostRevenue, At, AfterRevenue, Goto, Finish, Resting, PaymentsPay, TypeOK, LocalState
  <1>8. ASSUME NEW r \in Requests, FindOriginal(r) PROVE PaymentsPay'
    BY <1>8 DEF FindOriginal, At, Goto, PaymentsPay, TypeOK, LocalState
  <1>9. ASSUME NEW r \in Requests, PostReversal(r) PROVE PaymentsPay'
    BY <1>9 DEF PostReversal, At, Goto, PaymentsPay, TypeOK, LocalState
  <1>10. ASSUME NEW r \in Requests, SetStatus(r) PROVE PaymentsPay'
    BY <1>10 DEF SetStatus, At, Finish, Resting, PaymentsPay, TypeOK, LocalState
  <1>11. ASSUME NEW r \in Requests, NEW i \in Invoices, NEW amount \in Amounts, NEW date \in Periods, PayBegin(r, i, amount, date) PROVE PaymentsPay'
    BY <1>11 DEF PayBegin, Begin, Resting, Amounts, PaymentsPay, TypeOK, LocalState
  <1>12. ASSUME NEW r \in Requests, RecordPayment(r) PROVE PaymentsPay'
    <2>1. request' = [request EXCEPT ![r] = Resting]
      BY <1>12 DEF RecordPayment, PaymentEffects, Finish
    <2> QED BY <2>1 DEF Resting, PaymentsPay, TypeOK
  <1>13. ASSUME NEW r \in Requests, NEW i \in Invoices, PostBegin(r, i) PROVE PaymentsPay'
    BY <1>13 DEF PostBegin, Begin, Resting, PaymentsPay, TypeOK, LocalState
  <1>14. ASSUME NEW r \in Requests, FindDrafts(r) PROVE PaymentsPay'
    BY <1>14 DEF FindDrafts, At, PaymentsPay, TypeOK, LocalState
  <1>15. ASSUME NEW r \in Requests, PostDrafts(r) PROVE PaymentsPay'
    BY <1>15 DEF PostDrafts, At, Finish, Resting, PaymentsPay, TypeOK, LocalState
  <1>16. ASSUME NEW r \in Requests, NEW i \in Invoices, NEW row \in Row, EditBegin(r, i, row) PROVE PaymentsPay'
    BY <1>16 DEF EditBegin, Begin, Resting, PaymentsPay, TypeOK, LocalState
  <1>17. ASSUME NEW r \in Requests, CheckPosted(r) PROVE PaymentsPay'
    BY <1>17 DEF CheckPosted, At, PaymentsPay, TypeOK, LocalState
  <1>18. ASSUME NEW r \in Requests, WriteEdit(r) PROVE PaymentsPay'
    BY <1>18 DEF WriteEdit, At, Finish, Resting, PaymentsPay, TypeOK, LocalState
  <1>19. ASSUME NEW r \in Requests, NEW i \in Invoices, DeleteBegin(r, i) PROVE PaymentsPay'
    BY <1>19 DEF DeleteBegin, Begin, Resting, PaymentsPay, TypeOK, LocalState
  <1>20. ASSUME NEW r \in Requests, CheckEntries(r) PROVE PaymentsPay'
    BY <1>20 DEF CheckEntries, At, PaymentsPay, TypeOK, LocalState
  <1>21. ASSUME NEW r \in Requests, DeleteRows(r) PROVE PaymentsPay'
    BY <1>21 DEF DeleteRows, At, Finish, Resting, PaymentsPay, TypeOK, LocalState
  <1>22. ASSUME NEW r \in Requests, NEW p \in Periods, PassLock(r, p) PROVE PaymentsPay'
    BY <1>22 DEF PassLock, At, PaymentsPay, TypeOK, LocalState
  <1>23. ASSUME NEW r \in Requests, GiveUp(r) PROVE PaymentsPay'
    BY <1>23 DEF GiveUp, Idle, Finish, Resting, PaymentsPay, TypeOK, LocalState
  <1>24. ASSUME NEW p \in Periods, LockPeriod(p) \/ UnlockPeriod(p) PROVE PaymentsPay'
    BY <1>24 DEF LockPeriod, UnlockPeriod, PaymentsPay
  <1>25. CASE UNCHANGED vars
    BY <1>25 DEF vars, PaymentsPay
  <1> QED
    BY <1>1, <1>2, <1>4, <1>5, <1>6, <1>7, <1>8, <1>9, <1>10, <1>11, <1>12, <1>13, <1>14, <1>15, <1>16, <1>17, <1>18, <1>19, <1>20, <1>21, <1>22, <1>23, <1>24, <1>25
       DEF Next, Handler, Creation, StatusChange, Payment, Posting, Edit, Deletion

(* A step that posts has passed the lock of its month, or is a payment.     *)
LEMMA SalesPassLocks ==
    ASSUME TypeOK, ClosedInv, [Next]_vars, NEW p \in locked, volume'[p] # volume[p]
    PROVE  paid' # paid
  <1> USE DEF ClosedInv
  <1>1. volume' # volume
    OBVIOUS
  <1>p. ASSUME NEW j \in Invoices, NEW delta, NEW q \in Periods, PostSale(j, delta, q) PROVE p = q
    BY <1>p DEF PostSale, TypeOK
  <1>3. ASSUME NEW r \in Requests, PostRevenue(r) PROVE FALSE
    <2>1. p = request[r].snap.date
      BY <1>3, <1>p DEF PostRevenue, TypeOK, LocalState, Row
    <2> QED BY <1>3, <2>1 DEF PostRevenue, At, LocksHold, Due
  <1>4. ASSUME NEW r \in Requests, PostReversal(r) PROVE FALSE
    <2>1. p = Today
      BY <1>4, <1>p DEF PostReversal, TypeOK, LocalState
    <2>2. Due(r) = {Today} /\ request[r].check = {}
      BY <1>4 DEF PostReversal, At, Due
    <2> QED BY <2>1, <2>2 DEF LocksHold
  <1>5. ASSUME NEW r \in Requests, PostDrafts(r) \/ DeleteRows(r) PROVE FALSE
    BY <1>5 DEF PostDrafts, DeleteRows, At, NothingOld
  <1>6. ASSUME NEW r \in Requests, RecordPayment(r) PROVE paid' # paid
    <2> DEFINE i == request[r].inv
               amount == request[r].amount
    <2>1. i \in Invoices /\ amount \in Nat /\ amount > 0 /\ paid[i] \in Nat
      BY <1>6 DEF RecordPayment, At, PaymentsPay, TypeOK, LocalState
    <2>2. paid' = [paid EXCEPT ![i] = paid[i] + amount]
      BY <1>6 DEF RecordPayment, PaymentEffects
    <2> HIDE DEF i, amount
    <2>3. paid'[i] = paid[i] + amount
      BY <2>1, <2>2 DEF TypeOK
    <2> QED BY <2>1, <2>3
  <1>7. ASSUME NEW r \in Requests, (\E i \in Invoices : Insert(r, i)) \/ SetStatus(r) \/ WriteEdit(r)
        PROVE  FALSE
    BY <1>1, <1>7 DEF Insert, SetStatus, WriteEdit
  <1>8. UNCHANGED volume \/ \E r \in Requests : Writes(r)
    BY NextCases
  <1> QED BY <1>1, <1>3, <1>4, <1>5, <1>6, <1>7, <1>8 DEF Writes

(* Months locked while no handler is in progress take no sale and no         *)
(* reversal, by any number of handlers that overlap as they like, once there *)
(* are no invoices of before the drafts were introduced (period-lock.service *)
(* and the routes that ask it).                                             *)
THEOREM ClosedMonthsStayClosed ==
    ASSUME LocksAtRest, OldInvoices = {}
    PROVE  Spec => ClosedMonthsTakeNoSales
  <1>1. Init => ClosedInv
    BY InitClosedInv
  <1>2. TypeInv /\ ClosedInv /\ [Next]_vars => ClosedInv'
    BY StepLocksHold, StepNothingOld, StepPaymentsPay DEF TypeInv, ClosedInv
  <1>3. TypeInv /\ ClosedInv /\ [Next]_vars =>
           [\A p \in locked : volume'[p] # volume[p] => paid' # paid]_vars
    BY SalesPassLocks DEF TypeInv
  <1> QED BY InitTypeInv, StepTypeInv, <1>1, <1>2, <1>3, PTL DEF Spec, ClosedMonthsTakeNoSales

-----------------------------------------------------------------------------
(* Which revenue an invoice shows, while no two handlers are on it at once.  *)

Voided == {"void", "cancelled"}

On(r, i) == request[r].inv = i /\ request[r].step \notin {"idle", "insert"}

(* Handlers of different invoices may overlap as they like.                 *)
Apart == \A r, q \in Requests : \A i \in Invoices : On(r, i) /\ On(q, i) => r = q

Unrecognised(i) == ledger[i].posted = 0 /\ ledger[i].sales = 0

Recognised(i) ==
    /\ ledger[i].posted = 1 /\ ledger[i].sales = invoice[i].total
    /\ Exists(i) /\ (invoice[i].status \in Voided => i \in dictated)

Reversed(i) == ledger[i].posted = 2 /\ ledger[i].sales = 0

(* Between the reversal and the status a handler stands before the status.  *)
Voiding(i) ==
    \E r \in Requests :
        On(r, i) /\ request[r].step = "setStatus" /\ request[r].target \in Voided

InvoiceOK(i) ==
    /\ ledger[i].draft = 0 /\ invoice[i].status # "deleted"
    /\ invoice[i].status = "absent" => ledger[i] = NoEntries
    /\ \/ Unrecognised(i) \/ Recognised(i)
       \/ Reversed(i) /\ (invoice[i].status \in Voided \/ Voiding(i))

(* What a handler read of its invoice is still so, and what it found in the  *)
(* ledger is still there.                                                   *)
Knows(r) ==
    LET local == request[r]  i == local.inv IN
    /\ Exists(i) /\ local.snap = invoice[i]
    /\ local.step \in {"sumPayments", "setStatus", "findOriginal", "postReversal",
                       "findRevenue", "postRevenue", "checkPosted", "writeEdit"} =>
          invoice[i].status \notin Voided
    /\ local.step = "sumPayments" => local.target = "paid"
    /\ local.step \in {"findOriginal", "postReversal"} => local.target \in Voided
    /\ local.step \in {"findDrafts", "findRevenue", "postRevenue"} => local.target \notin Voided
    /\ local.step = "postRevenue" => ledger[i].posted = 0
    /\ local.step = "postReversal" => ledger[i].posted = 1
    /\ local.step = "setStatus" /\ local.target \in Voided => ledger[i].posted # 1
    /\ local.step = "setStatus" /\ local.target \notin Voided => ledger[i].posted # 2
    /\ local.step = "writeEdit" /\ ledger[i].posted > 0 => local.edit.total = local.snap.total
    /\ local.step \in {"checkPosted", "writeEdit"} => local.edit.status # "deleted"
    /\ local.step \notin {"postDrafts", "checkEntries", "deleteRows"}

HandlerOK(r) ==
    /\ request[r].step = "insert" => request[r].edit.status \in Statuses
    /\ request[r].step \notin {"idle", "insert"} => Knows(r)

RevenueInv ==
    /\ \A i \in Invoices : InvoiceOK(i)
    /\ \A r \in Requests : HandlerOK(r)

(* What the theorems below are about: AED invoices, none of them old, and no *)
(* handler that dies between a reversal and its status.                     *)
PlainBooks == Rates = {1} /\ OldInvoices = {} /\ CrashTargets \cap Voided = {}

LEMMA InitRevenueInv == PlainBooks /\ Init => RevenueInv
  <1> SUFFICES ASSUME PlainBooks, Init PROVE RevenueInv
    OBVIOUS
  <1>1. \A i \in Invoices : ledger[i] = NoEntries /\ invoice[i].status = "absent"
    BY DEF Init, PlainBooks, ARow
  <1>2. Resting.step = "idle"
    BY DEF Resting
  <1>3. \A r \in Requests : request[r].step = "idle"
    BY <1>2 DEF Init
  <1>4. \A i \in Invoices : InvoiceOK(i)
    BY <1>1 DEF InvoiceOK, NoEntries, Unrecognised
  <1>5. \A r \in Requests : HandlerOK(r)
    BY <1>3 DEF HandlerOK
  <1> QED BY <1>4, <1>5 DEF RevenueInv

(* A step of r, on invoice i if it changes any, leaves the others' knowledge *)
(* true.                                                                    *)
Frame(r, i) ==
    /\ \A q \in Requests \ {r} : request'[q] = request[q]
    /\ \A j \in Invoices \ {i} : /\ invoice'[j] = invoice[j] /\ ledger'[j] = ledger[j]
                                 /\ j \in dictated => j \in dictated'
    /\ \/ invoice'[i] = invoice[i] /\ ledger'[i] = ledger[i]
       \/ On(r, i)
       \/ invoice[i].status = "absent"

LEMMA OthersKnow ==
    ASSUME TypeOK, RevenueInv, Apart, NEW r \in Requests, NEW i \in Invoices, Frame(r, i)
    PROVE  \A q \in Requests \ {r} : HandlerOK(q)'
  <1> SUFFICES ASSUME NEW q \in Requests \ {r} PROVE HandlerOK(q)'
    OBVIOUS
  <1>1. request'[q] = request[q] /\ HandlerOK(q) /\ request[q].inv \in Invoices
    BY DEF Frame, RevenueInv, TypeOK, LocalState
  <1>2. ASSUME Knows(q), request[q].step \notin {"idle", "insert"} PROVE Knows(q)'
    <2> DEFINE j == request[q].inv
    <2>1. On(q, j) /\ Exists(j)
      BY <1>2 DEF On, Knows
    <2>2. ~On(r, j)
      BY <1>1, <2>1 DEF Apart
    <2>3. invoice'[j] = invoice[j] /\ ledger'[j] = ledger[j]
      BY <1>1, <2>1, <2>2 DEF Frame, Exists
    <2> QED BY <1>1, <1>2, <2>3 DEF Knows, Exists
  <1> QED BY <1>1, <1>2 DEF HandlerOK

(* The invoices r is not on keep their revenue, and what explains it.       *)
LEMMA OthersStay ==
    ASSUME TypeOK, RevenueInv, NEW r \in Requests, NEW i \in Invoices, Frame(r, i),
           NEW j \in Invoices, ~On(r, j),
           j # i \/ (/\ invoice'[i] = invoice[i] /\ ledger'[i] = ledger[i]
                     /\ i \in dictated => i \in dictated')
    PROVE  InvoiceOK(j)'
  <1>1. /\ invoice'[j] = invoice[j] /\ ledger'[j] = ledger[j] /\ InvoiceOK(j)
        /\ j \in dictated => j \in dictated'
    BY DEF Frame, RevenueInv
  <1>2. Voiding(j) => Voiding(j)'
    BY DEF Voiding, On, Frame
  <1> QED BY <1>1, <1>2 DEF InvoiceOK, Unrecognised, Recognised, Reversed, Exists

(* A step that changes no table.                                            *)
LEMMA LocalStep ==
    ASSUME TypeOK, RevenueInv, Apart, NEW r \in Requests,
           UNCHANGED <<invoice, ledger, dictated>>,
           \A q \in Requests \ {r} : request'[q] = request[q],
           request[r].step = "setStatus" => request[r].target \notin Voided,
           HandlerOK(r)'
    PROVE  RevenueInv'
  <1>1. \A i \in Invoices : Frame(r, i)
    BY DEF Frame
  <1>2. \A q \in Requests : HandlerOK(q)'
    BY <1>1, OthersKnow, LifecycleAssumption
  <1>3. ASSUME NEW j \in Invoices PROVE InvoiceOK(j)'
    <2>1. InvoiceOK(j)
      BY DEF RevenueInv
    <2>2. Voiding(j) => Voiding(j)'
      BY DEF Voiding, On
    <2> QED BY <2>1, <2>2 DEF InvoiceOK, Unrecognised, Recognised, Reversed, Exists
  <1> QED BY <1>2, <1>3 DEF RevenueInv

(* A step of r that writes its invoice, and leaves it in order.             *)
LEMMA WritingStep ==
    ASSUME TypeOK, RevenueInv, Apart, NEW r \in Requests, NEW i \in Invoices, Frame(r, i),
           \A j \in Invoices : On(r, j) => j = i,
           HandlerOK(r)', InvoiceOK(i)'
    PROVE  RevenueInv'
  <1>1. \A q \in Requests : HandlerOK(q)'
    BY OthersKnow
  <1>2. \A j \in Invoices : InvoiceOK(j)'
    BY OthersStay
  <1> QED BY <1>1, <1>2 DEF RevenueInv

(* An invoice that is neither voided nor being voided has not been reversed. *)
LEMMA NotReversed ==
    ASSUME RevenueInv, Apart, NEW r \in Requests, NEW i \in Invoices, On(r, i),
           request[r].step = "setStatus" => request[r].target \notin Voided,
           invoice[i].status \notin Voided
    PROVE  Unrecognised(i) \/ Recognised(i)
  <1>1. ~Voiding(i)
    BY DEF Voiding, Apart
  <1> QED BY <1>1 DEF RevenueInv, InvoiceOK

(* A handler that goes from one step to another one without touching tables. *)
LEMMA MovingStep ==
    ASSUME TypeOK, RevenueInv, Apart, NEW r \in Requests, NEW local,
           UNCHANGED <<invoice, ledger, dictated>>,
           request' = [request EXCEPT ![r] = local],
           request[r].step = "setStatus" => request[r].target \notin Voided,
           HandlerOK(r)'
    PROVE  RevenueInv'
  <1>1. \A q \in Requests \ {r} : request'[q] = request[q]
    BY DEF TypeOK
  <1> QED BY <1>1, LocalStep

(* A handler that starts on the invoice it read.                            *)
LEMMA StartingStep ==
    ASSUME TypeOK, RevenueInv, Apart, Apart', NEW r \in Requests, NEW i \in Invoices, NEW local,
           UNCHANGED <<invoice, ledger, dictated>>, Begin(r, i, local), Exists(i),
           local.step \notin {"idle", "insert", "postRevenue", "postReversal",
                              "writeEdit", "postDrafts", "checkEntries", "deleteRows"},
           local.step \in {"sumPayments", "setStatus", "findOriginal", "findRevenue",
                           "checkPosted"} =>
               invoice[i].status \notin Voided,
           local.step = "sumPayments" => local.target = "paid",
           local.step = "findOriginal" => local.target \in Voided,
           local.step \in {"findDrafts", "findRevenue", "setStatus"} => local.target \notin Voided,
           local.step = "checkPosted" => local.edit.status # "deleted",
           DOMAIN local = DOMAIN Resting
    PROVE  RevenueInv'
  <1> DEFINE begun == [local EXCEPT !.inv = i, !.snap = invoice[i]]
  <1>1. begun.inv = i /\ begun.snap = invoice[i] /\ begun.step = local.step
        /\ begun.target = local.target /\ begun.edit = local.edit
    BY DEF Resting
  <1>2. request' = [request EXCEPT ![r] = begun] /\ request'[r] = begun
    BY DEF Begin, TypeOK
  <1> HIDE DEF begun
  <1>3. On(r, i)'
    BY <1>1, <1>2 DEF On
  <1>4. local.step = "setStatus" => ledger[i].posted # 2
    <2>1. ASSUME local.step = "setStatus", Reversed(i) PROVE FALSE
      <3>1. Voiding(i)
        BY <2>1 DEF RevenueInv, InvoiceOK, Unrecognised, Recognised, Reversed
      <3>2. PICK q \in Requests : On(q, i) /\ request[q].step = "setStatus"
        BY <3>1 DEF Voiding
      <3>3. q # r
        BY <3>2 DEF Begin, Idle
      <3>4. On(q, i)'
        BY <1>2, <3>2, <3>3 DEF On, TypeOK
      <3> QED BY <1>3, <3>3, <3>4 DEF Apart
    <2> QED BY <2>1 DEF RevenueInv, InvoiceOK, Unrecognised, Recognised
  <1>5. HandlerOK(r)'
    BY <1>1, <1>2, <1>4 DEF HandlerOK, Knows, Exists
  <1>6. request[r].step # "setStatus"
    BY DEF Begin, Idle
  <1> QED BY <1>2, <1>5, <1>6, MovingStep

LEMMA FinishOK ==
    ASSUME TypeOK, NEW r \in Requests, Finish(r)
    PROVE  HandlerOK(r)' /\ (\A q \in Requests \ {r} : request'[q] = request[q])
  <1>1. Resting.step = "idle"
    BY DEF Resting
  <1> QED BY <1>1 DEF Finish, TypeOK, HandlerOK

(* A posting of r's invoice, seen from outside.                             *)
LEMMA SaleFrame ==
    ASSUME TypeOK, NEW r \in Requests, NEW i \in Invoices, On(r, i), NEW delta, NEW p,
           PostSale(i, delta, p), UNCHANGED <<invoice, dictated>>,
           \A q \in Requests \ {r} : request'[q] = request[q]
    PROVE  /\ Frame(r, i)
           /\ \A j \in Invoices : On(r, j) => j = i
           /\ ledger'[i].posted = ledger[i].posted + 1
           /\ ledger'[i].sales = ledger[i].sales + delta
           /\ ledger'[i].draft = ledger[i].draft
  <1>1. \A j \in Invoices \ {i} : ledger'[j] = ledger[j]
    BY DEF PostSale, TypeOK
  <1>2. /\ ledger'[i].posted = ledger[i].posted + 1
        /\ ledger'[i].sales = ledger[i].sales + delta
        /\ ledger'[i].draft = ledger[i].draft
    BY DEF PostSale, TypeOK, LedgerRow
  <1>3. \A j \in Invoices : On(r, j) => j = i
    BY DEF On
  <1> QED BY <1>1, <1>2, <1>3 DEF Frame

LEMMA StepRevenueInv ==
    ASSUME PlainBooks, TypeOK, TargetsAreStatuses, NothingOld, RevenueInv, Apart, Apart',
           [Next]_vars
    PROVE  RevenueInv'
  <1>r. \A r \in Requests : /\ request[r] \in LocalState /\ request[r].inv \in Invoices
                            /\ HandlerOK(r)
    BY DEF TypeOK, LocalState, RevenueInv
  <1>1. ASSUME NEW r \in Requests, NEW row \in Row, CreateBegin(r, row) PROVE RevenueInv'
    <2> DEFINE local == [Resting EXCEPT !.step = "insert", !.edit = row, !.check = {row.date}]
    <2>1. request' = [request EXCEPT ![r] = local] /\ UNCHANGED <<invoice, ledger, dictated>>
      BY <1>1, <1>r DEF CreateBegin
    <2>2. HandlerOK(r)'
      <3>1. row.status \in Statuses
        BY <1>1 DEF CreateBegin, Statuses
      <3>2. request'[r].step = "insert" /\ request'[r].edit = row
        BY <2>1 DEF Resting, TypeOK
      <3> QED BY <3>1, <3>2 DEF HandlerOK
    <2>3. request[r].step # "setStatus"
      BY <1>1 DEF CreateBegin, Idle
    <2> HIDE DEF local
    <2> QED BY <2>1, <2>2, <2>3, MovingStep
  <1>2. ASSUME NEW r \in Requests, NEW i \in Invoices, Insert(r, i) PROVE RevenueInv'
    <2>1. /\ request[r].step = "insert" /\ invoice[i].status = "absent"
          /\ request[r].edit.status \in Statuses
      BY <1>2, <1>r DEF Insert, At, HandlerOK
    <2>2. \A q \in Requests \ {r} : request'[q] = request[q]
      BY <1>2 DEF Insert, Finish, TypeOK
    <2>3. /\ Frame(r, i)
          /\ invoice'[i] = request[r].edit /\ ledger' = ledger
      BY <1>2, <2>1, <2>2 DEF Insert, Frame, TypeOK
    <2>4. ledger[i] = NoEntries
      BY <2>1 DEF RevenueInv, InvoiceOK
    <2>5. InvoiceOK(i)'
      BY <2>1, <2>3, <2>4 DEF InvoiceOK, NoEntries, Unrecognised, Statuses
    <2>6. HandlerOK(r)'
      BY <1>2, FinishOK DEF Insert
    <2>7. \A j \in Invoices : On(r, j) => j = i
      BY <2>1 DEF On
    <2> QED BY <2>3, <2>5, <2>6, <2>7, WritingStep
  <1>4. ASSUME NEW r \in Requests, NEW i \in Invoices, NEW to \in Statuses, StatusBegin(r, i, to) PROVE RevenueInv'
    <2> DEFINE local == [Resting EXCEPT
          !.step = FirstStep(invoice[i].status, to), !.target = to,
          !.check = IF to = "paid" \/ Issues(invoice[i].status, to)
                    THEN {invoice[i].date} ELSE {}]
    <2>1. /\ Begin(r, i, local) /\ Exists(i) /\ UNCHANGED <<invoice, ledger, dictated>>
          /\ DOMAIN local = DOMAIN Resting
          /\ local.step = FirstStep(invoice[i].status, to) /\ local.target = to
          /\ CanTransition(invoice[i].status, to) /\ invoice[i].status # to
      BY <1>4 DEF StatusBegin, Resting
    <2> HIDE DEF local
    <2>2. invoice[i].status \in Statuses
      BY <2>1 DEF TypeOK, Row, RowStates, Exists
    <2>3. invoice[i].status \notin Voided
      BY <2>1, <2>2 DEF CanTransition, Transitions, Voided, Statuses
    <2>4. local.step \in {"sumPayments", "findRevenue", "findOriginal", "setStatus"}
      BY <2>1 DEF FirstStep
    <2>5. /\ local.step = "sumPayments" => local.target = "paid"
          /\ local.step = "findOriginal" => local.target \in Voided
          /\ local.step \in {"findRevenue", "setStatus"} => local.target \notin Voided
      BY <2>1 DEF FirstStep, Issues, Voided
    <2> QED BY <2>1, <2>3, <2>4, <2>5, StartingStep
  <1>5. ASSUME NEW r \in Requests, SumPayments(r) PROVE RevenueInv'
    <2>i. PICK i \in Invoices : i = request[r].inv
      BY <1>r
    <2>1. /\ i \in Invoices /\ On(r, i) /\ Exists(i) /\ request[r].snap = invoice[i]
          /\ invoice[i].status \notin Voided /\ request[r].target = "paid"
          /\ request[r].step = "sumPayments"
      BY <1>5, <1>r, <2>i DEF SumPayments, At, On, HandlerOK, Knows
    <2>2. PICK local : /\ request' = [request EXCEPT ![r] = local]
                       /\ local.step \in {"recordPayment", "setStatus"} /\ local.inv = i
                       /\ local.snap = request[r].snap /\ local.target = request[r].target
      <3>1. CASE Goto(r, "setStatus")
        <4> DEFINE moved == [request[r] EXCEPT !.step = "setStatus"]
        <4>1. request' = [request EXCEPT ![r] = moved]
          BY <3>1 DEF Goto, TypeOK
        <4>2. /\ moved.inv = i /\ moved.snap = request[r].snap
              /\ moved.target = request[r].target
              /\ moved.step = "setStatus"
          BY <1>r, <2>i DEF LocalState
        <4> HIDE DEF moved
        <4> QED BY <4>1, <4>2
      <3>2. ASSUME NEW remaining, request' = [request EXCEPT ![r].step = "recordPayment", ![r].amount = remaining]
            PROVE \E local : /\ request' = [request EXCEPT ![r] = local]
                       /\ local.step \in {"recordPayment", "setStatus"} /\ local.inv = i
                       /\ local.snap = request[r].snap /\ local.target = request[r].target
        <4> DEFINE moved == [request[r] EXCEPT !.step = "recordPayment", !.amount = remaining]
        <4>1. request' = [request EXCEPT ![r] = moved]
          BY <3>2 DEF TypeOK
        <4>2. /\ moved.inv = i /\ moved.snap = request[r].snap
              /\ moved.target = request[r].target
              /\ moved.step = "recordPayment"
          BY <1>r, <2>i DEF LocalState
        <4> HIDE DEF moved
        <4> QED BY <4>1, <4>2
      <3> QED BY <1>5, <3>1, <3>2 DEF SumPayments
    <2>3. UNCHANGED <<invoice, ledger, dictated>>
      BY <1>5 DEF SumPayments
    <2>4. Unrecognised(i) \/ Recognised(i)
      BY <2>1, NotReversed
    <2>5. HandlerOK(r)'
      <3>1. request'[r] = local
        BY <2>2 DEF TypeOK
      <3> QED BY <2>1, <2>2, <2>3, <2>4, <3>1 DEF HandlerOK, Knows, Exists, Unrecognised, Recognised, Voided
    <2> QED BY <2>1, <2>2, <2>3, <2>5, MovingStep
  <1>6. ASSUME NEW r \in Requests, FindRevenue(r) PROVE RevenueInv'
    <2>i. PICK i \in Invoices : i = request[r].inv
      BY <1>r
    <2>1. /\ i \in Invoices /\ On(r, i) /\ Exists(i) /\ request[r].snap = invoice[i]
          /\ invoice[i].status \notin Voided /\ request[r].target \notin Voided
          /\ request[r].step = "findRevenue"
      BY <1>6, <1>r, <2>i DEF FindRevenue, At, On, HandlerOK, Knows
    <2>2. UNCHANGED <<invoice, ledger, dictated>>
      BY <1>6 DEF FindRevenue
    <2>3. Unrecognised(i) \/ Recognised(i)
      BY <2>1, NotReversed
    <2>4. CASE Finish(r)
      <3>1. HandlerOK(r)' /\ (\A q \in Requests \ {r} : request'[q] = request[q])
        BY <2>4, FinishOK
      <3> QED BY <2>1, <2>2, <3>1, LocalStep
    <2>5. CASE \/ Goto(r, "setStatus")
               \/ Goto(r, "postRevenue") /\ ~(ledger[i].posted > 0)
      <3>1. PICK step \in {"setStatus", "postRevenue"} :
               /\ request' = [request EXCEPT ![r] = [request[r] EXCEPT !.step = step]]
               /\ step = "postRevenue" => ~(ledger[i].posted > 0)
        BY <2>5 DEF Goto, TypeOK
      <3> DEFINE local == [request[r] EXCEPT !.step = step]
      <3>2. /\ local.step = step /\ local.inv = i
            /\ local.snap = request[r].snap /\ local.target = request[r].target
        BY <1>r, <2>i DEF LocalState
      <3>3. request' = [request EXCEPT ![r] = local] /\ request'[r] = local
        BY <3>1 DEF TypeOK
      <3> HIDE DEF local
      <3>4. step = "postRevenue" => ledger[i].posted = 0
        BY <2>3, <3>1 DEF Unrecognised, Recognised
      <3>5. HandlerOK(r)'
        BY <2>1, <2>2, <2>3, <3>2, <3>3, <3>4 DEF HandlerOK, Knows, Exists, Unrecognised, Recognised
      <3> QED BY <2>1, <2>2, <3>3, <3>5, MovingStep
    <2> QED BY <1>6, <2>i, <2>4, <2>5 DEF FindRevenue, AfterRevenue
  <1>7. ASSUME NEW r \in Requests, PostRevenue(r) PROVE RevenueInv'
    <2>i. PICK i \in Invoices : i = request[r].inv
      BY <1>r
    <2> DEFINE snap == request[r].snap
               delta == snap.total * snap.rate
    <2>1. /\ i \in Invoices /\ On(r, i) /\ Exists(i) /\ snap = invoice[i]
          /\ invoice[i].status \notin Voided /\ ledger[i].posted = 0
          /\ request[r].target \notin Voided
      BY <1>7, <1>r, <2>i DEF PostRevenue, At, On, HandlerOK, Knows
    <2>2. PostSale(i, delta, snap.date) /\ UNCHANGED <<invoice, dictated>> /\ AfterRevenue(r)
      BY <1>7, <2>i DEF PostRevenue
    <2>3. delta = invoice[i].total /\ delta \in Nat
      <3>1. snap \in Row /\ snap.rate = 1
        BY <2>1 DEF TypeOK, Row, PlainBooks
      <3>2. snap.total \in Nat
        BY <3>1, RowNumbers
      <3> QED BY <2>1, <3>1, <3>2
    <2> HIDE DEF delta
    <2>4. ledger[i].sales = 0 /\ ledger[i].draft = 0
      BY <2>1 DEF RevenueInv, InvoiceOK, Unrecognised, Recognised, Reversed
    <2>5. \A q \in Requests \ {r} : request'[q] = request[q]
      BY <2>2 DEF AfterRevenue, Finish, Goto, TypeOK
    <2>6. /\ Frame(r, i) /\ (\A j \in Invoices : On(r, j) => j = i)
          /\ ledger'[i].posted = 1 /\ ledger'[i].sales = delta /\ ledger'[i].draft = 0
      BY <2>1, <2>2, <2>3, <2>4, <2>5, SaleFrame
    <2>7. InvoiceOK(i)'
      BY <2>1, <2>2, <2>3, <2>6 DEF InvoiceOK, Recognised, Exists
    <2>8. HandlerOK(r)'
      <3>1. CASE Finish(r)
        BY <3>1, FinishOK
      <3>2. CASE Goto(r, "setStatus")
        <4>1. /\ request'[r].step = "setStatus" /\ request'[r].inv = i
              /\ request'[r].snap = snap /\ request'[r].target = request[r].target
          BY <1>r, <2>i, <3>2 DEF Goto, TypeOK, LocalState
        <4> QED BY <2>1, <2>2, <2>6, <4>1 DEF HandlerOK, Knows, Exists
      <3> QED BY <2>2, <3>1, <3>2 DEF AfterRevenue
    <2> QED BY <2>1, <2>6, <2>7, <2>8, WritingStep
  <1>8. ASSUME NEW r \in Requests, FindOriginal(r) PROVE RevenueInv'
    <2>i. PICK i \in Invoices : i = request[r].inv
      BY <1>r
    <2>1. /\ i \in Invoices /\ On(r, i) /\ Exists(i) /\ request[r].snap = invoice[i]
          /\ invoice[i].status \notin Voided /\ request[r].target \in Voided
          /\ request[r].step = "findOriginal"
      BY <1>8, <1>r, <2>i DEF FindOriginal, At, On, HandlerOK, Knows
    <2>2. UNCHANGED <<invoice, ledger, dictated>>
      BY <1>8 DEF FindOriginal
    <2>3. Unrecognised(i) \/ Recognised(i)
      BY <2>1, NotReversed
    <2>4. PICK local : /\ request' = [request EXCEPT ![r] = local]
                       /\ local.step = IF ledger[i].posted > 0 THEN "postReversal" ELSE "setStatus"
                       /\ local.inv = i
                       /\ local.snap = request[r].snap /\ local.target = request[r].target
      <3>1. CASE ledger[i].posted > 0
        <4> DEFINE moved == [request[r] EXCEPT !.step = "postReversal", !.check = {Today}]
        <4>1. request' = [request EXCEPT ![r] = moved]
          BY <1>8, <2>i, <3>1 DEF FindOriginal, TypeOK
        <4>2. /\ moved.inv = i /\ moved.snap = request[r].snap
              /\ moved.target = request[r].target
              /\ moved.step = "postReversal"
          BY <1>r, <2>i DEF LocalState
        <4> HIDE DEF moved
        <4> QED BY <4>1, <4>2, <3>1
      <3>2. CASE ~(ledger[i].posted > 0)
        <4> DEFINE moved == [request[r] EXCEPT !.step = "setStatus"]
        <4>1. request' = [request EXCEPT ![r] = moved]
          BY <1>8, <2>i, <3>2 DEF FindOriginal, Goto, TypeOK
        <4>2. /\ moved.inv = i /\ moved.snap = request[r].snap
              /\ moved.target = request[r].target
              /\ moved.step = "setStatus"
          BY <1>r, <2>i DEF LocalState
        <4> HIDE DEF moved
        <4> QED BY <4>1, <4>2, <3>2
      <3> QED BY <3>1, <3>2
    <2>5. request'[r] = local
      BY <2>4 DEF TypeOK
    <2>6. HandlerOK(r)'
      BY <2>1, <2>2, <2>3, <2>4, <2>5 DEF HandlerOK, Knows, Exists, Unrecognised, Recognised
    <2> QED BY <2>1, <2>2, <2>4, <2>6, MovingStep
  <1>9. ASSUME NEW r \in Requests, PostReversal(r) PROVE RevenueInv'
    <2>i. PICK i \in Invoices : i = request[r].inv
      BY <1>r
    <2> DEFINE total == request[r].snap.total
    <2>1. /\ i \in Invoices /\ On(r, i) /\ Exists(i) /\ request[r].snap = invoice[i]
          /\ invoice[i].status \notin Voided /\ ledger[i].posted = 1
          /\ request[r].target \in Voided
      BY <1>9, <1>r, <2>i DEF PostReversal, At, On, HandlerOK, Knows
    <2>2. PostSale(i, -total, Today) /\ Goto(r, "setStatus") /\ UNCHANGED <<invoice, dictated>>
      BY <1>9, <2>i DEF PostReversal
    <2>3. total = invoice[i].total /\ total \in Nat
      BY <2>1, RowNumbers DEF TypeOK
    <2>9. request'[r].step = "setStatus" /\ request'[r].inv = i
          /\ request'[r].snap = request[r].snap /\ request'[r].target = request[r].target
      BY <1>r, <2>i, <2>2 DEF Goto, TypeOK, LocalState
    <2> HIDE DEF total
    <2>4. ledger[i].sales = total /\ ledger[i].draft = 0
      BY <2>1, <2>3 DEF RevenueInv, InvoiceOK, Unrecognised, Recognised, Reversed
    <2>5. \A q \in Requests \ {r} : request'[q] = request[q]
      BY <2>2 DEF Goto, TypeOK
    <2>6. /\ Frame(r, i) /\ (\A j \in Invoices : On(r, j) => j = i)
          /\ ledger'[i].posted = 2 /\ ledger'[i].sales = 0 /\ ledger'[i].draft = 0
      BY <2>1, <2>2, <2>3, <2>4, <2>5, SaleFrame
    <2>7. InvoiceOK(i)'
      <3>1. Voiding(i)'
        BY <2>1, <2>9 DEF Voiding, On
      <3> QED BY <2>1, <2>2, <2>6, <3>1 DEF InvoiceOK, Reversed, Exists
    <2>8. HandlerOK(r)'
      BY <2>1, <2>2, <2>6, <2>9 DEF HandlerOK, Knows, Exists
    <2> QED BY <2>1, <2>6, <2>7, <2>8, WritingStep
  <1>10. ASSUME NEW r \in Requests, SetStatus(r) PROVE RevenueInv'
    <2>i. PICK i \in Invoices : i = request[r].inv
      BY <1>r
    <2> DEFINE target == request[r].target
    <2>1. /\ i \in Invoices /\ On(r, i) /\ Exists(i) /\ request[r].step = "setStatus"
          /\ invoice[i].status \notin Voided
          /\ target \in Voided => ledger[i].posted # 1
          /\ target \notin Voided => ledger[i].posted # 2
          /\ target \in Statuses
      BY <1>10, <1>r, <2>i DEF SetStatus, At, On, HandlerOK, Knows, TargetsAreStatuses
    <2>2. /\ invoice' = [invoice EXCEPT ![i].status = target] /\ ledger' = ledger /\ Finish(r)
          /\ dictated' = dictated \ {i}
      BY <1>10, <2>i, <2>1 DEF SetStatus
    <2> HIDE DEF target
    <2>3. HandlerOK(r)' /\ (\A q \in Requests \ {r} : request'[q] = request[q])
      BY <2>2, FinishOK
    <2>4. /\ invoice'[i].status = target /\ invoice'[i].total = invoice[i].total
          /\ \A j \in Invoices \ {i} : invoice'[j] = invoice[j]
      BY <2>1, <2>2 DEF TypeOK, Row
    <2>5. Frame(r, i) /\ (\A j \in Invoices : On(r, j) => j = i)
      BY <2>1, <2>2, <2>3, <2>4 DEF Frame, On
    <2>6. target # "absent" /\ target # "deleted"
      BY <2>1 DEF Statuses
    <2>7. InvoiceOK(i)'
      <3>1. ledger[i].draft = 0 /\ (Unrecognised(i) \/ Recognised(i) \/ Reversed(i))
        BY <2>1 DEF RevenueInv, InvoiceOK
      <3> QED BY <2>1, <2>2, <2>4, <2>6, <3>1 DEF InvoiceOK, Unrecognised, Recognised, Reversed, Exists
    <2> QED BY <2>1, <2>3, <2>5, <2>7, WritingStep
  <1>11. ASSUME NEW r \in Requests, NEW i \in Invoices, NEW amount \in Amounts, NEW date \in Periods, PayBegin(r, i, amount, date) PROVE RevenueInv'
    <2> DEFINE local == [Resting EXCEPT !.step = "recordPayment", !.amount = amount,
                                   !.date = date, !.check = {date}]
    <2>1. /\ Begin(r, i, local) /\ Exists(i) /\ UNCHANGED <<invoice, ledger, dictated>>
          /\ DOMAIN local = DOMAIN Resting
          /\ local.step = "recordPayment"
      BY <1>11 DEF PayBegin, Resting
    <2> HIDE DEF local
    <2> QED BY <2>1, StartingStep
  <1>12. ASSUME NEW r \in Requests, RecordPayment(r) PROVE RevenueInv'
    <2>i. PICK i \in Invoices : i = request[r].inv
      BY <1>r
    <2> DEFINE status == StatusFromPayments(invoice[i].status, invoice[i].total,
                                            paid[i] + request[r].amount)
    <2>1. /\ i \in Invoices /\ On(r, i) /\ Exists(i) /\ ~IsTerminal(invoice[i].status)
          /\ request[r].step = "recordPayment"
      BY <1>12, <1>r, <2>i DEF RecordPayment, At, On
    <2>2. /\ invoice' = [invoice EXCEPT ![i].status = status] /\ Finish(r)
          /\ dictated' = dictated \ {i}
          /\ ledger' = [ledger EXCEPT ![i].cash = ledger[i].cash + request[r].amount * invoice[i].rate]
      BY <1>12, <2>i DEF RecordPayment, PaymentEffects
    <2>3. status \notin Voided /\ status # "absent" /\ status # "deleted"
          /\ invoice[i].status \notin Voided
      BY <2>1 DEF StatusFromPayments, IsTerminal, Voided, Exists
    <2> HIDE DEF status
    <2>4. HandlerOK(r)' /\ (\A q \in Requests \ {r} : request'[q] = request[q])
      BY <2>2, FinishOK
    <2>5. /\ invoice'[i].status = status /\ invoice'[i].total = invoice[i].total
          /\ \A j \in Invoices \ {i} : invoice'[j] = invoice[j] /\ ledger'[j] = ledger[j]
      BY <2>1, <2>2 DEF TypeOK, Row
    <2>6. /\ ledger'[i].draft = ledger[i].draft /\ ledger'[i].posted = ledger[i].posted
          /\ ledger'[i].sales = ledger[i].sales
      BY <2>1, <2>2 DEF TypeOK, LedgerRow
    <2>7. Frame(r, i) /\ (\A j \in Invoices : On(r, j) => j = i)
      BY <2>1, <2>2, <2>4, <2>5 DEF Frame, On
    <2>8. InvoiceOK(i)'
      <3>1. ledger[i].draft = 0
        BY <2>1 DEF RevenueInv, InvoiceOK
      <3>2. Unrecognised(i) \/ Recognised(i)
        BY <2>1, <2>3, NotReversed
      <3> QED BY <2>3, <2>5, <2>6, <3>1, <3>2 DEF InvoiceOK, Unrecognised, Recognised, Exists
    <2> QED BY <2>1, <2>4, <2>7, <2>8, WritingStep
  <1>13. ASSUME NEW r \in Requests, NEW i \in Invoices, PostBegin(r, i) PROVE RevenueInv'
    <2> DEFINE local == [Resting EXCEPT !.step = "findDrafts"]
    <2>1. /\ Begin(r, i, local) /\ Exists(i) /\ UNCHANGED <<invoice, ledger, dictated>>
          /\ DOMAIN local = DOMAIN Resting
          /\ local.step = "findDrafts" /\ local.target = "absent"
      BY <1>13 DEF PostBegin, Resting
    <2> HIDE DEF local
    <2> QED BY <2>1, StartingStep DEF Voided
  <1>14. ASSUME NEW r \in Requests, FindDrafts(r) PROVE RevenueInv'
    <2>i. PICK i \in Invoices : i = request[r].inv
      BY <1>r
    <2>1. /\ i \in Invoices /\ Exists(i) /\ request[r].snap = invoice[i] /\ ledger[i].draft = 0
          /\ request[r].step = "findDrafts" /\ invoice[i].status \in {"sent", "posted", "partial", "paid"}
      BY <1>14, <1>r, <2>i DEF FindDrafts, At, HandlerOK, Knows, NothingOld
    <2>2. request' = [request EXCEPT ![r].step = "findRevenue", ![r].check = {request[r].snap.date}]
          /\ UNCHANGED <<invoice, ledger, dictated>> /\ ledger[i] = NoEntries
      BY <1>14, <2>i, <2>1 DEF FindDrafts
    <2> DEFINE local == [request[r] EXCEPT !.step = "findRevenue", !.check = {request[r].snap.date}]
    <2>3. request' = [request EXCEPT ![r] = local] /\ request'[r] = local
      BY <2>2 DEF TypeOK
    <2>4. /\ local.step = "findRevenue" /\ local.inv = i
          /\ local.snap = request[r].snap /\ local.target = request[r].target
      BY <1>r, <2>i DEF LocalState
    <2> HIDE DEF local
    <2>5. request[r].target \notin Voided
      BY <1>14, <1>r, <2>1 DEF HandlerOK, Knows
    <2>6. HandlerOK(r)'
      BY <2>1, <2>2, <2>3, <2>4, <2>5 DEF HandlerOK, Knows, Exists, Voided
    <2> QED BY <2>1, <2>2, <2>3, <2>6, MovingStep
  <1>15. ASSUME NEW r \in Requests, PostDrafts(r) PROVE RevenueInv'
    BY <1>15 DEF PostDrafts, At, NothingOld
  <1>16. ASSUME NEW r \in Requests, NEW i \in Invoices, NEW row \in Row, EditBegin(r, i, row) PROVE RevenueInv'
    <2> DEFINE local == [Resting EXCEPT !.step = "checkPosted", !.edit = row]
    <2>1. /\ Begin(r, i, local) /\ Exists(i) /\ UNCHANGED <<invoice, ledger, dictated>>
          /\ DOMAIN local = DOMAIN Resting
          /\ local.step = "checkPosted" /\ local.edit = row
      BY <1>16 DEF EditBegin, Resting
    <2> HIDE DEF local
    <2>2. invoice[i].status \notin Voided /\ row.status # "deleted"
      BY <1>16 DEF EditBegin, IsTerminal, Voided, Statuses
    <2> QED BY <2>1, <2>2, StartingStep
  <1>17. ASSUME NEW r \in Requests, CheckPosted(r) PROVE RevenueInv'
    <2>i. PICK i \in Invoices : i = request[r].inv
      BY <1>r
    <2> DEFINE local == [request[r] EXCEPT !.step = "writeEdit",
                                           !.check = {request[r].snap.date, request[r].edit.date}]
    <2>1. /\ i \in Invoices /\ Exists(i) /\ request[r].snap = invoice[i]
          /\ request[r].step = "checkPosted" /\ invoice[i].status \notin Voided
          /\ request[r].edit.status # "deleted"
      BY <1>17, <1>r, <2>i DEF CheckPosted, At, HandlerOK, Knows
    <2>2. /\ request' = [request EXCEPT ![r] = local] /\ UNCHANGED <<invoice, ledger, dictated>>
          /\ request'[r] = local
      BY <1>17 DEF CheckPosted, TypeOK
    <2>3. /\ local.step = "writeEdit" /\ local.inv = i /\ local.snap = request[r].snap
          /\ local.edit = request[r].edit /\ local.target = request[r].target
      BY <1>r, <2>i DEF LocalState
    <2>4. ledger[i].posted > 0 => request[r].edit.total = request[r].snap.total
      BY <1>17, <2>i DEF CheckPosted
    <2> HIDE DEF local
    <2>5. HandlerOK(r)'
      BY <2>1, <2>2, <2>3, <2>4 DEF HandlerOK, Knows, Exists
    <2> QED BY <2>1, <2>2, <2>5, MovingStep
  <1>18. ASSUME NEW r \in Requests, WriteEdit(r) PROVE RevenueInv'
    <2>i. PICK i \in Invoices : i = request[r].inv
      BY <1>r
    <2> DEFINE edit == request[r].edit
               status == IF edit.status = "absent" THEN invoice[i].status ELSE edit.status
    <2>1. /\ i \in Invoices /\ On(r, i) /\ Exists(i) /\ request[r].step = "writeEdit"
          /\ invoice[i].status \notin Voided
          /\ ledger[i].posted > 0 => edit.total = invoice[i].total
          /\ edit.status # "deleted"
      BY <1>18, <1>r, <2>i DEF WriteEdit, At, On, HandlerOK, Knows
    <2>2. /\ invoice' = [invoice EXCEPT ![i] = [edit EXCEPT !.status = status]]
          /\ ledger' = ledger /\ Finish(r)
          /\ dictated' = IF status = invoice[i].status THEN dictated ELSE dictated \cup {i}
      BY <1>18, <2>i DEF WriteEdit
    <2>7. edit \in Row
      BY <1>r DEF LocalState
    <2>8. status \notin {"absent", "deleted"}
      BY <2>1 DEF Exists
    <2>9. [edit EXCEPT !.status = status].status = status
          /\ [edit EXCEPT !.status = status].total = edit.total
      BY <2>7 DEF Row
    <2> HIDE DEF edit, status
    <2>3. HandlerOK(r)' /\ (\A q \in Requests \ {r} : request'[q] = request[q])
      BY <2>2, FinishOK
    <2>4. /\ invoice'[i].status = status /\ invoice'[i].total = edit.total
          /\ \A j \in Invoices \ {i} : invoice'[j] = invoice[j]
      BY <2>1, <2>2, <2>9 DEF TypeOK
    <2>5. Frame(r, i) /\ (\A j \in Invoices : On(r, j) => j = i)
      BY <2>1, <2>2, <2>3, <2>4 DEF Frame, On
    <2>10. status \in Voided => i \in dictated'
      BY <2>1, <2>2
    <2>6. InvoiceOK(i)'
      <3>1. Unrecognised(i) \/ Recognised(i)
        BY <2>1, NotReversed
      <3>2. ledger[i].draft = 0
        BY <2>1 DEF RevenueInv, InvoiceOK
      <3> QED BY <2>1, <2>2, <2>4, <2>8, <2>10, <3>1, <3>2 DEF InvoiceOK, Unrecognised, Recognised, Exists
    <2> QED BY <2>1, <2>3, <2>5, <2>6, WritingStep
  <1>19. ASSUME NEW r \in Requests, NEW i \in Invoices, DeleteBegin(r, i) PROVE RevenueInv'
    BY <1>19 DEF DeleteBegin, PlainBooks
  <1>20. ASSUME NEW r \in Requests, CheckEntries(r) PROVE RevenueInv'
    BY <1>20 DEF CheckEntries, At, NothingOld
  <1>21. ASSUME NEW r \in Requests, DeleteRows(r) PROVE RevenueInv'
    BY <1>21 DEF DeleteRows, At, NothingOld
  <1>22. ASSUME NEW r \in Requests, NEW p \in Periods, PassLock(r, p) PROVE RevenueInv'
    <2> DEFINE local == [request[r] EXCEPT !.check = request[r].check \ {p}]
    <2>1. /\ request' = [request EXCEPT ![r] = local] /\ UNCHANGED <<invoice, ledger, dictated>>
          /\ request'[r] = local
      <3>1. UNCHANGED <<invoice, ledger, dictated>> /\ request' = [request EXCEPT ![r].check = request[r].check \ {p}]
        BY <1>22 DEF PassLock
      <3> QED BY <3>1 DEF TypeOK
    <2>2. /\ local.step = request[r].step /\ local.inv = request[r].inv
          /\ local.snap = request[r].snap
          /\ local.edit = request[r].edit /\ local.target = request[r].target
      BY <1>r DEF LocalState
    <2> HIDE DEF local
    <2>3. HandlerOK(r)'
      BY <1>r, <2>1, <2>2 DEF HandlerOK, Knows, Exists
    <2>4. \A j \in Invoices : InvoiceOK(j)'
      <3> SUFFICES ASSUME NEW j \in Invoices PROVE InvoiceOK(j)'
        OBVIOUS
      <3>1. Voiding(j) => Voiding(j)'
        BY <2>1, <2>2 DEF Voiding, On, TypeOK
      <3> QED BY <2>1, <3>1 DEF RevenueInv, InvoiceOK, Unrecognised, Recognised, Reversed, Exists
    <2>5. \A q \in Requests : HandlerOK(q)'
      <3>1. \A q \in Requests \ {r} : HandlerOK(q)'
        BY <1>r, <2>1 DEF HandlerOK, Knows, Exists, TypeOK
      <3> QED BY <2>3, <3>1
    <2> QED BY <2>4, <2>5 DEF RevenueInv
  <1>23. ASSUME NEW r \in Requests, GiveUp(r) PROVE RevenueInv'
    <2>1. /\ UNCHANGED <<invoice, ledger, dictated>> /\ Finish(r)
          /\ request[r].step = "setStatus" => request[r].target \notin Voided
      BY <1>23 DEF GiveUp, PlainBooks
    <2>2. HandlerOK(r)' /\ (\A q \in Requests \ {r} : request'[q] = request[q])
      BY <2>1, FinishOK
    <2> QED BY <2>1, <2>2, LocalStep
  <1>24. CASE UNCHANGED <<invoice, ledger, dictated, request>>
    BY <1>24 DEF RevenueInv, InvoiceOK, HandlerOK, Knows, Unrecognised, Recognised, Reversed, Voiding, On, Exists
  <1>25. ASSUME NEW p \in Periods, LockPeriod(p) \/ UnlockPeriod(p) PROVE RevenueInv'
    BY <1>24, <1>25 DEF LockPeriod, UnlockPeriod
  <1>26. CASE UNCHANGED vars
    BY <1>24, <1>26 DEF vars
  <1> QED
    BY <1>1, <1>2, <1>4, <1>5, <1>6, <1>7, <1>8, <1>9, <1>10, <1>11, <1>12, <1>13, <1>14, <1>15, <1>16, <1>17, <1>18, <1>19, <1>20, <1>21, <1>22, <1>23, <1>24, <1>25, <1>26
       DEF Next, Handler, Creation, StatusChange, Payment, Posting, Edit, Deletion

(* Handlers that stay off each other's invoices: what each of them read is    *)
(* still so when it writes.                                                 *)
LEMMA RevenueInvariant == PlainBooks => (Spec /\ []Apart => [](TypeOK /\ NothingOld /\ RevenueInv))
  <1> SUFFICES ASSUME PlainBooks
               PROVE  Spec /\ []Apart => [](TypeOK /\ NothingOld /\ RevenueInv)
    OBVIOUS
  <1>1. Init => NothingOld
    BY InitClosedInv DEF ClosedInv, PlainBooks
  <1>2. TypeInv /\ NothingOld /\ [Next]_vars => NothingOld'
    BY StepNothingOld DEF TypeInv, PlainBooks
  <1>3. TypeInv /\ NothingOld /\ RevenueInv /\ Apart /\ Apart' /\ [Next]_vars => RevenueInv'
    BY StepRevenueInv DEF TypeInv
  <1>4. Init => RevenueInv
    BY InitRevenueInv
  <1>5. TypeInv => TypeOK
    BY DEF TypeInv
  <1> QED BY InitTypeInv, StepTypeInv, <1>1, <1>2, <1>3, <1>4, <1>5, PTL DEF Spec

(* Between requests the ledger shows, for every AED invoice, its total or    *)
(* nothing, and nothing once it is voided or cancelled by the route for it   *)
(* (not by the body of a PUT), whatever sequence of creations, issues,       *)
(* payments, edits with or without a status of their own, repairs and voids  *)
(* it went through, as long as two handlers are never on the same invoice at *)
(* once: handlers of different invoices overlap as they like                 *)
(* (routes/invoices.routes.ts).                                             *)
THEOREM BooksFollow ==
    ASSUME PlainBooks
    PROVE  Spec /\ []Apart => []BooksFollowInvoice
  <1>1. TypeOK /\ RevenueInv => BooksFollowInvoice
    <2> SUFFICES ASSUME TypeOK, RevenueInv, Quiet, NEW i \in Invoices
                 PROVE  \/ ledger[i].posted = 0 /\ ledger[i].sales = 0
                        \/ invoice[i].status \in {"void", "cancelled"} /\ ledger[i].sales = 0
                        \/ /\ Exists(i)
                           /\ invoice[i].status \in {"void", "cancelled"} => i \in dictated
                           /\ ledger[i].sales = invoice[i].total * invoice[i].rate
      BY DEF BooksFollowInvoice
    <2>1. ~Voiding(i)
      BY DEF Voiding, Quiet, Idle
    <2>2. InvoiceOK(i)
      BY DEF RevenueInv
    <2>3. invoice[i].total * invoice[i].rate = invoice[i].total
      <3>1. invoice[i] \in Row /\ invoice[i].rate = 1
        BY DEF TypeOK, Row, PlainBooks
      <3>2. invoice[i].total \in Nat
        BY <3>1, RowNumbers
      <3> QED BY <3>1, <3>2
    <2> QED BY <2>1, <2>2, <2>3 DEF InvoiceOK, Unrecognised, Recognised, Reversed, Voided
  <1> QED BY RevenueInvariant, <1>1, PTL

(* What an entry does to the promise of RevenueRecognition.                 *)
Phase(posted) == IF posted = 0 THEN "unrecognised" ELSE IF posted = 1 THEN "recognised" ELSE "reversed"

RevenueStep ==
    \/ UNCHANGED <<[i \in Invoices |-> Phase(ledger[i].posted)], [i \in Invoices |-> ledger[i].sales]>>
    \/ \E i \in Invoices :
          /\ \A j \in Invoices \ {i} : ledger'[j] = ledger[j]
          /\ \/ ledger[i].posted = 0 /\ ledger'[i].posted = 1 /\ ledger'[i].sales > 0
             \/ ledger[i].posted = 1 /\ ledger'[i].posted = 2 /\ ledger'[i].sales = 0

LEMMA RevenueSteps ==
    ASSUME PlainBooks, TypeOK, NothingOld, RevenueInv, [Next]_vars
    PROVE  RevenueStep
  <1>1. CASE ledger' = ledger
    BY <1>1 DEF RevenueStep
  <1>2. ASSUME NEW r \in Requests, SetStatus(r) \/ WriteEdit(r)
        PROVE  ledger' = ledger
    BY <1>2 DEF SetStatus, WriteEdit
  <1>3. ASSUME NEW r \in Requests, RecordPayment(r) PROVE RevenueStep
    <2>1. \A j \in Invoices : /\ ledger'[j].posted = ledger[j].posted
                              /\ ledger'[j].sales = ledger[j].sales
      BY <1>3 DEF RecordPayment, PaymentEffects, TypeOK, LedgerRow
    <2> QED BY <2>1 DEF RevenueStep
  <1>5. ASSUME NEW r \in Requests, PostRevenue(r) PROVE RevenueStep
    <2>i. PICK i \in Invoices : i = request[r].inv
      BY DEF TypeOK, LocalState
    <2> DEFINE snap == request[r].snap
               delta == snap.total * snap.rate
    <2>1. On(r, i) /\ ledger[i].posted = 0 /\ PostSale(i, delta, snap.date)
      BY <1>5, <2>i DEF PostRevenue, At, On, HandlerOK, Knows, RevenueInv
    <2>2. snap \in Row /\ snap.rate = 1
      BY DEF TypeOK, LocalState, Row, PlainBooks
    <2>3. delta \in Nat /\ delta > 0
      <3>1. snap.total \in Nat /\ snap.total > 0
        BY <2>2, RowNumbers
      <3> QED BY <2>2, <3>1
    <2>4. ledger[i].sales = 0
      BY <2>1 DEF RevenueInv, InvoiceOK, Unrecognised, Recognised, Reversed
    <2> HIDE DEF delta
    <2>5. /\ \A j \in Invoices \ {i} : ledger'[j] = ledger[j]
          /\ ledger'[i].posted = 1 /\ ledger'[i].sales = delta
      BY <2>1, <2>3, <2>4 DEF PostSale, TypeOK, LedgerRow
    <2> QED BY <2>1, <2>3, <2>5 DEF RevenueStep
  <1>6. ASSUME NEW r \in Requests, PostReversal(r) PROVE RevenueStep
    <2>i. PICK i \in Invoices : i = request[r].inv
      BY DEF TypeOK, LocalState
    <2> DEFINE total == request[r].snap.total
    <2>1. /\ On(r, i) /\ ledger[i].posted = 1 /\ request[r].snap = invoice[i]
          /\ PostSale(i, -total, Today)
      BY <1>6, <2>i DEF PostReversal, At, On, HandlerOK, Knows, RevenueInv
    <2>2. ledger[i].sales = total
      BY <2>1 DEF RevenueInv, InvoiceOK, Unrecognised, Recognised, Reversed
    <2>3. total \in Nat
      BY <2>1, RowNumbers DEF TypeOK
    <2> HIDE DEF total
    <2>4. /\ \A j \in Invoices \ {i} : ledger'[j] = ledger[j]
          /\ ledger'[i].posted = 2 /\ ledger'[i].sales = 0
      BY <2>1, <2>2, <2>3 DEF PostSale, TypeOK, LedgerRow
    <2> QED BY <2>1, <2>4 DEF RevenueStep
  <1>7. ASSUME NEW r \in Requests, PostDrafts(r) \/ DeleteRows(r) PROVE FALSE
    BY <1>7 DEF PostDrafts, DeleteRows, At, NothingOld
  <1>8. ASSUME NEW r \in Requests, NEW i \in Invoices, Insert(r, i) PROVE ledger' = ledger
    BY <1>8 DEF Insert
  <1> QED BY <1>1, <1>2, <1>3, <1>5, <1>6, <1>7, <1>8, NextCases DEF Writes

(* On those behaviours the handlers implement RevenueRecognition: the        *)
(* revenue of an invoice is recognised at most once, for one amount, and     *)
(* taken back at most once, in full (invoice-posting.service.ts and the void *)
(* branch of routes/invoices.routes.ts).                                    *)
THEOREM RevenueRefinement ==
    ASSUME PlainBooks
    PROVE  Spec /\ []Apart => RecognisedOnceReversedOnce
  <1>1. Init => Revenue!Init
    <2> SUFFICES ASSUME Init PROVE Revenue!Init
      OBVIOUS
    <2>1. \A i \in Invoices : ledger[i].posted = 0 /\ ledger[i].sales = 0
      BY DEF Init, PlainBooks, NoEntries
    <2> QED BY <2>1 DEF Revenue!Init
  <1>2. TypeOK /\ NothingOld /\ RevenueInv /\ [Next]_vars =>
           [Revenue!Next]_<<[i \in Invoices |->
                                IF ledger[i].posted = 0 THEN "unrecognised"
                                ELSE IF ledger[i].posted = 1 THEN "recognised" ELSE "reversed"],
                            [i \in Invoices |-> ledger[i].sales]>>
    <2> SUFFICES ASSUME TypeOK, NothingOld, RevenueInv, [Next]_vars
                 PROVE  [Revenue!Next]_<<[i \in Invoices |->
                                IF ledger[i].posted = 0 THEN "unrecognised"
                                ELSE IF ledger[i].posted = 1 THEN "recognised" ELSE "reversed"],
                            [i \in Invoices |-> ledger[i].sales]>>
      OBVIOUS
    <2>1. RevenueStep
      BY RevenueSteps
    <2>2. ASSUME NEW i \in Invoices, \A j \in Invoices \ {i} : ledger'[j] = ledger[j],
                 ledger[i].posted = 0, ledger'[i].posted = 1, ledger'[i].sales > 0
          PROVE  Revenue!Recognise(i)
      BY <2>2 DEF Revenue!Recognise
    <2>3. ASSUME NEW i \in Invoices, \A j \in Invoices \ {i} : ledger'[j] = ledger[j],
                 ledger[i].posted = 1, ledger'[i].posted = 2, ledger'[i].sales = 0
          PROVE  Revenue!Reverse(i)
      <3> DEFINE phase == [j \in Invoices |->
                              IF ledger[j].posted = 0 THEN "unrecognised"
                              ELSE IF ledger[j].posted = 1 THEN "recognised" ELSE "reversed"]
                 amount == [j \in Invoices |-> ledger[j].sales]
      <3>1. phase[i] = "recognised"
        BY <2>3
      <3>2. phase' = [phase EXCEPT ![i] = "reversed"]
        <4>1. phase'[i] = "reversed" /\ \A j \in Invoices \ {i} : phase'[j] = phase[j]
          BY <2>3
        <4>2. /\ phase' = [j \in Invoices |-> phase'[j]]
              /\ phase = [j \in Invoices |-> phase[j]]
          OBVIOUS
        <4> HIDE DEF phase
        <4> QED BY <4>1, <4>2
      <3>3. amount' = [amount EXCEPT ![i] = 0]
        BY <2>3
      <3> QED BY <3>1, <3>2, <3>3 DEF Revenue!Reverse
    <2> QED BY <2>1, <2>2, <2>3 DEF RevenueStep, Phase, Revenue!Next
  <1> QED BY RevenueInvariant, <1>1, <1>2, PTL DEF Spec, RecognisedOnceReversedOnce, Revenue!Spec
=============================================================================
