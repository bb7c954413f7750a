------------------------- MODULE PayrollRuns_proofs -------------------------
(***************************************************************************)
(* Proofs about a payroll run, for any employees, items, contracts, edits   *)
(* and handlers.                                                            *)
(*                                                                         *)
(* Types, closed months and hand edits hold whatever handlers meet.  That   *)
(* nobody is paid twice and that an approved run tells what was posted hold *)
(* while handlers come one at a time: then the only one on the run finds    *)
(* what it has read and summed up still true (Alone), and an invariant says *)
(* of each of its steps what that is.                                       *)
(*   WageInv : the employees still to be calculated have no item;           *)
(*   PostInv : an entry is there when the run is approved, or by the        *)
(*             approval that is about to write so;                          *)
(*   TieInv  : what is summed up is what the items come to.                 *)
(***************************************************************************)
EXTENDS PayrollRuns, SumTheorems, TLAPS

USE PayrollAssumption

-----------------------------------------------------------------------------
(* The items of the run and what they add up to, whatever table they are in. *)
Table == [Items -> ItemRow]

LiveIn(it) == {i \in Items : it[i].state # "absent"}

EditedIn(it) == {i \in LiveIn(it) : it[i].edited}

NetIn(it) == [i \in Items |-> it[i].basic + it[i].extra]

Due(it, S) == Sum(NetIn(it), S)

LEMMA NamesOfItems == Live = LiveIn(item) /\ EditedItems = EditedIn(item)
BY DEF Live, LiveIn, EditedItems, EditedIn

LEMMA WagesAreDue == ASSUME NEW S \in SUBSET Items PROVE Wages(S) = Due(item, S)
<1> DEFINE iter == CHOOSE g : g = [s \in SUBSET S |-> IF s = {} THEN 0
                                     ELSE (item[CHOOSE i \in s : TRUE].basic + item[CHOOSE i \in s : TRUE].extra)
                                          + g[s \ {CHOOSE i \in s : TRUE}]]
           net == NetIn(item)
<1>1. Wages(S) = iter[S]
  BY DEF Wages, Net, MapThenSumSet, MapThenFoldSet
<1>2. IsFiniteSet(S)
  BY FS_Subset
<1>3. PICK g : Adds(g, net, S) /\ Sum(net, S) = g[S]
  BY <1>2, SumUnfold, AddsExists
<1>4. \A s \in SUBSET S : s # {} => net[Chosen(s)] = item[Chosen(s)].basic + item[Chosen(s)].extra
  BY ChosenIn DEF NetIn
<1>5. g = [s \in SUBSET S |-> IF s = {} THEN 0
                              ELSE (item[Chosen(s)].basic + item[Chosen(s)].extra) + g[s \ {Chosen(s)}]]
  BY <1>3, <1>4 DEF Adds
<1>6. iter = [s \in SUBSET S |-> IF s = {} THEN 0
                                 ELSE (item[Chosen(s)].basic + item[Chosen(s)].extra) + iter[s \ {Chosen(s)}]]
  BY <1>5 DEF Chosen
<1> HIDE DEF iter, net
<1>7. Adds(iter, net, S)
  BY <1>4, <1>6 DEF Adds
<1>8. iter[S] = g[S]
  BY <1>2, <1>3, <1>7, AddsAgree
<1> QED BY <1>1, <1>3, <1>8 DEF Due, net

LEMMA AmountsAreInt == (\A x \in Pays : x \in Int) /\ (\A x \in Extras \cup {0} : x \in Int)
OBVIOUS

(* An item that is there has an employee and an amount.                      *)
LEMMA ItemFields ==
    ASSUME NEW it \in Table, NEW i \in LiveIn(it)
    PROVE  /\ it[i] \in [state : {"pending", "paid"}, employee : Employees, basic : Pays,
                         extra : Extras \cup {0}, edited : BOOLEAN]
           /\ it[i].employee \in Employees /\ NetIn(it)[i] \in Int
<1>1. it[i] \in ItemRow /\ it[i].state # "absent" /\ i \in Items
  BY DEF Table, LiveIn
<1>2. it[i] \in [state : {"pending", "paid"}, employee : Employees, basic : Pays,
                 extra : Extras \cup {0}, edited : BOOLEAN]
  BY <1>1 DEF ItemRow, NoItem
<1>3. it[i].basic \in Int /\ it[i].extra \in Int /\ it[i].employee \in Employees
  <2>1. it[i].basic \in Pays /\ it[i].extra \in Extras \cup {0} /\ it[i].employee \in Employees
    BY <1>2
  <2> QED BY <2>1, AmountsAreInt
<1> QED BY <1>1, <1>2, <1>3 DEF NetIn

LEMMA LiveFinite == ASSUME NEW it, NEW S \in SUBSET LiveIn(it) PROVE IsFiniteSet(S)
<1>1. S \in SUBSET Items
  BY DEF LiveIn
<1> QED BY <1>1, FS_Subset

LEMMA DueType == ASSUME NEW it \in Table, NEW S \in SUBSET LiveIn(it) PROVE Due(it, S) \in Int
BY ItemFields, LiveFinite, SumType DEF Due

(* Items with the same amounts add up to the same.                           *)
LEMMA DueSame ==
    ASSUME NEW it, NEW jt, NEW S \in SUBSET LiveIn(it),
           \A i \in S : it[i].basic = jt[i].basic /\ it[i].extra = jt[i].extra
    PROVE  Due(it, S) = Due(jt, S)
<1>1. \A i \in S : NetIn(it)[i] = NetIn(jt)[i]
  BY DEF NetIn, LiveIn
<1> QED BY <1>1, LiveFinite, SumSame DEF Due

(* A new item adds its amount.                                               *)
LEMMA DueAdd ==
    ASSUME NEW it \in Table, NEW jt \in Table, NEW i \in Items, it[i].state = "absent",
           jt[i].state # "absent", \A k \in Items \ {i} : jt[k] = it[k]
    PROVE  /\ LiveIn(jt) = LiveIn(it) \cup {i} /\ i \notin LiveIn(it)
           /\ Due(jt, LiveIn(jt)) = Due(it, LiveIn(it)) + NetIn(jt)[i]
<1>1. LiveIn(jt) = LiveIn(it) \cup {i} /\ i \notin LiveIn(it) /\ LiveIn(jt) \ {i} = LiveIn(it)
  BY DEF LiveIn
<1> DEFINE net == NetIn(jt)  live == LiveIn(jt)
<1>2. IsFiniteSet(live) /\ (\A k \in live : net[k] \in Int) /\ i \in live
  BY <1>1, LiveFinite, ItemFields
<1>3. Due(it, LiveIn(it)) = Due(jt, LiveIn(it))
  <2>1. \A k \in LiveIn(it) : it[k].basic = jt[k].basic /\ it[k].extra = jt[k].extra
    BY <1>1 DEF LiveIn
  <2> QED BY <2>1, DueSame
<1>4. Due(jt, live) = Sum(net, live) /\ Due(jt, LiveIn(it)) = Sum(net, live \ {i})
  BY <1>1 DEF Due
<1>5. Due(it, LiveIn(it)) \in Int
  BY DueType
<1> HIDE DEF net, live
<1>6. Sum(net, live) = net[i] + Sum(net, live \ {i})
  BY <1>2, SumRemove
<1>7. net[i] \in Int
  BY <1>2
<1>8. Due(jt, live) = Due(it, LiveIn(it)) + net[i]
  BY <1>3, <1>4, <1>5, <1>6, <1>7
<1> QED BY <1>1, <1>8 DEF net, live

-----------------------------------------------------------------------------
(* Types.                                                                    *)
CalcState == [step : {"preserve", "clear", "list", "insert"}, keep : SUBSET Employees,
              left : SUBSET (Employees \X Pays), amount : Int]

ApprovalState == [step : {"check", "sum", "post"}, month : Months, amount : Int]

WriteState == [step : {"write"}, item : Items, extra : Extras]

SumState == [step : {"resum", "retotal"}, amount : Int]

StatusState == [step : {"setStatus"}, status : Statuses]

MonthState == [step : {"setMonth"}, month : Months]

LEMMA LocalFields ==
    ASSUME NEW q \in LocalState
    PROVE  /\ q.step \in {"preserve", "clear", "list", "insert"} => q \in CalcState
           /\ q.step \in {"check", "sum", "post"} => q \in ApprovalState
           /\ q.step = "write" => q \in WriteState
           /\ q.step \in {"resum", "retotal"} => q \in SumState
           /\ q.step = "setStatus" => q \in StatusState
           /\ q.step = "setMonth" => q \in MonthState
           /\ q.step = "approve" => q = [step |-> "approve"]
           /\ q.step = "pay" => q = [step |-> "pay"]
BY DEF LocalState, Resting, CalcState, ApprovalState, WriteState, SumState, StatusState, MonthState

LEMMA LocalTypes ==
    /\ CalcState \subseteq LocalState /\ ApprovalState \subseteq LocalState
    /\ WriteState \subseteq LocalState /\ SumState \subseteq LocalState
    /\ StatusState \subseteq LocalState /\ MonthState \subseteq LocalState
    /\ [step |-> "approve"] \in LocalState /\ [step |-> "pay"] \in LocalState /\ Resting \in LocalState
BY DEF LocalState, CalcState, ApprovalState, WriteState, SumState, StatusState, MonthState

\* The local state of r is replaced by q.
LEMMA SetKeeps ==
    ASSUME TypeOK, NEW r \in Requests, NEW q, Set(r, q)
    PROVE  /\ request'[r] = q /\ \A s \in Requests \ {r} : request'[s] = request[s]
           /\ q \in LocalState => request' \in [Requests -> LocalState]
BY DEF TypeOK, Set

LEMMA EndKeeps ==
    ASSUME TypeOK, NEW r \in Requests, End(r)
    PROVE  /\ request'[r] = Resting /\ \A s \in Requests \ {r} : request'[s] = request[s]
           /\ request' \in [Requests -> LocalState]
           /\ sealed' = sealed \/ sealed' = locked
BY SetKeeps, LocalTypes DEF End

LEMMA GotoSets ==
    ASSUME NEW r \in Requests, NEW step, Goto(r, step), TypeOK
    PROVE  Set(r, [request[r] EXCEPT !.step = step])
BY DEF Goto, Set, TypeOK

LEMMA WagesType ==
    ASSUME TypeOK
    PROVE  Wages(Live) \in Int /\ Wages(EditedItems) \in Int
<1>1. Live \in SUBSET Items /\ EditedItems \in SUBSET Items
  BY DEF Live, EditedItems
<1>2. item \in Table /\ LiveIn(item) \in SUBSET LiveIn(item) /\ EditedIn(item) \in SUBSET LiveIn(item)
  BY DEF TypeOK, Table, EditedIn
<1>3. Due(item, LiveIn(item)) \in Int /\ Due(item, EditedIn(item)) \in Int
  BY <1>2, DueType
<1> QED BY <1>1, <1>3, WagesAreDue, NamesOfItems

LEMMA DeleteKeeps ==
    ASSUME TypeOK, NEW S, DeleteItems(S)
    PROVE  item' \in [Items -> ItemRow]
<1>1. NoItem \in ItemRow
  BY DEF ItemRow
<1> QED BY <1>1 DEF DeleteItems, TypeOK

\* The steps of handler r; what begins and ends one is kept apart.
Begins(r) ==
    \/ Calculate(r) \/ Approve(r) \/ Patches(r)
    \/ \E i \in Items, x \in Extras : EditItem(r, i, x)

Inserts(r) == At(r, "insert") /\ \E next \in request[r].left, i \in Items : InsertItem(r, next, i)

Works(r) ==
    \/ Preserve(r) \/ Clear(r) \/ ListEmployees(r) \/ Inserts(r) \/ WriteTotals(r)
    \/ PassLock(r) \/ SumItems(r) \/ Post(r) \/ SetApproved(r) \/ MarkPaid(r)
    \/ WriteItem(r) \/ SumAgain(r) \/ WriteSum(r) \/ WritePatch(r) \/ Die(r)

LEMMA BeginsTyped ==
    ASSUME TypeOK, NEW r \in Requests, Begins(r)
    PROVE  /\ \E q \in LocalState : Begin(r, q) /\ Set(r, q) /\ q.step # "idle"
           /\ request' \in [Requests -> LocalState]
<1>1. CASE Calculate(r)
  <2>1. [step |-> "preserve", keep |-> {}, left |-> {}, amount |-> 0] \in CalcState
    BY DEF CalcState
  <2> QED BY <1>1, <2>1, LocalTypes, SetKeeps DEF Calculate, Begin
<1>2. CASE Approve(r)
  <2>1. [step |-> "check", month |-> run.month, amount |-> 0] \in ApprovalState
    BY DEF ApprovalState, TypeOK, Row
  <2> QED BY <1>2, <2>1, LocalTypes, SetKeeps DEF Approve, Begin
<1>3. CASE Patches(r)
  <2>1. ASSUME NEW s \in Settable PROVE [step |-> "setStatus", status |-> s] \in StatusState
    BY DEF StatusState
  <2>2. ASSUME NEW m \in Months PROVE [step |-> "setMonth", month |-> m] \in MonthState
    BY DEF MonthState
  <2>3. PICK q \in LocalState : Begin(r, q) /\ q.step # "idle"
    BY <1>3, <2>1, <2>2, LocalTypes DEF Patches
  <2> QED BY <2>3, SetKeeps DEF Begin
<1>4. ASSUME NEW i \in Items, NEW x \in Extras, EditItem(r, i, x) PROVE
        \E q \in LocalState : Begin(r, q) /\ Set(r, q) /\ q.step # "idle" /\ request' \in [Requests -> LocalState]
  <2>1. [step |-> "write", item |-> i, extra |-> x] \in WriteState
    BY DEF WriteState
  <2> QED BY <1>4, <2>1, LocalTypes, SetKeeps DEF EditItem, Begin
<1> QED BY <1>1, <1>2, <1>3, <1>4 DEF Begins

\* What a step of a calculation leaves of the types.
TablesTyped ==
    /\ run' \in Row /\ item' \in [Items -> ItemRow] /\ request' \in [Requests -> LocalState]
    /\ posted' \in Seq([month : Months, amount : Int])
    /\ UNCHANGED <<employee, locked>> /\ (sealed' = sealed \/ sealed' = locked)
    /\ past' \in {"clean", "torn", "crossed"} /\ outside' \in BOOLEAN

LEMMA CalculationTyped ==
    ASSUME TypeOK, NEW r \in Requests,
           Preserve(r) \/ Clear(r) \/ ListEmployees(r) \/ Inserts(r) \/ WriteTotals(r)
    PROVE  TablesTyped
<1> DEFINE q == request[r]
<1>1. q \in LocalState /\ q.step \in {"preserve", "clear", "list", "insert"}
  BY DEF TypeOK, Preserve, Clear, ListEmployees, Inserts, WriteTotals, At
<1>2. q \in CalcState
  BY <1>1, LocalFields
<1>3. q.keep \subseteq Employees /\ q.left \subseteq Employees \X Pays /\ q.amount \in Int
  BY <1>2 DEF CalcState
<1>4. \A k, l, a, s : k \subseteq Employees /\ l \subseteq Employees \X Pays /\ a \in Int
                      /\ s \in {"preserve", "clear", "list", "insert"} =>
        [q EXCEPT !.step = s, !.keep = k, !.left = l, !.amount = a] \in LocalState
  <2> SUFFICES ASSUME NEW k, NEW l, NEW a, NEW s, k \subseteq Employees, l \subseteq Employees \X Pays, a \in Int,
                      s \in {"preserve", "clear", "list", "insert"}
               PROVE  [q EXCEPT !.step = s, !.keep = k, !.left = l, !.amount = a] \in LocalState
    OBVIOUS
  <2>1. [q EXCEPT !.step = s, !.keep = k, !.left = l, !.amount = a] \in CalcState
    BY <1>2 DEF CalcState
  <2> QED BY <2>1, LocalTypes
<1> HIDE DEF q
<1>5. CASE Preserve(r)
  <2> DEFINE keep == {item[i].employee : i \in EditedItems}
  <2>1. keep \subseteq Employees
    <3>1. item \in Table /\ EditedItems \subseteq LiveIn(item)
      BY NamesOfItems DEF TypeOK, Table, EditedIn
    <3> QED BY <3>1, ItemFields
  <2>2. [q EXCEPT !.step = "clear", !.amount = Wages(EditedItems), !.keep = keep]
        = [q EXCEPT !.step = "clear", !.keep = keep, !.left = q.left, !.amount = Wages(EditedItems)]
    BY <1>2 DEF CalcState
  <2>3. [q EXCEPT !.step = "clear", !.amount = Wages(EditedItems), !.keep = keep] \in LocalState
    BY <1>3, <1>4, <2>1, <2>2, WagesType
  <2>4. Set(r, [q EXCEPT !.step = "clear", !.amount = Wages(EditedItems), !.keep = keep])
        /\ UNCHANGED <<run, employee, item, posted, outside, locked, sealed, past>>
    BY <1>5 DEF Preserve, q, Midway, books
  <2>5. request' \in [Requests -> LocalState]
    BY <2>3, <2>4, SetKeeps
  <2> QED BY <2>4, <2>5 DEF TypeOK, TablesTyped
<1>6. CASE Clear(r)
  <2>1. Set(r, [q EXCEPT !.step = "list"])
    BY <1>6, GotoSets DEF Clear, q
  <2>2. [q EXCEPT !.step = "list"] = [q EXCEPT !.step = "list", !.keep = q.keep, !.left = q.left, !.amount = q.amount]
    BY <1>2 DEF CalcState
  <2>3. [q EXCEPT !.step = "list"] \in LocalState
    BY <1>3, <1>4, <2>2
  <2>4. request' \in [Requests -> LocalState]
    BY <2>1, <2>3, SetKeeps
  <2>5. item' \in [Items -> ItemRow] /\ UNCHANGED <<run, employee, posted, outside, locked, sealed, past>>
    BY <1>6, DeleteKeeps DEF Clear, Midway
  <2> QED BY <2>4, <2>5 DEF TypeOK, TablesTyped
<1>7. CASE ListEmployees(r)
  <2> DEFINE left == {<<e, employee[e].pay>> : e \in {e \in Employees : employee[e].state = "active"} \ q.keep}
             new == [q EXCEPT !.step = "insert", !.left = left, !.keep = {}]
  <2>1. left \subseteq Employees \X Pays
    BY DEF TypeOK
  <2>2. new = [q EXCEPT !.step = "insert", !.keep = {}, !.left = left, !.amount = q.amount]
    BY <1>2 DEF CalcState
  <2>3. new \in LocalState
    <3> HIDE DEF left
    <3> QED BY <1>3, <1>4, <2>1, <2>2
  <2>4. End(r) \/ (Set(r, new) /\ UNCHANGED sealed)
    BY <1>7 DEF ListEmployees, q
  <2>5. UNCHANGED <<run, employee, item, posted, outside, locked, past>>
    BY <1>7 DEF ListEmployees, books
  <2> HIDE DEF new
  <2>6. request' \in [Requests -> LocalState] /\ (sealed' = sealed \/ sealed' = locked)
    BY <2>3, <2>4, SetKeeps, EndKeeps
  <2> QED BY <2>5, <2>6 DEF TypeOK, TablesTyped
<1>8. CASE Inserts(r)
  <2>1. PICK next \in q.left, i \in Items : InsertItem(r, next, i)
    BY <1>8 DEF Inserts, q
  <2>2. next[1] \in Employees /\ next[2] \in Pays
    BY <1>3
  <2>3. next[2] \in Int
    BY <2>2, AmountsAreInt
  <2> DEFINE row == [state |-> "pending", employee |-> next[1], basic |-> next[2], extra |-> 0, edited |-> FALSE]
             new == [q EXCEPT !.left = @ \ {next}, !.amount = @ + next[2]]
  <2>4. row \in ItemRow
    BY <2>2 DEF ItemRow
  <2>5. item' = [item EXCEPT ![i] = row] /\ Set(r, new)
        /\ UNCHANGED <<run, employee, posted, outside, locked, sealed, past>> /\ q.step = "insert"
    BY <2>1 DEF InsertItem, q, Midway, At
  <2>6. item' \in [Items -> ItemRow]
    <3> HIDE DEF row
    <3> QED BY <2>4, <2>5 DEF TypeOK
  <2>7. new = [q EXCEPT !.step = "insert", !.keep = q.keep, !.left = q.left \ {next}, !.amount = q.amount + next[2]]
    BY <1>2, <2>5 DEF CalcState
  <2>8. q.amount + next[2] \in Int
    BY <1>3, <2>3
  <2>9. new \in LocalState
    <3> HIDE DEF new
    <3> QED BY <1>3, <1>4, <2>7, <2>8
  <2>10. request' \in [Requests -> LocalState]
    <3> HIDE DEF new
    <3> QED BY <2>5, <2>9, SetKeeps
  <2> QED BY <2>5, <2>6, <2>10 DEF TypeOK, TablesTyped
<1>9. CASE WriteTotals(r)
  <2>1. run' \in Row
    BY <1>3, <1>9 DEF WriteTotals, q, TypeOK, Row, Statuses
  <2>2. UNCHANGED <<employee, item, posted, outside, locked, past>> /\ End(r)
    BY <1>9 DEF WriteTotals
  <2> QED BY <2>1, <2>2, EndKeeps DEF TypeOK, TablesTyped
<1> QED BY <1>5, <1>6, <1>7, <1>8, <1>9

LEMMA ApprovalTyped ==
    ASSUME TypeOK, NEW r \in Requests, PassLock(r) \/ SumItems(r) \/ Post(r) \/ SetApproved(r) \/ MarkPaid(r)
    PROVE  TablesTyped
<1> DEFINE q == request[r]
<1>1. CASE PassLock(r)
  <2>1. q \in ApprovalState
    BY <1>1, LocalFields DEF TypeOK, PassLock, At
  <2>2. [q EXCEPT !.step = "sum"] \in ApprovalState
    BY <2>1 DEF ApprovalState
  <2>3. End(r) \/ (Set(r, [q EXCEPT !.step = "sum"]) /\ UNCHANGED sealed)
    BY <1>1, GotoSets DEF PassLock
  <2>4. UNCHANGED <<run, employee, item, posted, outside, locked, past>>
    BY <1>1 DEF PassLock, books
  <2> HIDE DEF q
  <2>5. request' \in [Requests -> LocalState] /\ (sealed' = sealed \/ sealed' = locked)
    BY <2>2, <2>3, SetKeeps, EndKeeps, LocalTypes
  <2> QED BY <2>4, <2>5 DEF TypeOK, TablesTyped
<1>2. CASE SumItems(r)
  <2>1. q \in ApprovalState
    BY <1>2, LocalFields DEF TypeOK, SumItems, At
  <2> DEFINE wages == Wages(Live)
  <2>2. wages \in Int
    BY WagesType
  <2>3. End(r) \/ (Set(r, [q EXCEPT !.step = "post", !.amount = wages]) /\ UNCHANGED sealed)
    BY <1>2 DEF SumItems
  <2>4. UNCHANGED <<run, employee, item, posted, outside, locked, past>>
    BY <1>2 DEF SumItems, books
  <2> HIDE DEF q, wages
  <2>5. [q EXCEPT !.step = "post", !.amount = wages] \in ApprovalState
    BY <2>1, <2>2 DEF ApprovalState
  <2>6. request' \in [Requests -> LocalState] /\ (sealed' = sealed \/ sealed' = locked)
    BY <2>3, <2>5, SetKeeps, EndKeeps, LocalTypes
  <2> QED BY <2>4, <2>6 DEF TypeOK, TablesTyped
<1>3. CASE Post(r)
  <2>1. q \in ApprovalState
    BY <1>3, LocalFields DEF TypeOK, Post, At
  <2>2. [month |-> q.month, amount |-> q.amount] \in [month : Months, amount : Int]
    BY <2>1 DEF ApprovalState
  <2>3. posted' \in Seq([month : Months, amount : Int])
    BY <1>3, <2>2 DEF Post, TypeOK
  <2>4. Set(r, [step |-> "approve"]) /\ UNCHANGED <<run, employee, item, outside, locked, sealed, past>>
    BY <1>3 DEF Post, Midway
  <2> QED BY <2>3, <2>4, SetKeeps, LocalTypes DEF TypeOK, TablesTyped
<1>4. CASE SetApproved(r)
  <2>1. q = [step |-> "approve"]
    BY <1>4, LocalFields DEF TypeOK, SetApproved, At
  <2>2. Set(r, [step |-> "pay"])
    BY <1>4, <2>1, GotoSets DEF SetApproved
  <2>3. run' \in Row
    BY <1>4 DEF SetApproved, TypeOK, Row, Statuses
  <2>4. UNCHANGED <<employee, item, posted, outside, locked, sealed, past>>
    BY <1>4 DEF SetApproved, Midway
  <2> QED BY <2>2, <2>3, <2>4, SetKeeps, LocalTypes DEF TypeOK, TablesTyped
<1>5. CASE MarkPaid(r)
  <2>1. \A i \in Live : [item[i] EXCEPT !.state = "paid"] \in ItemRow
    <3>1. item \in Table /\ Live = LiveIn(item)
      BY NamesOfItems DEF TypeOK, Table
    <3> QED BY <3>1, ItemFields DEF ItemRow
  <2>2. item' \in [Items -> ItemRow]
    BY <1>5, <2>1 DEF MarkPaid, TypeOK
  <2>3. UNCHANGED <<run, employee, posted, outside, locked, past>> /\ End(r)
    BY <1>5 DEF MarkPaid
  <2> QED BY <2>2, <2>3, EndKeeps DEF TypeOK, TablesTyped
<1> QED BY <1>1, <1>2, <1>3, <1>4, <1>5

LEMMA EditTyped ==
    ASSUME TypeOK, NEW r \in Requests, WriteItem(r) \/ SumAgain(r) \/ WriteSum(r) \/ WritePatch(r) \/ Die(r)
    PROVE  TablesTyped
<1> DEFINE q == request[r]
<1>1. CASE WriteItem(r)
  <2>1. q \in WriteState
    BY <1>1, LocalFields DEF TypeOK, WriteItem, At
  <2>2. q.item \in Items /\ q.extra \in Extras
    BY <2>1 DEF WriteState
  <2>3. q.item \in Live => [item[q.item] EXCEPT !.extra = q.extra, !.edited = TRUE] \in ItemRow
    <3>1. item \in Table /\ Live = LiveIn(item)
      BY NamesOfItems DEF TypeOK, Table
    <3> QED BY <2>2, <3>1, ItemFields DEF ItemRow
  <2>4. item' = IF q.item \in Live
                THEN [item EXCEPT ![q.item] = [item[q.item] EXCEPT !.extra = q.extra, !.edited = TRUE]] ELSE item
    BY <1>1, <2>2 DEF WriteItem, TypeOK
  <2> DEFINE new == [item[q.item] EXCEPT !.extra = q.extra, !.edited = TRUE]
  <2> HIDE DEF new
  <2>5. item' \in [Items -> ItemRow]
    BY <2>3, <2>4 DEF TypeOK, new
  <2>6. Set(r, [step |-> "resum", amount |-> 0]) /\ UNCHANGED <<run, employee, posted, outside, locked, sealed, past>>
    BY <1>1 DEF WriteItem, Midway
  <2>7. [step |-> "resum", amount |-> 0] \in LocalState
    BY LocalTypes DEF SumState
  <2> QED BY <2>5, <2>6, <2>7, SetKeeps DEF TypeOK, TablesTyped
<1>2. CASE SumAgain(r)
  <2>1. q \in SumState
    BY <1>2, LocalFields DEF TypeOK, SumAgain, At
  <2> DEFINE wages == Wages(Live)
  <2>2. wages \in Int
    BY WagesType
  <2>3. Set(r, [q EXCEPT !.step = "retotal", !.amount = wages])
        /\ UNCHANGED <<run, employee, item, posted, outside, locked, sealed, past>>
    BY <1>2 DEF SumAgain, Midway, books
  <2> HIDE DEF q, wages
  <2>4. [q EXCEPT !.step = "retotal", !.amount = wages] \in LocalState
    BY <2>1, <2>2, LocalTypes DEF SumState
  <2> QED BY <2>3, <2>4, SetKeeps DEF TypeOK, TablesTyped
<1>3. CASE WriteSum(r)
  <2>1. q \in SumState
    BY <1>3, LocalFields DEF TypeOK, WriteSum, At
  <2>2. run' \in Row
    BY <1>3, <2>1 DEF WriteSum, TypeOK, Row, SumState
  <2>3. UNCHANGED <<employee, item, posted, outside, locked, past>> /\ End(r)
    BY <1>3 DEF WriteSum
  <2> QED BY <2>2, <2>3, EndKeeps DEF TypeOK, TablesTyped
<1>4. CASE WritePatch(r)
  <2>1. (At(r, "setStatus") => q \in StatusState) /\ (At(r, "setMonth") => q \in MonthState)
    BY LocalFields DEF TypeOK, At
  <2>2. run' \in Row
    BY <1>4, <2>1 DEF WritePatch, TypeOK, Row, StatusState, MonthState
  <2>3. UNCHANGED <<employee, item, posted, locked, past>> /\ End(r) /\ outside' \in BOOLEAN
    BY <1>4 DEF WritePatch, TypeOK
  <2> QED BY <2>2, <2>3, EndKeeps DEF TypeOK, TablesTyped
<1>5. CASE Die(r)
  <2>1. UNCHANGED <<run, employee, item, posted, outside, locked>> /\ End(r)
        /\ past' \in {"clean", "torn", "crossed"}
    BY <1>5 DEF Die, books, TypeOK
  <2> QED BY <2>1, EndKeeps DEF TypeOK, TablesTyped
<1> QED BY <1>1, <1>2, <1>3, <1>4, <1>5

\* What happens beside the handlers.
World ==
    \/ \E e \in Employees :
          \/ \E state \in {"active", "inactive"}, pay \in Pays : UpdateEmployee(e, state, pay)
          \/ DeleteEmployee(e)
    \/ \E m \in Lockable : LockPeriod(m) \/ UnlockPeriod(m)
    \/ UNCHANGED vars

LEMMA NextIs == [Next]_vars <=> World \/ \E r \in Requests : Begins(r) \/ Works(r)
<1>1. \A r : Calculating(r) \/ Approving(r) \/ Editing(r) \/ Die(r) <=> Begins(r) \/ Works(r)
  BY DEF Calculating, Approving, Editing, Begins, Works, Inserts
<1> QED BY <1>1 DEF Next, World

LEMMA StepTypeOK == TypeOK /\ [Next]_vars => TypeOK'
<1> SUFFICES ASSUME TypeOK, [Next]_vars PROVE TypeOK'
  OBVIOUS
<1>1. ASSUME NEW r \in Requests, Begins(r) PROVE TypeOK'
  <2>1. UNCHANGED <<run, employee, item, posted, outside, locked, sealed>> /\ past' \in {past, "crossed"}
    BY <1>1, BeginsTyped DEF Begin, books
  <2> QED BY <1>1, <2>1, BeginsTyped DEF TypeOK
<1>2. ASSUME NEW r \in Requests, Works(r) PROVE TypeOK'
  <2>1. TablesTyped
    BY <1>2, CalculationTyped, ApprovalTyped, EditTyped DEF Works
  <2> QED BY <2>1 DEF TablesTyped, TypeOK
<1>3. ASSUME NEW e \in Employees, NEW state \in {"active", "inactive"}, NEW pay \in Pays, UpdateEmployee(e, state, pay)
      PROVE  TypeOK'
  BY <1>3 DEF UpdateEmployee, TypeOK
<1>4. ASSUME NEW e \in Employees, DeleteEmployee(e) PROVE TypeOK'
  <2>1. employee' \in [Employees -> [state : {"active", "inactive", "deleted"}, pay : Pays]]
    BY <1>4 DEF DeleteEmployee, TypeOK
  <2>2. item' \in [Items -> ItemRow]
    BY <1>4, DeleteKeeps DEF DeleteEmployee
  <2>3. UNCHANGED <<run, posted, locked, request, sealed, past>> /\ outside' \in BOOLEAN
    BY <1>4 DEF DeleteEmployee, TypeOK
  <2> QED BY <2>1, <2>2, <2>3 DEF TypeOK
<1>5. ASSUME NEW m \in Lockable, LockPeriod(m) \/ UnlockPeriod(m) PROVE TypeOK'
  <2>1. locked' \subseteq Months /\ sealed' \subseteq locked'
    BY <1>5 DEF LockPeriod, UnlockPeriod, TypeOK
  <2>2. UNCHANGED <<run, employee, item, posted, outside, request, past>>
    BY <1>5 DEF LockPeriod, UnlockPeriod, books
  <2> QED BY <2>1, <2>2 DEF TypeOK
<1>6. CASE UNCHANGED vars
  BY <1>6 DEF vars, books, TypeOK
<1> QED BY <1>1, <1>2, <1>3, <1>4, <1>5, <1>6, NextIs DEF World

LEMMA InitTypeOK == Init => TypeOK
<1> SUFFICES ASSUME Init PROVE TypeOK
  OBVIOUS
<1>1. item \in [Items -> ItemRow]
  BY DEF Init, ItemRow
<1>2. request \in [Requests -> LocalState]
  BY LocalTypes DEF Init
<1>3. run \in Row /\ employee \in [Employees -> [state : {"active", "inactive", "deleted"}, pay : Pays]]
  BY DEF Init, Row, Statuses
<1>4. posted \in Seq([month : Months, amount : Int]) /\ locked \subseteq Months /\ sealed \subseteq locked
      /\ past \in {"clean", "torn", "crossed"} /\ outside \in BOOLEAN
  <2>1. posted = <<>> /\ locked = {} /\ sealed = {} /\ past = "clean" /\ outside = FALSE
    BY DEF Init
  <2>2. <<>> \in Seq([month : Months, amount : Int])
    OBVIOUS
  <2> QED BY <2>1, <2>2
<1> QED BY <1>1, <1>2, <1>3, <1>4 DEF TypeOK

(* The run, its items, its employees, its entries and its handlers keep      *)
(* their types, whatever handlers meet.                                      *)
THEOREM PayrollTypesKept == Spec => []TypeOK
BY InitTypeOK, StepTypeOK, PTL DEF Spec

-----------------------------------------------------------------------------
(* Closed months.                                                            *)

\* An approval that has asked for its month carries no sealed one.
SealInv == \A r \in Requests : request[r].step \in {"sum", "post"} => request[r].month \notin sealed

LEMMA EndSeals ==
    ASSUME TypeOK, SealInv, NEW r \in Requests, End(r)
    PROVE  SealInv'
<1>1. \A s \in Requests \ {r} : request'[s] = request[s]
  BY EndKeeps
<1>2. request'[r].step = "idle"
  BY EndKeeps DEF Resting
<1>3. CASE \A s \in Requests \ {r} : Idle(s)
  BY <1>1, <1>2, <1>3 DEF SealInv, Idle
<1>4. CASE ~ \A s \in Requests \ {r} : Idle(s)
  <2>1. sealed' = sealed
    BY <1>4 DEF End
  <2> QED BY <1>1, <1>2, <2>1 DEF SealInv
<1> QED BY <1>3, <1>4

LEMMA SetSeals ==
    ASSUME TypeOK, SealInv, NEW r \in Requests, NEW q, Set(r, q), sealed' = sealed,
           q.step \in {"sum", "post"} => q.month \notin sealed
    PROVE  SealInv'
<1>1. request'[r] = q /\ \A s \in Requests \ {r} : request'[s] = request[s]
  BY SetKeeps
<1> QED BY <1>1 DEF SealInv

\* What a handler does next, and how it ends.
LEMMA WorksOn ==
    ASSUME TypeOK, NEW r \in Requests, Works(r)
    PROVE  \/ End(r)
           \/ /\ sealed' = sealed
              /\ \E q : /\ Set(r, q) /\ q.step \notin {"idle", "check"}
                        /\ q.step = "sum" => /\ request[r].step = "check"
                                             /\ q.month = request[r].month /\ q.month \notin locked
                        /\ q.step = "post" => request[r].step = "sum" /\ q.month = request[r].month
<1> DEFINE q == request[r]
<1>1. q \in LocalState
  BY DEF TypeOK
<1>2. CASE PassLock(r)
  <2>1. q \in ApprovalState
    BY <1>1, <1>2, LocalFields DEF PassLock, At
  <2>2. [q EXCEPT !.step = "sum"].step = "sum" /\ [q EXCEPT !.step = "sum"].month = q.month
    BY <2>1 DEF ApprovalState
  <2>3. End(r) \/ (Set(r, [q EXCEPT !.step = "sum"]) /\ sealed' = sealed /\ q.month \notin locked)
    BY <1>2, GotoSets DEF PassLock
  <2>4. q.step = "check"
    BY <1>2 DEF PassLock, At
  <2> HIDE DEF q
  <2> QED BY <2>2, <2>3, <2>4 DEF q
<1>3. CASE SumItems(r)
  <2>1. q \in ApprovalState /\ q.step = "sum"
    BY <1>1, <1>3, LocalFields DEF SumItems, At
  <2> DEFINE new == [q EXCEPT !.step = "post", !.amount = Wages(Live)]
  <2>2. new.step = "post" /\ new.month = q.month
    BY <2>1 DEF ApprovalState
  <2>3. End(r) \/ (Set(r, new) /\ sealed' = sealed)
    BY <1>3 DEF SumItems
  <2> HIDE DEF new, q
  <2> QED BY <2>1, <2>2, <2>3 DEF q
<1>4. CASE Preserve(r) \/ Clear(r) \/ ListEmployees(r) \/ Inserts(r)
  <2>1. q \in CalcState
    BY <1>1, <1>4, LocalFields DEF Preserve, Clear, ListEmployees, Inserts, At
  <2>2. \/ End(r)
        \/ /\ sealed' = sealed
           /\ \/ Set(r, [q EXCEPT !.step = "clear", !.amount = Wages(EditedItems),
                                   !.keep = {item[i].employee : i \in EditedItems}])
              \/ Set(r, [q EXCEPT !.step = "list"])
              \/ Set(r, [q EXCEPT !.step = "insert",
                            !.left = {<<e, employee[e].pay>> :
                                         e \in {e \in Employees : employee[e].state = "active"} \ q.keep},
                            !.keep = {}])
              \/ q.step = "insert" /\ \E next \in q.left :
                                         Set(r, [q EXCEPT !.left = @ \ {next}, !.amount = @ + next[2]])
    <3>1. CASE Preserve(r)
      BY <3>1 DEF Preserve, Midway
    <3>2. CASE Clear(r)
      BY <3>2, GotoSets DEF Clear, Midway
    <3>3. CASE ListEmployees(r)
      BY <3>3 DEF ListEmployees
    <3>4. CASE Inserts(r)
      BY <3>4 DEF Inserts, InsertItem, Midway, At
    <3> QED BY <1>4, <3>1, <3>2, <3>3, <3>4
  <2>3. \A k, l, a : /\ [q EXCEPT !.step = "clear", !.amount = a, !.keep = k].step = "clear"
                     /\ [q EXCEPT !.step = "list"].step = "list"
                     /\ [q EXCEPT !.step = "insert", !.left = l, !.keep = k].step = "insert"
                     /\ [q EXCEPT !.left = l, !.amount = a].step = q.step
    BY <2>1 DEF CalcState
  <2>4. \A new : Set(r, new) /\ sealed' = sealed /\ new.step \in {"clear", "list", "insert"} =>
          /\ sealed' = sealed
          /\ \E p : /\ Set(r, p) /\ p.step \notin {"idle", "check"}
                    /\ p.step = "sum" => /\ request[r].step = "check"
                                         /\ p.month = request[r].month /\ p.month \notin locked
                    /\ p.step = "post" => request[r].step = "sum" /\ p.month = request[r].month
    OBVIOUS
  <2> DEFINE keep == {item[i].employee : i \in EditedItems}
             left == {<<e, employee[e].pay>> : e \in {e \in Employees : employee[e].state = "active"} \ q.keep}
             cleared == [q EXCEPT !.step = "clear", !.amount = Wages(EditedItems), !.keep = keep]
             listing == [q EXCEPT !.step = "list"]
             listed == [q EXCEPT !.step = "insert", !.left = left, !.keep = {}]
             inserted(next) == [q EXCEPT !.left = @ \ {next}, !.amount = @ + next[2]]
  <2>5. cleared.step = "clear" /\ listing.step = "list" /\ listed.step = "insert"
        /\ \A next : inserted(next).step = q.step
    BY <2>3
  <2>6. \/ End(r)
        \/ sealed' = sealed /\ (Set(r, cleared) \/ Set(r, listing) \/ Set(r, listed)
                                \/ (q.step = "insert" /\ \E next \in q.left : Set(r, inserted(next))))
    BY <2>2
  <2> HIDE DEF cleared, listing, listed, inserted, q
  <2>7. CASE sealed' = sealed /\ Set(r, cleared)
    BY <2>4, <2>5, <2>7
  <2>8. CASE sealed' = sealed /\ Set(r, listing)
    BY <2>4, <2>5, <2>8
  <2>9. CASE sealed' = sealed /\ Set(r, listed)
    BY <2>4, <2>5, <2>9
  <2>10. CASE sealed' = sealed /\ q.step = "insert" /\ \E next \in q.left : Set(r, inserted(next))
    <3>1. PICK next \in q.left : Set(r, inserted(next))
      BY <2>10
    <3>2. inserted(next).step = "insert"
      BY <2>5, <2>10
    <3> QED BY <2>4, <2>10, <3>1, <3>2
  <2> QED BY <2>6, <2>7, <2>8, <2>9, <2>10
<1>5. CASE Post(r)
  BY <1>5 DEF Post, Midway
<1>6. CASE SetApproved(r)
  <2>1. q = [step |-> "approve"]
    BY <1>1, <1>6, LocalFields DEF SetApproved, At
  <2>2. Set(r, [step |-> "pay"]) /\ sealed' = sealed
    BY <1>6, <2>1, GotoSets DEF SetApproved, Midway
  <2> QED BY <2>2
<1>7. CASE WriteItem(r)
  BY <1>7 DEF WriteItem, Midway
<1>8. CASE SumAgain(r)
  <2>1. q \in SumState
    BY <1>1, <1>8, LocalFields DEF SumAgain, At
  <2> DEFINE new == [q EXCEPT !.step = "retotal", !.amount = Wages(Live)]
  <2>2. new.step = "retotal"
    BY <2>1 DEF SumState
  <2>3. Set(r, new) /\ sealed' = sealed
    BY <1>8 DEF SumAgain, Midway
  <2> HIDE DEF new
  <2> QED BY <2>2, <2>3
<1>9. CASE WriteTotals(r) \/ MarkPaid(r) \/ WriteSum(r) \/ WritePatch(r) \/ Die(r)
  BY <1>9 DEF WriteTotals, MarkPaid, WriteSum, WritePatch, Die
<1> QED BY <1>2, <1>3, <1>4, <1>5, <1>6, <1>7, <1>8, <1>9 DEF Works

LEMMA StepSealInv == TypeOK /\ SealInv /\ [Next]_vars => SealInv'
<1> SUFFICES ASSUME TypeOK, SealInv, [Next]_vars PROVE SealInv'
  OBVIOUS
<1>1. ASSUME NEW r \in Requests, Begins(r) PROVE SealInv'
  <2>1. \E q : Begin(r, q) /\ q.step \notin {"sum", "post"}
    <3>1. Calculate(r) => \E q : Begin(r, q) /\ q.step \notin {"sum", "post"}
      BY DEF Calculate
    <3>2. Approve(r) => \E q : Begin(r, q) /\ q.step \notin {"sum", "post"}
      BY DEF Approve
    <3>3. Patches(r) => \E q : Begin(r, q) /\ q.step \notin {"sum", "post"}
      <4>1. \A s \in Settable : Begin(r, [step |-> "setStatus", status |-> s]) =>
              \E q : Begin(r, q) /\ q.step \notin {"sum", "post"}
        OBVIOUS
      <4>2. \A m \in Months : Begin(r, [step |-> "setMonth", month |-> m]) =>
              \E q : Begin(r, q) /\ q.step \notin {"sum", "post"}
        OBVIOUS
      <4> QED BY <4>1, <4>2 DEF Patches
    <3>4. \A i \in Items, x \in Extras : EditItem(r, i, x) => \E q : Begin(r, q) /\ q.step \notin {"sum", "post"}
      BY DEF EditItem
    <3> QED BY <1>1, <3>1, <3>2, <3>3, <3>4 DEF Begins
  <2>2. PICK q : Set(r, q) /\ sealed' = sealed /\ q.step \notin {"sum", "post"}
    BY <2>1 DEF Begin
  <2> QED BY <2>2, SetSeals
<1>2. ASSUME NEW r \in Requests, Works(r) PROVE SealInv'
  <2>1. CASE End(r)
    BY <2>1, EndSeals
  <2>2. ASSUME sealed' = sealed, NEW q, Set(r, q),
               q.step = "sum" => request[r].step = "check" /\ q.month = request[r].month /\ q.month \notin locked,
               q.step = "post" => request[r].step = "sum" /\ q.month = request[r].month
        PROVE  SealInv'
    <3>1. q.step \in {"sum", "post"} => q.month \notin sealed
      BY <2>2 DEF SealInv, TypeOK
    <3> QED BY <2>2, <3>1, SetSeals
  <2> QED BY <1>2, <2>1, <2>2, WorksOn
<1>3. ASSUME NEW m \in Lockable, LockPeriod(m) \/ UnlockPeriod(m) PROVE SealInv'
  <2>1. CASE \A r \in Requests : Idle(r)
    BY <1>3, <2>1 DEF LockPeriod, UnlockPeriod, SealInv, Idle
  <2>2. CASE ~ \A r \in Requests : Idle(r)
    BY <1>3, <2>2 DEF LockPeriod, UnlockPeriod, SealInv
  <2> QED BY <2>1, <2>2
<1>4. CASE UNCHANGED <<request, sealed>>
  BY <1>4 DEF SealInv
<1>5. World => UNCHANGED <<request, sealed>> \/ \E m \in Lockable : LockPeriod(m) \/ UnlockPeriod(m)
  BY DEF World, UpdateEmployee, DeleteEmployee, vars
<1> QED BY <1>1, <1>2, <1>3, <1>4, <1>5, NextIs

\* Only an approval posts.
LEMMA WhoPosts ==
    ASSUME TypeOK, [Next]_vars, posted' # posted
    PROVE  \E r \in Requests : /\ request[r].step = "post"
                              /\ posted' = Append(posted, [month |-> request[r].month, amount |-> request[r].amount])
<1>1. ~World
  BY DEF World, UpdateEmployee, DeleteEmployee, LockPeriod, UnlockPeriod, vars, books
<1>2. PICK r \in Requests : Begins(r) \/ Works(r)
  BY <1>1, NextIs
<1>3. ~Begins(r)
  BY BeginsTyped DEF Begin, books
<1>4. Post(r)
  BY <1>2, <1>3 DEF Works, Preserve, Clear, ListEmployees, Inserts, InsertItem, WriteTotals, PassLock, SumItems,
     SetApproved, MarkPaid, WriteItem, SumAgain, WriteSum, WritePatch, Die, books
<1> QED BY <1>4 DEF Post, At

(* A month that has been locked since a moment of rest takes no wages,       *)
(* whoever else is on the run and whatever is done to its month: the entry   *)
(* goes to the month the approval has asked for (payroll.routes.ts).         *)
THEOREM ClosedMonthsUnpaid == Spec => ClosedMonthsTakeNoWages
<1>1. Init => SealInv
  BY DEF Init, SealInv, Resting
<1>2. TypeOK /\ SealInv /\ [Next]_vars => [posted' # posted => Last(posted').month \notin sealed]_vars
  <2> SUFFICES ASSUME TypeOK, SealInv, [Next]_vars, posted' # posted PROVE Last(posted').month \notin sealed
    OBVIOUS
  <2>1. PICK r \in Requests : /\ request[r].step = "post"
                            /\ posted' = Append(posted, [month |-> request[r].month, amount |-> request[r].amount])
    BY WhoPosts
  <2>2. Last(posted') = [month |-> request[r].month, amount |-> request[r].amount]
    BY <2>1 DEF Last, TypeOK
  <2> QED BY <2>1, <2>2 DEF SealInv
<1> QED BY <1>1, <1>2, InitTypeOK, StepTypeOK, StepSealInv, PTL DEF Spec, ClosedMonthsTakeNoWages

-----------------------------------------------------------------------------
(* Hand edits.                                                               *)

\* What is done to a table of items in one step.
LEMMA WhoWritesItems ==
    ASSUME TypeOK, [Next]_vars, item' # item
    PROVE  \/ \E r \in Requests : Clear(r) \/ Inserts(r) \/ MarkPaid(r) \/ WriteItem(r)
           \/ \E e \in Employees : DeleteEmployee(e)
<1>1. World => \E e \in Employees : DeleteEmployee(e)
  BY DEF World, UpdateEmployee, LockPeriod, UnlockPeriod, vars, books
<1>2. \A r \in Requests : ~Begins(r)
  BY BeginsTyped DEF Begin, books
<1>3. \A r \in Requests : Works(r) => Clear(r) \/ Inserts(r) \/ MarkPaid(r) \/ WriteItem(r)
  BY DEF Works, Preserve, ListEmployees, WriteTotals, PassLock, SumItems, Post, SetApproved, SumAgain, WriteSum,
     WritePatch, Die, Midway, books
<1> QED BY <1>1, <1>2, <1>3, NextIs

(* What was entered by hand changes by another edit of the item, is marked   *)
(* as paid, or goes with its employee; no calculation touches it, whatever   *)
(* interleaves (payroll.routes.ts deletes the items that are not edited).    *)
THEOREM HandEditsStay == Spec => HandEditsSurvive
<1> DEFINE Stays(i) == \/ \E r \in Requests : At(r, "write") /\ request[r].item = i /\ ~At(r, "write")'
                       \/ item'[i] = [item[i] EXCEPT !.state = "paid"]
                       \/ employee'[item[i].employee].state = "deleted"
<1>1. ASSUME TypeOK, [Next]_vars, NEW i \in EditedItems, item'[i] # item[i] PROVE Stays(i)
  <2>1. i \in Live /\ i \in Items /\ item[i].state # "absent"
    BY DEF EditedItems, Live
  <2>2. ASSUME NEW r \in Requests, Clear(r) PROVE FALSE
    BY <1>1, <2>1, <2>2 DEF Clear, DeleteItems
  <2>3. ASSUME NEW r \in Requests, Inserts(r) PROVE FALSE
    <3>1. PICK k \in Items : Unknown(k) /\ \E row : item' = [item EXCEPT ![k] = row]
      BY <2>3 DEF Inserts, InsertItem
    <3>2. k # i
      BY <2>1, <3>1 DEF Unknown
    <3> QED BY <1>1, <2>1, <3>1, <3>2 DEF TypeOK
  <2>4. ASSUME NEW r \in Requests, MarkPaid(r) PROVE Stays(i)
    <3>1. item'[i] = [item[i] EXCEPT !.state = "paid"]
      BY <2>1, <2>4 DEF MarkPaid
    <3> QED BY <3>1
  <2>5. ASSUME NEW r \in Requests, WriteItem(r) PROVE Stays(i)
    <3>1. At(r, "write") /\ Set(r, [step |-> "resum", amount |-> 0])
      BY <2>5 DEF WriteItem
    <3>2. ~At(r, "write")'
      BY <1>1, <3>1, SetKeeps DEF At
    <3>3. request[r].item = i
      BY <1>1, <2>1, <2>5 DEF WriteItem, TypeOK
    <3> QED BY <3>1, <3>2, <3>3
  <2>6. ASSUME NEW e \in Employees, DeleteEmployee(e) PROVE Stays(i)
    <3>1. item[i].employee = e
      BY <1>1, <2>1, <2>6 DEF DeleteEmployee, DeleteItems
    <3>2. employee'[e].state = "deleted"
      BY <1>1, <2>6 DEF DeleteEmployee, TypeOK
    <3> QED BY <3>1, <3>2
  <2>7. item' # item
    BY <1>1
  <2> QED BY <1>1, <2>2, <2>3, <2>4, <2>5, <2>6, <2>7, WhoWritesItems
<1>2. TypeOK /\ [Next]_vars => [\A i \in EditedItems : item'[i] # item[i] => Stays(i)]_vars
  BY <1>1
<1> QED BY <1>2, InitTypeOK, StepTypeOK, PTL DEF Spec, HandEditsSurvive
-----------------------------------------------------------------------------
(* What each step of a handler does to its own state and to the tables.       *)

\* A handler at rest while another takes the only step.
Sole == past # "crossed" => \A q, r \in Requests : Idle(q) \/ Idle(r) \/ q = r

LEMMA WorkersBusy == ASSUME NEW r \in Requests, Works(r) PROVE ~Idle(r)
BY DEF Works, Preserve, Clear, ListEmployees, Inserts, WriteTotals, PassLock, SumItems, Post, SetApproved,
   MarkPaid, WriteItem, SumAgain, WriteSum, WritePatch, Die, At, Idle

LEMMA PastStays == ASSUME NEW r \in Requests, Works(r) PROVE past' = past \/ (past = "clean" /\ past' = "torn" /\ Die(r))
BY DEF Works, Preserve, Clear, ListEmployees, Inserts, InsertItem, WriteTotals, PassLock, SumItems, Post, SetApproved,
   MarkPaid, WriteItem, SumAgain, WriteSum, WritePatch, Die, Midway

\* Whose request changes with a step of r.
LEMMA OnlyOwn ==
    ASSUME TypeOK, NEW r \in Requests, Works(r)
    PROVE  \A s \in Requests \ {r} : request'[s] = request[s]
BY WorksOn, EndKeeps, SetKeeps

LEMMA Alone ==
    ASSUME TypeOK, Sole, NEW r \in Requests, Begins(r) \/ Works(r), past' # "crossed"
    PROVE  /\ past # "crossed" /\ (past' = "clean" => past = "clean")
           /\ \A s \in Requests \ {r} : request[s].step = "idle" /\ request'[s].step = "idle"
<1>1. CASE Begins(r)
  <2>1. PICK q \in LocalState : Begin(r, q) /\ Set(r, q)
    BY <1>1, BeginsTyped
  <2>2. past' = past /\ \A s \in Requests : Idle(s)
    BY <2>1 DEF Begin
  <2> QED BY <2>1, <2>2, SetKeeps DEF Idle
<1>2. CASE Works(r)
  <2>1. past # "crossed" /\ (past' = "clean" => past = "clean")
    BY <1>2, PastStays
  <2>2. \A s \in Requests \ {r} : Idle(s)
    BY <1>2, <2>1, WorkersBusy DEF Sole
  <2> QED BY <1>2, <2>1, <2>2, OnlyOwn DEF Idle
<1> QED BY <1>1, <1>2

LEMMA StepSole == TypeOK /\ Sole /\ [Next]_vars => Sole'
<1> SUFFICES ASSUME TypeOK, Sole, [Next]_vars PROVE Sole'
  OBVIOUS
<1>1. ASSUME NEW r \in Requests, Begins(r) \/ Works(r) PROVE Sole'
  <2>1. CASE past' = "crossed"
    BY <2>1 DEF Sole
  <2>2. CASE past' # "crossed"
    BY <1>1, <2>2, Alone DEF Sole, Idle
  <2> QED BY <2>1, <2>2
<1>2. World => UNCHANGED <<request, past>>
  BY DEF World, UpdateEmployee, DeleteEmployee, LockPeriod, UnlockPeriod, vars
<1> QED BY <1>1, <1>2, NextIs DEF Sole, Idle

LEMMA PreserveMoves ==
    ASSUME TypeOK, NEW r \in Requests, Preserve(r)
    PROVE  /\ request'[r].step = "clear"
           /\ request'[r].keep = {item[i].employee : i \in EditedIn(item)}
           /\ request'[r].amount = Due(item, EditedIn(item))
<1> DEFINE keep == {item[i].employee : i \in EditedItems}
<1>1. request[r] \in CalcState
  BY LocalFields DEF TypeOK, Preserve, At
<1>2. request'[r] = [request[r] EXCEPT !.step = "clear", !.amount = Wages(EditedItems), !.keep = keep]
  BY SetKeeps DEF Preserve
<1>3. Wages(EditedItems) = Due(item, EditedIn(item))
  BY WagesAreDue, NamesOfItems DEF EditedIn, LiveIn
<1>4. keep = {item[i].employee : i \in EditedIn(item)}
  BY NamesOfItems
<1> HIDE DEF keep
<1> QED BY <1>1, <1>2, <1>3, <1>4 DEF CalcState

LEMMA ClearMoves ==
    ASSUME TypeOK, NEW r \in Requests, Clear(r)
    PROVE  /\ request[r].step = "clear" /\ request'[r].step = "list"
           /\ request'[r].keep = request[r].keep /\ request'[r].amount = request[r].amount
           /\ LiveIn(item') = EditedIn(item) /\ EditedIn(item') = EditedIn(item)
           /\ \A i \in EditedIn(item) : item'[i] = item[i]
           /\ Due(item', LiveIn(item')) = Due(item, EditedIn(item))
<1>1. request[r] \in CalcState /\ request[r].step = "clear"
  BY LocalFields DEF TypeOK, Clear, At
<1>2. request'[r] = [request[r] EXCEPT !.step = "list"]
  BY GotoSets, SetKeeps DEF Clear
<1>3. request'[r].step = "list" /\ request'[r].keep = request[r].keep /\ request'[r].amount = request[r].amount
  BY <1>1, <1>2 DEF CalcState
<1>4. \A i \in Items : item'[i] = IF i \in LiveIn(item) \ EditedIn(item) THEN NoItem ELSE item[i]
  BY NamesOfItems DEF Clear, DeleteItems
<1>5. LiveIn(item') = EditedIn(item) /\ EditedIn(item') = EditedIn(item)
      /\ \A i \in EditedIn(item) : item'[i] = item[i]
  BY <1>4 DEF LiveIn, EditedIn, NoItem
<1>6. Due(item', LiveIn(item')) = Due(item, EditedIn(item))
  BY <1>5, DueSame
<1> QED BY <1>1, <1>3, <1>5, <1>6

LEMMA ListMoves ==
    ASSUME TypeOK, NEW r \in Requests, ListEmployees(r)
    PROVE  /\ request[r].step = "list" /\ item' = item
           /\ \/ request'[r].step = "idle" /\ request[r].keep = {}
              \/ /\ request'[r].step = "insert" /\ request'[r].amount = request[r].amount
                 /\ \A n \in request'[r].left : n[1] \notin request[r].keep /\ n = <<n[1], employee[n[1]].pay>>
<1> DEFINE left == {<<e, employee[e].pay>> : e \in {e \in Employees : employee[e].state = "active"} \ request[r].keep}
           new == [request[r] EXCEPT !.step = "insert", !.left = left, !.keep = {}]
<1>1. request[r] \in CalcState /\ request[r].step = "list"
  BY LocalFields DEF TypeOK, ListEmployees, At
<1>2. item' = item
  BY DEF ListEmployees, books
<1>3. (End(r) /\ request[r].keep = {}) \/ Set(r, new)
  BY DEF ListEmployees
<1>4. CASE End(r) /\ request[r].keep = {}
  BY <1>1, <1>2, <1>4, EndKeeps DEF Resting
<1>5. CASE Set(r, new)
  <2>1. new.step = "insert" /\ new.left = left /\ new.amount = request[r].amount
    BY <1>1 DEF CalcState
  <2>2. request'[r] = new
    <3> HIDE DEF new
    <3> QED BY <1>5, SetKeeps
  <2> QED BY <1>1, <1>2, <2>1, <2>2
<1> QED BY <1>3, <1>4, <1>5

LEMMA InsertMoves ==
    ASSUME TypeOK, NEW r \in Requests, Inserts(r)
    PROVE  /\ request[r].step = "insert" /\ request'[r].step = "insert"
           /\ \E next \in request[r].left, i \in Items :
                /\ request'[r].left = request[r].left \ {next}
                /\ request'[r].amount = request[r].amount + NetIn(item')[i]
                /\ item[i].state = "absent" /\ item'[i].state = "pending" /\ item'[i].employee = next[1]
                /\ ~item'[i].edited
                /\ \A k \in Items \ {i} : item'[k] = item[k]
<1> DEFINE q == request[r]
<1>1. PICK next \in q.left, i \in Items : InsertItem(r, next, i)
  BY DEF Inserts
<1>2. q \in CalcState /\ q.step = "insert"
  BY LocalFields DEF TypeOK, Inserts, At
<1>3. next \in Employees \X Pays /\ next[2] \in Pays /\ q.amount \in Int
  BY <1>2 DEF CalcState
<1> DEFINE row == [state |-> "pending", employee |-> next[1], basic |-> next[2], extra |-> 0, edited |-> FALSE]
           new == [q EXCEPT !.left = @ \ {next}, !.amount = @ + next[2]]
<1>4. item' = [item EXCEPT ![i] = row] /\ Set(r, new) /\ item[i].state = "absent"
  BY <1>1 DEF InsertItem, Unknown
<1>5. new.step = "insert" /\ new.left = q.left \ {next} /\ new.amount = q.amount + next[2]
  BY <1>2 DEF CalcState
<1>6. request'[r] = new
  <2> HIDE DEF new
  <2> QED BY <1>4, SetKeeps
<1>7. item'[i] = row /\ \A k \in Items \ {i} : item'[k] = item[k]
  <2> HIDE DEF row
  <2> QED BY <1>4 DEF TypeOK
<1>8. NetIn(item')[i] = next[2]
  <2>1. next[2] \in Int
    BY <1>3, AmountsAreInt
  <2> QED BY <1>7, <2>1 DEF NetIn
<1> HIDE DEF q, new
<1> QED BY <1>2, <1>4, <1>5, <1>6, <1>7, <1>8 DEF q

LEMMA TotalsMove ==
    ASSUME TypeOK, NEW r \in Requests, WriteTotals(r)
    PROVE  /\ request[r].step = "insert" /\ request'[r].step = "idle"
           /\ item' = item /\ run'.total = request[r].amount /\ run'.status = "calculated"
BY EndKeeps DEF WriteTotals, At, Resting, TypeOK, Row

LEMMA ApprovalMoves ==
    ASSUME TypeOK, NEW r \in Requests, PassLock(r) \/ SumItems(r)
    PROVE  /\ UNCHANGED <<run, item, posted, outside>> /\ request[r].step \in {"check", "sum"}
           /\ \/ request'[r].step \in {"idle", "sum"}
              \/ /\ request'[r].step = "post" /\ LiveIn(item) # {}
                 /\ request'[r].amount = Due(item, LiveIn(item))
<1>1. request[r] \in ApprovalState /\ request[r].step \in {"check", "sum"}
  BY LocalFields DEF TypeOK, PassLock, SumItems, At
<1>2. UNCHANGED <<run, item, posted, outside>>
  BY DEF PassLock, SumItems, books
<1>3. CASE PassLock(r)
  <2> DEFINE new == [request[r] EXCEPT !.step = "sum"]
  <2>1. new.step = "sum" /\ Resting.step = "idle"
    BY <1>1 DEF ApprovalState, Resting
  <2>2. End(r) \/ Set(r, new)
    BY <1>3, GotoSets DEF PassLock
  <2> HIDE DEF new
  <2>3. request'[r] = Resting \/ request'[r] = new
    BY <2>2, EndKeeps, SetKeeps
  <2> QED BY <1>1, <1>2, <2>1, <2>3
<1>4. CASE SumItems(r)
  <2> DEFINE new == [request[r] EXCEPT !.step = "post", !.amount = Wages(Live)]
  <2>1. new.step = "post" /\ new.amount = Due(item, LiveIn(item))
    <3>1. Wages(Live) = Due(item, LiveIn(item))
      BY WagesAreDue, NamesOfItems DEF LiveIn
    <3> QED BY <1>1, <3>1 DEF ApprovalState
  <2>2. End(r) \/ (Set(r, new) /\ LiveIn(item) # {})
    BY <1>4, NamesOfItems DEF SumItems
  <2>3. request'[r] = Resting \/ (request'[r] = new /\ LiveIn(item) # {})
    <3> HIDE DEF new
    <3> QED BY <2>2, EndKeeps, SetKeeps
  <2>4. Resting.step = "idle"
    BY DEF Resting
  <2>5. request'[r].step = "idle" \/ (/\ request'[r].step = "post" /\ LiveIn(item) # {}
                                    /\ request'[r].amount = Due(item, LiveIn(item)))
    <3> HIDE DEF new
    <3> QED BY <2>1, <2>3, <2>4
  <2> QED BY <1>1, <1>2, <2>5
<1> QED BY <1>3, <1>4

LEMMA PostMoves ==
    ASSUME TypeOK, NEW r \in Requests, Post(r)
    PROVE  /\ request[r].step = "post" /\ request'[r].step = "approve" /\ UNCHANGED <<run, item, outside>>
           /\ Len(posted') = Len(posted) + 1 /\ posted' # <<>>
           /\ Last(posted').amount = request[r].amount
<1>1. posted' = Append(posted, [month |-> request[r].month, amount |-> request[r].amount])
      /\ request[r].step = "post" /\ UNCHANGED <<run, item, outside>>
  BY DEF Post, At
<1>2. request'[r] = [step |-> "approve"]
  BY SetKeeps DEF Post
<1>3. posted \in Seq([month : Months, amount : Int])
  BY DEF TypeOK
<1>4. Len(posted') = Len(posted) + 1 /\ posted' # <<>>
  BY <1>1, <1>3
<1>5. Last(posted') = [month |-> request[r].month, amount |-> request[r].amount]
  BY <1>1, <1>3 DEF Last
<1> QED BY <1>1, <1>2, <1>4, <1>5

LEMMA ApprovedMoves ==
    ASSUME TypeOK, NEW r \in Requests, SetApproved(r)
    PROVE  /\ request[r].step = "approve" /\ request'[r].step = "pay" /\ UNCHANGED <<item, posted, outside>>
           /\ run'.status = "approved" /\ run'.total = run.total
<1>1. request[r] = [step |-> "approve"]
  BY LocalFields DEF TypeOK, SetApproved, At
<1>2. Set(r, [step |-> "pay"])
  BY <1>1, GotoSets DEF SetApproved
<1> QED BY <1>1, <1>2, SetKeeps DEF SetApproved, TypeOK, Row

LEMMA PaidMoves ==
    ASSUME TypeOK, NEW r \in Requests, MarkPaid(r)
    PROVE  /\ request[r].step = "pay" /\ request'[r].step = "idle" /\ UNCHANGED <<run, posted, outside>>
           /\ LiveIn(item') = LiveIn(item) /\ Due(item', LiveIn(item')) = Due(item, LiveIn(item))
           /\ \A i \in LiveIn(item) : item'[i].state = "paid" /\ item'[i].employee = item[i].employee
<1>1. \A i \in LiveIn(item) : item'[i] = [item[i] EXCEPT !.state = "paid"]
  BY NamesOfItems DEF MarkPaid, LiveIn
<1>2. \A i \in LiveIn(item) : /\ item'[i].state = "paid" /\ item'[i].employee = item[i].employee
                              /\ item'[i].basic = item[i].basic /\ item'[i].extra = item[i].extra
  <2>1. item \in Table
    BY DEF TypeOK, Table
  <2> QED BY <1>1, <2>1, ItemFields
<1>3. \A i \in Items \ LiveIn(item) : item'[i] = item[i]
  BY NamesOfItems DEF MarkPaid
<1>4. LiveIn(item') = LiveIn(item)
  BY <1>2, <1>3 DEF LiveIn
<1>5. Due(item', LiveIn(item')) = Due(item, LiveIn(item))
  BY <1>2, <1>4, DueSame
<1> QED BY <1>2, <1>4, <1>5, EndKeeps DEF MarkPaid, At, Resting

LEMMA WriteMoves ==
    ASSUME TypeOK, NEW r \in Requests, WriteItem(r)
    PROVE  /\ request[r].step = "write" /\ request'[r].step = "resum" /\ UNCHANGED <<run, posted, outside>>
           /\ LiveIn(item') = LiveIn(item)
           /\ \A i \in LiveIn(item) : item'[i].employee = item[i].employee
<1> DEFINE k == request[r].item
           new == [item[k] EXCEPT !.extra = request[r].extra, !.edited = TRUE]
<1>1. request'[r] = [step |-> "resum", amount |-> 0] /\ request[r].step = "write" /\ UNCHANGED <<run, posted, outside>>
  BY SetKeeps DEF WriteItem, At
<1>2. CASE k \notin Live
  BY <1>1, <1>2 DEF WriteItem
<1>3. CASE k \in Live
  <2>1. k \in LiveIn(item) /\ k \in Items /\ item \in Table
    BY <1>3, NamesOfItems DEF LiveIn, TypeOK, Table
  <2>2. new.state = item[k].state /\ new.employee = item[k].employee
    BY <2>1, ItemFields
  <2>3. item' = [item EXCEPT ![k] = new]
    BY <1>3, <2>1 DEF WriteItem, Table
  <2>4. \A i \in Items : item'[i].state = item[i].state /\ item'[i].employee = item[i].employee
    <3> HIDE DEF new
    <3> QED BY <2>1, <2>2, <2>3 DEF Table
  <2> QED BY <1>1, <2>4 DEF LiveIn
<1> QED BY <1>2, <1>3

LEMMA SumMoves ==
    ASSUME TypeOK, NEW r \in Requests, SumAgain(r)
    PROVE  /\ request[r].step = "resum" /\ request'[r].step = "retotal" /\ UNCHANGED <<run, item, posted, outside>>
           /\ request'[r].amount = Due(item, LiveIn(item))
<1> DEFINE new == [request[r] EXCEPT !.step = "retotal", !.amount = Wages(Live)]
<1>1. request[r] \in SumState /\ request[r].step = "resum" /\ UNCHANGED <<run, item, posted, outside>>
  BY LocalFields DEF TypeOK, SumAgain, At, books
<1>2. Wages(Live) = Due(item, LiveIn(item))
  BY WagesAreDue, NamesOfItems DEF LiveIn
<1>3. new.step = "retotal" /\ new.amount = Due(item, LiveIn(item))
  BY <1>1, <1>2 DEF SumState
<1>4. request'[r] = new
  <2>1. Set(r, new)
    BY DEF SumAgain
  <2> HIDE DEF new
  <2> QED BY <2>1, SetKeeps
<1> HIDE DEF new
<1> QED BY <1>1, <1>3, <1>4

LEMMA RetotalMoves ==
    ASSUME TypeOK, NEW r \in Requests, WriteSum(r)
    PROVE  /\ request[r].step = "retotal" /\ request'[r].step = "idle" /\ UNCHANGED <<item, posted, outside>>
           /\ run'.total = request[r].amount /\ run'.status = run.status
BY EndKeeps DEF WriteSum, At, Resting, TypeOK, Row

LEMMA PatchMoves ==
    ASSUME TypeOK, NEW r \in Requests, WritePatch(r)
    PROVE  /\ request[r].step \in {"setStatus", "setMonth"} /\ request'[r].step = "idle"
           /\ UNCHANGED <<item, posted>> /\ run'.total = run.total
           /\ (outside \/ run'.status = "approved") => outside' \/ run.status = "approved"
<1>1. request'[r] = Resting /\ UNCHANGED <<item, posted>> /\ request[r].step \in {"setStatus", "setMonth"}
  BY EndKeeps DEF WritePatch, At
<1>2. run'.total = run.total /\ (outside \/ run'.status = "approved" => outside' \/ run.status = "approved")
  BY DEF WritePatch, TypeOK, Row, At
<1> QED BY <1>1, <1>2 DEF Resting

LEMMA DieMoves ==
    ASSUME TypeOK, NEW r \in Requests, Die(r)
    PROVE  /\ request'[r].step = "idle" /\ UNCHANGED <<run, item, posted, outside>>
           /\ past' = "clean" => request[r].step \notin BetweenWrites
BY EndKeeps DEF Die, Resting, books
-----------------------------------------------------------------------------
(* One item for every employee.                                              *)

\* The employees kept or already calculated are not those still to be calculated.
WageInv ==
    past # "crossed" =>
      /\ \A i, j \in LiveIn(item) : item[i].employee = item[j].employee => i = j
      /\ \A r \in Requests :
          /\ request[r].step = "clear" => \A i \in EditedIn(item) : item[i].employee \in request[r].keep
          /\ request[r].step = "list" => \A i \in LiveIn(item) : item[i].employee \in request[r].keep
          /\ request[r].step = "insert" =>
               \A n \in request[r].left : /\ \A m \in request[r].left : n[1] = m[1] => n = m
                                          /\ \A i \in LiveIn(item) : item[i].employee # n[1]

\* A step that leaves the items alone, and its handler at none of those steps.
LEMMA WagesUntouched ==
    ASSUME TypeOK, Sole, WageInv, NEW r \in Requests, Begins(r) \/ Works(r), past' # "crossed",
           LiveIn(item') \subseteq LiveIn(item),
           \A i \in LiveIn(item') : item'[i].employee = item[i].employee,
           request'[r].step \notin {"clear", "list", "insert"}
    PROVE  WageInv'
<1>1. \A s \in Requests : request'[s].step \notin {"clear", "list", "insert"} /\ past # "crossed"
  BY Alone
<1>2. \A i, j \in LiveIn(item') : item'[i].employee = item'[j].employee => i = j
  BY <1>1 DEF WageInv
<1> QED BY <1>1, <1>2 DEF WageInv

LEMMA BeginsAt ==
    ASSUME TypeOK, NEW r \in Requests, Begins(r)
    PROVE  /\ request'[r].step \in {"preserve", "check", "write", "setStatus", "setMonth"}
           /\ UNCHANGED books /\ run.status # "approved"
<1> DEFINE At0(l) == Begin(r, l) /\ l.step \in {"preserve", "check", "write", "setStatus", "setMonth"}
<1>1. Calculate(r) => \E l : At0(l)
  BY DEF Calculate
<1>2. Approve(r) => \E l : At0(l)
  BY DEF Approve
<1>3. Patches(r) => \E l : At0(l)
  <2>1. \A s \in Settable : Begin(r, [step |-> "setStatus", status |-> s]) => \E l : At0(l)
    OBVIOUS
  <2>2. \A m \in Months : Begin(r, [step |-> "setMonth", month |-> m]) => \E l : At0(l)
    OBVIOUS
  <2> QED BY <2>1, <2>2 DEF Patches
<1>4. \A i \in Items, x \in Extras : EditItem(r, i, x) => \E l : At0(l)
  BY DEF EditItem
<1>5. PICK l : At0(l)
  BY <1>1, <1>2, <1>3, <1>4 DEF Begins
<1>6. request'[r] = l /\ UNCHANGED books
  BY <1>5, SetKeeps DEF Begin
<1>7. run.status # "approved"
  BY DEF Begins, Calculate, Approve, Patches, EditItem
<1> QED BY <1>5, <1>6, <1>7

LEMMA StepWageInv == TypeOK /\ Sole /\ WageInv /\ [Next]_vars => WageInv'
<1> SUFFICES ASSUME TypeOK, Sole, WageInv, [Next]_vars, past' # "crossed" PROVE WageInv'
  BY DEF WageInv
<1>1. ASSUME NEW r \in Requests, Begins(r) PROVE WageInv'
  <2>1. item' = item /\ request'[r].step \notin {"clear", "list", "insert"}
    BY <1>1, BeginsAt DEF books
  <2> QED BY <1>1, <2>1, WagesUntouched
<1>2. ASSUME NEW r \in Requests, Works(r) PROVE WageInv'
  <2>1. /\ past # "crossed" /\ (past' = "clean" => past = "clean")
        /\ \A s \in Requests \ {r} : request[s].step = "idle" /\ request'[s].step = "idle"
    BY <1>2, Alone
  <2>2. CASE Preserve(r)
    <3>1. item' = item
      BY <2>2 DEF Preserve, books
    <3>2. request'[r].step = "clear" /\ request'[r].keep = {item[i].employee : i \in EditedIn(item)}
      BY <2>2, PreserveMoves
    <3> QED BY <2>1, <3>1, <3>2 DEF WageInv
  <2>3. CASE Clear(r)
    <3>1. request[r].step = "clear" /\ request'[r].step = "list" /\ request'[r].keep = request[r].keep
          /\ LiveIn(item') = EditedIn(item) /\ \A i \in EditedIn(item) : item'[i] = item[i]
      BY <2>3, ClearMoves
    <3>2. EditedIn(item) \subseteq LiveIn(item)
      BY DEF EditedIn
    <3> QED BY <2>1, <3>1, <3>2 DEF WageInv
  <2>4. CASE ListEmployees(r)
    <3>1. request[r].step = "list" /\ item' = item
      BY <2>4, ListMoves
    <3>2. CASE request'[r].step = "idle"
      BY <1>2, <3>1, <3>2, WagesUntouched
    <3>3. CASE request'[r].step # "idle"
      <4>1. request'[r].step = "insert"
            /\ \A n \in request'[r].left : n[1] \notin request[r].keep /\ n = <<n[1], employee[n[1]].pay>>
        BY <2>4, <3>3, ListMoves
      <4>2. \A n, m \in request'[r].left : n[1] = m[1] => n = m
        BY <4>1
      <4> QED BY <2>1, <3>1, <4>1, <4>2 DEF WageInv
    <3> QED BY <3>2, <3>3
  <2>5. CASE Inserts(r)
    <3>1. request[r].step = "insert" /\ request'[r].step = "insert"
      BY <2>5, InsertMoves
    <3>2. PICK next \in request[r].left, i \in Items :
            /\ request'[r].left = request[r].left \ {next}
            /\ item[i].state = "absent" /\ item'[i].state = "pending" /\ item'[i].employee = next[1]
            /\ \A k \in Items \ {i} : item'[k] = item[k]
      BY <2>5, InsertMoves
    <3>3. LiveIn(item') = LiveIn(item) \cup {i} /\ i \notin LiveIn(item)
      BY <3>2 DEF LiveIn
    <3>4. \A k \in LiveIn(item) : item'[k].employee = item[k].employee /\ item[k].employee # next[1]
      BY <2>1, <3>1, <3>2, <3>3 DEF WageInv, LiveIn
    <3>5. \A k, j \in LiveIn(item') : item'[k].employee = item'[j].employee => k = j
      BY <2>1, <3>2, <3>3, <3>4 DEF WageInv
    <3>6. \A n \in request'[r].left : /\ \A m \in request'[r].left : n[1] = m[1] => n = m
                                      /\ \A k \in LiveIn(item') : item'[k].employee # n[1]
      BY <2>1, <3>1, <3>2, <3>3, <3>4 DEF WageInv
    <3> QED BY <2>1, <3>1, <3>5, <3>6 DEF WageInv
  <2>6. CASE WriteTotals(r)
    BY <1>2, <2>6, TotalsMove, WagesUntouched
  <2>7. CASE PassLock(r) \/ SumItems(r)
    BY <1>2, <2>7, ApprovalMoves, WagesUntouched
  <2>8. CASE Post(r)
    BY <1>2, <2>8, PostMoves, WagesUntouched
  <2>9. CASE SetApproved(r)
    BY <1>2, <2>9, ApprovedMoves, WagesUntouched
  <2>10. CASE MarkPaid(r)
    BY <1>2, <2>10, PaidMoves, WagesUntouched
  <2>11. CASE WriteItem(r)
    BY <1>2, <2>11, WriteMoves, WagesUntouched
  <2>12. CASE SumAgain(r)
    BY <1>2, <2>12, SumMoves, WagesUntouched
  <2>13. CASE WriteSum(r)
    BY <1>2, <2>13, RetotalMoves, WagesUntouched
  <2>14. CASE WritePatch(r)
    BY <1>2, <2>14, PatchMoves, WagesUntouched
  <2>15. CASE Die(r)
    BY <1>2, <2>15, DieMoves, WagesUntouched
  <2> QED BY <1>2, <2>2, <2>3, <2>4, <2>5, <2>6, <2>7, <2>8, <2>9, <2>10, <2>11, <2>12, <2>13, <2>14, <2>15 DEF Works
<1>3. ASSUME NEW e \in Employees, DeleteEmployee(e) PROVE WageInv'
  <2>1. \A i \in Items : item'[i] = NoItem \/ item'[i] = item[i]
    BY <1>3 DEF DeleteEmployee, DeleteItems
  <2>2. LiveIn(item') \subseteq LiveIn(item) /\ (\A i \in LiveIn(item') : item'[i] = item[i])
        /\ EditedIn(item') \subseteq EditedIn(item)
    BY <2>1 DEF LiveIn, EditedIn, NoItem
  <2>3. UNCHANGED <<request, past>>
    BY <1>3 DEF DeleteEmployee
  <2> QED BY <2>2, <2>3 DEF WageInv, EditedIn
<1>4. World => UNCHANGED <<request, past, item>> \/ \E e \in Employees : DeleteEmployee(e)
  BY DEF World, UpdateEmployee, LockPeriod, UnlockPeriod, vars, books
<1>5. CASE UNCHANGED <<request, past, item>>
  BY <1>5 DEF WageInv, LiveIn, EditedIn
<1> QED BY <1>1, <1>2, <1>3, <1>4, <1>5, NextIs

-----------------------------------------------------------------------------
(* One entry, which only an approval under way has apart from the status.     *)
PostInv ==
    past = "clean" =>
      /\ Len(posted) <= 1
      /\ posted # <<>> => run.status = "approved" \/ \E r \in Requests : request[r].step = "approve"
      /\ \A r \in Requests :
          /\ request[r].step \in {"approve", "pay"} => Len(posted) = 1
          /\ request[r].step = "pay" => run.status = "approved"
          /\ request[r].step \notin {"idle", "approve", "pay"} => run.status # "approved"

\* A step that neither posts nor approves, and its handler at no such step.
LEMMA PostUntouched ==
    ASSUME TypeOK, Sole, PostInv, NEW r \in Requests, Begins(r) \/ Works(r), past' = "clean",
           posted' = posted, request[r].step # "approve", request'[r].step \notin {"approve", "pay"},
           run.status = "approved" => run'.status = "approved",
           request'[r].step # "idle" => run'.status # "approved"
    PROVE  PostInv'
<1>1. past = "clean" /\ \A s \in Requests \ {r} : request[s].step = "idle" /\ request'[s].step = "idle"
  BY Alone
<1>2. \A s \in Requests : request[s].step # "approve"
  BY <1>1
<1>3. posted' # <<>> => run'.status = "approved"
  BY <1>1, <1>2 DEF PostInv
<1> QED BY <1>1, <1>3 DEF PostInv

LEMMA StepPostInv == TypeOK /\ Sole /\ PostInv /\ [Next]_vars => PostInv'
<1> SUFFICES ASSUME TypeOK, Sole, PostInv, [Next]_vars, past' = "clean" PROVE PostInv'
  BY DEF PostInv
<1>1. ASSUME NEW r \in Requests, Begins(r) PROVE PostInv'
  <2>1. request[r].step = "idle"
    BY <1>1 DEF Begins, Calculate, Approve, Patches, EditItem, Begin, Idle
  <2>2. UNCHANGED <<run, posted>> /\ run.status # "approved"
        /\ request'[r].step \in {"preserve", "check", "write", "setStatus", "setMonth"}
    BY <1>1, BeginsAt DEF books
  <2> QED BY <1>1, <2>1, <2>2, PostUntouched
<1>2. ASSUME NEW r \in Requests, Works(r) PROVE PostInv'
  <2>1. past = "clean" /\ \A s \in Requests \ {r} : request[s].step = "idle" /\ request'[s].step = "idle"
    BY <1>2, Alone
  <2>2. \A s \in Requests : request[s].step = "idle" \/ s = r
    BY <2>1
  <2>3. request[r].step \notin {"idle", "approve", "pay"} => run.status # "approved"
    BY <2>1 DEF PostInv
  <2>4. CASE Preserve(r)
    <3>1. UNCHANGED <<run, posted>> /\ request[r].step = "preserve"
      BY <2>4 DEF Preserve, books, At
    <3> QED BY <1>2, <2>3, <2>4, <3>1, PreserveMoves, PostUntouched
  <2>5. CASE Clear(r)
    <3>1. UNCHANGED <<run, posted>>
      BY <2>5 DEF Clear
    <3> QED BY <1>2, <2>3, <2>5, <3>1, ClearMoves, PostUntouched
  <2>6. CASE ListEmployees(r)
    <3>1. UNCHANGED <<run, posted>>
      BY <2>6 DEF ListEmployees, books
    <3> QED BY <1>2, <2>3, <2>6, <3>1, ListMoves, PostUntouched
  <2>7. CASE Inserts(r)
    <3>1. UNCHANGED <<run, posted>>
      BY <2>7 DEF Inserts, InsertItem
    <3> QED BY <1>2, <2>3, <2>7, <3>1, InsertMoves, PostUntouched
  <2>8. CASE WriteTotals(r)
    <3>1. posted' = posted
      BY <2>8 DEF WriteTotals
    <3> QED BY <1>2, <2>3, <2>8, <3>1, TotalsMove, PostUntouched
  <2>9. CASE PassLock(r) \/ SumItems(r)
    BY <1>2, <2>3, <2>9, ApprovalMoves, PostUntouched
  <2>10. CASE Post(r)
    <3>1. request[r].step = "post" /\ request'[r].step = "approve" /\ run' = run
          /\ Len(posted') = Len(posted) + 1
      BY <2>10, PostMoves
    <3>2. posted = <<>>
      BY <2>1, <2>2, <2>3, <3>1 DEF PostInv
    <3>3. Len(posted') = 1
      BY <3>1, <3>2
    <3> QED BY <2>1, <3>1, <3>3 DEF PostInv
  <2>11. CASE SetApproved(r)
    <3>1. request[r].step = "approve" /\ request'[r].step = "pay" /\ posted' = posted /\ run'.status = "approved"
      BY <2>11, ApprovedMoves
    <3> QED BY <2>1, <3>1 DEF PostInv
  <2>12. CASE MarkPaid(r)
    BY <1>2, <2>12, PaidMoves, PostUntouched
  <2>13. CASE WriteItem(r)
    BY <1>2, <2>3, <2>13, WriteMoves, PostUntouched
  <2>14. CASE SumAgain(r)
    BY <1>2, <2>3, <2>14, SumMoves, PostUntouched
  <2>15. CASE WriteSum(r)
    BY <1>2, <2>3, <2>15, RetotalMoves, PostUntouched
  <2>16. CASE WritePatch(r)
    BY <1>2, <2>3, <2>16, PatchMoves, PostUntouched
  <2>17. CASE Die(r)
    BY <1>2, <2>17, DieMoves, PostUntouched DEF BetweenWrites
  <2> QED BY <1>2, <2>4, <2>5, <2>6, <2>7, <2>8, <2>9, <2>10, <2>11, <2>12, <2>13, <2>14, <2>15, <2>16, <2>17 DEF Works
<1>3. World => UNCHANGED <<request, past, posted, run>>
  BY DEF World, UpdateEmployee, DeleteEmployee, LockPeriod, UnlockPeriod, vars, books
<1>4. CASE UNCHANGED <<request, past, posted, run>>
  BY <1>4 DEF PostInv
<1> QED BY <1>1, <1>2, <1>3, <1>4, NextIs

(* Unless two handlers were ever on the run at the same time, no employee    *)
(* has two items, whatever was recalculated, died or came back; and unless   *)
(* one ended between two writes, one entry at most is posted, although the   *)
(* status that guards an approval is written after the entry.                *)
THEOREM WagesOnce == Spec => []WagesPaidOnce
<1>1. Init => Sole /\ WageInv /\ PostInv
  <2> SUFFICES ASSUME Init PROVE Sole /\ WageInv /\ PostInv
    OBVIOUS
  <2>1. (\A r \in Requests : request[r].step = "idle") /\ LiveIn(item) = {} /\ posted = <<>>
    BY DEF Init, Resting, LiveIn, NoItem
  <2> QED BY <2>1 DEF Sole, Idle, WageInv, PostInv
<1>2. WageInv /\ PostInv => WagesPaidOnce
  BY NamesOfItems DEF WageInv, PostInv, WagesPaidOnce
<1> QED BY <1>1, <1>2, InitTypeOK, StepTypeOK, StepSole, StepWageInv, StepPostInv, PTL DEF Spec
-----------------------------------------------------------------------------
(* An approved run tells what was posted.                                    *)

\* What a handler has summed up is what the items still come to.
Summed(r) ==
    /\ request[r].step = "clear" => request[r].amount = Due(item, EditedIn(item))
    /\ request[r].step \in {"list", "insert", "retotal", "post"} => request[r].amount = Due(item, LiveIn(item))
    /\ request[r].step = "post" => LiveIn(item) # {}
    /\ request[r].step \in {"approve", "pay"} =>
         LiveIn(item) # {} /\ Last(posted).amount = Due(item, LiveIn(item))

Rewriting == {"list", "insert", "resum", "retotal"}

TotalsTie ==
    LiveIn(item) # {} => \/ run.total = Due(item, LiveIn(item))
                         \/ \E r \in Requests : request[r].step \in Rewriting

ApprovedTies ==
    run.status = "approved" =>
      \/ \E r \in Requests : request[r].step = "pay"
      \/ /\ Len(posted) = 1 /\ LiveIn(item) # {} /\ Last(posted).amount = Due(item, LiveIn(item))
         /\ \A i \in LiveIn(item) : item[i].state = "paid"

TieInv == past = "clean" /\ ~outside => TotalsTie /\ ApprovedTies /\ \A r \in Requests : Summed(r)

\* With the other handlers at rest there is the one that took the step to look at.
LEMMA TiesOf ==
    ASSUME NEW r \in Requests, \A s \in Requests \ {r} : request'[s].step = "idle", Summed(r)',
           \/ LiveIn(item') = {} \/ run'.total = Due(item', LiveIn(item')) \/ request'[r].step \in Rewriting,
           \/ run'.status # "approved" \/ request'[r].step = "pay"
           \/ /\ Len(posted') = 1 /\ LiveIn(item') # {} /\ Last(posted').amount = Due(item', LiveIn(item'))
              /\ \A i \in LiveIn(item') : item'[i].state = "paid"
    PROVE  TieInv'
<1>1. \A s \in Requests : Summed(s)'
  BY DEF Summed
<1>2. TotalsTie'
  BY DEF TotalsTie
<1>3. ApprovedTies'
  BY DEF ApprovedTies
<1> QED BY <1>1, <1>2, <1>3 DEF TieInv

LEMMA StepTieInv == TypeOK /\ Sole /\ WageInv /\ PostInv /\ TieInv /\ [Next]_vars => TieInv'
<1> SUFFICES ASSUME TypeOK, Sole, WageInv, PostInv, TieInv, [Next]_vars, past' = "clean", ~outside' PROVE TieInv'
  BY DEF TieInv
<1>1. ASSUME NEW r \in Requests, Begins(r) PROVE TieInv'
  <2>1. UNCHANGED <<run, item, posted, outside>> /\ run.status # "approved"
        /\ request'[r].step \in {"preserve", "check", "write", "setStatus", "setMonth"}
    BY <1>1, BeginsAt DEF books
  <2>2. past = "clean" /\ \A s \in Requests \ {r} : request[s].step = "idle" /\ request'[s].step = "idle"
    BY <1>1, Alone
  <2>3. request[r].step = "idle"
    BY <1>1 DEF Begins, Calculate, Approve, Patches, EditItem, Begin, Idle
  <2>4. LiveIn(item) = {} \/ run.total = Due(item, LiveIn(item))
    BY <2>1, <2>2, <2>3 DEF TieInv, TotalsTie, Rewriting
  <2>5. Summed(r)'
    BY <2>1 DEF Summed
  <2> QED BY <2>1, <2>2, <2>4, <2>5, TiesOf
<1>2. ASSUME NEW r \in Requests, Works(r) PROVE TieInv'
  <2>1. past = "clean" /\ \A s \in Requests \ {r} : request[s].step = "idle" /\ request'[s].step = "idle"
    BY <1>2, Alone
  <2>2. ~outside
    BY <1>2 DEF Works, Preserve, Clear, ListEmployees, Inserts, InsertItem, WriteTotals, PassLock, SumItems, Post,
       SetApproved, MarkPaid, WriteItem, SumAgain, WriteSum, WritePatch, Die, Midway, books
  <2>3. TotalsTie /\ ApprovedTies /\ Summed(r)
    BY <2>1, <2>2 DEF TieInv
  <2>4. LiveIn(item) = {} \/ run.total = Due(item, LiveIn(item)) \/ request[r].step \in Rewriting
    BY <2>1, <2>3 DEF TotalsTie, Rewriting
  <2>5. request[r].step \notin {"idle", "approve", "pay"} => run.status # "approved"
    BY <2>1 DEF PostInv
  <2>6. CASE Preserve(r)
    <3>1. UNCHANGED <<run, item, posted>> /\ request[r].step = "preserve"
      BY <2>6 DEF Preserve, books, At
    <3>2. request'[r].step = "clear" /\ request'[r].amount = Due(item', EditedIn(item'))
      BY <2>6, <3>1, PreserveMoves
    <3>3. Summed(r)'
      BY <3>2 DEF Summed
    <3> QED BY <2>1, <2>4, <2>5, <3>1, <3>3, TiesOf DEF Rewriting
  <2>7. CASE Clear(r)
    <3>1. run' = run
      BY <2>7 DEF Clear
    <3>2. request[r].step = "clear" /\ request'[r].step = "list" /\ request'[r].amount = request[r].amount
          /\ Due(item', LiveIn(item')) = Due(item, EditedIn(item))
      BY <2>7, ClearMoves
    <3>3. Summed(r)'
      BY <2>3, <3>2 DEF Summed
    <3> QED BY <2>1, <2>5, <3>1, <3>2, <3>3, TiesOf DEF Rewriting
  <2>8. CASE ListEmployees(r)
    <3>1. UNCHANGED <<run, posted>> /\ item' = item /\ request[r].step = "list"
      BY <2>8, ListMoves DEF ListEmployees, books
    <3>2. CASE request'[r].step = "idle"
      <4>1. request[r].keep = {}
        BY <2>8, <3>2, ListMoves
      <4>2. LiveIn(item') = {}
        BY <2>1, <3>1, <4>1 DEF WageInv
      <4>3. Summed(r)'
        BY <3>2 DEF Summed
      <4> QED BY <2>1, <2>5, <3>1, <4>2, <4>3, TiesOf
    <3>3. CASE request'[r].step # "idle"
      <4>1. request'[r].step = "insert" /\ request'[r].amount = request[r].amount
        BY <2>8, <3>3, ListMoves
      <4>2. Summed(r)'
        BY <2>3, <3>1, <4>1 DEF Summed
      <4> QED BY <2>1, <2>5, <3>1, <4>1, <4>2, TiesOf DEF Rewriting
    <3> QED BY <3>2, <3>3
  <2>9. CASE Inserts(r)
    <3>1. run' = run /\ request[r].step = "insert" /\ request'[r].step = "insert"
      BY <2>9, InsertMoves DEF Inserts, InsertItem
    <3>2. PICK i \in Items :
            /\ request'[r].amount = request[r].amount + NetIn(item')[i]
            /\ item[i].state = "absent" /\ item'[i].state = "pending"
            /\ \A k \in Items \ {i} : item'[k] = item[k]
      BY <2>9, InsertMoves
    <3>3. item \in Table /\ item' \in Table
      BY <2>9, CalculationTyped DEF TablesTyped, TypeOK, Table
    <3>4. Due(item', LiveIn(item')) = Due(item, LiveIn(item)) + NetIn(item')[i]
      BY <3>2, <3>3, DueAdd
    <3>5. request'[r].amount = Due(item', LiveIn(item'))
      BY <2>3, <3>1, <3>2, <3>4 DEF Summed
    <3>6. Summed(r)'
      BY <3>1, <3>5 DEF Summed
    <3> QED BY <2>1, <2>5, <3>1, <3>6, TiesOf DEF Rewriting
  <2>10. CASE WriteTotals(r)
    <3>1. request[r].step = "insert" /\ request'[r].step = "idle" /\ item' = item
          /\ run'.total = request[r].amount /\ run'.status = "calculated"
      BY <2>10, TotalsMove
    <3>2. run'.total = Due(item', LiveIn(item')) /\ Summed(r)'
      BY <2>3, <3>1 DEF Summed
    <3> QED BY <2>1, <3>1, <3>2, TiesOf
  <2>11. CASE PassLock(r) \/ SumItems(r)
    <3>1. UNCHANGED <<run, item, posted, outside>> /\ request[r].step \in {"check", "sum"}
      BY <2>11, ApprovalMoves
    <3>2. \/ request'[r].step \in {"idle", "sum"}
          \/ request'[r].step = "post" /\ LiveIn(item) # {} /\ request'[r].amount = Due(item, LiveIn(item))
      BY <2>11, ApprovalMoves
    <3>3. Summed(r)'
      BY <3>1, <3>2 DEF Summed
    <3> QED BY <2>1, <2>4, <2>5, <3>1, <3>3, TiesOf DEF Rewriting
  <2>12. CASE Post(r)
    <3>1. request[r].step = "post" /\ request'[r].step = "approve" /\ UNCHANGED <<run, item>>
          /\ Last(posted').amount = request[r].amount
      BY <2>12, PostMoves
    <3>2. Summed(r)'
      BY <2>3, <3>1 DEF Summed
    <3> QED BY <2>1, <2>4, <2>5, <3>1, <3>2, TiesOf DEF Rewriting
  <2>13. CASE SetApproved(r)
    <3>1. request[r].step = "approve" /\ request'[r].step = "pay" /\ UNCHANGED <<item, posted>>
          /\ run'.total = run.total
      BY <2>13, ApprovedMoves
    <3>2. Summed(r)'
      BY <2>3, <3>1 DEF Summed
    <3> QED BY <2>1, <2>4, <3>1, <3>2, TiesOf DEF Rewriting
  <2>14. CASE MarkPaid(r)
    <3>1. /\ request[r].step = "pay" /\ request'[r].step = "idle" /\ UNCHANGED <<run, posted>>
          /\ LiveIn(item') = LiveIn(item) /\ Due(item', LiveIn(item')) = Due(item, LiveIn(item))
          /\ \A i \in LiveIn(item) : item'[i].state = "paid"
      BY <2>14, PaidMoves
    <3>2. Len(posted) = 1 /\ LiveIn(item) # {} /\ Last(posted).amount = Due(item, LiveIn(item))
      BY <2>1, <2>3, <3>1 DEF Summed, PostInv
    <3>3. Summed(r)'
      BY <3>1 DEF Summed
    <3> QED BY <2>1, <2>4, <3>1, <3>2, <3>3, TiesOf DEF Rewriting
  <2>15. CASE WriteItem(r)
    <3>1. request[r].step = "write" /\ request'[r].step = "resum" /\ run' = run
      BY <2>15, WriteMoves
    <3>2. Summed(r)'
      BY <3>1 DEF Summed
    <3> QED BY <2>1, <2>5, <3>1, <3>2, TiesOf DEF Rewriting
  <2>16. CASE SumAgain(r)
    <3>1. request[r].step = "resum" /\ request'[r].step = "retotal" /\ UNCHANGED <<run, item>>
          /\ request'[r].amount = Due(item, LiveIn(item))
      BY <2>16, SumMoves
    <3>2. Summed(r)'
      BY <3>1 DEF Summed
    <3> QED BY <2>1, <2>5, <3>1, <3>2, TiesOf DEF Rewriting
  <2>17. CASE WriteSum(r)
    <3>1. request[r].step = "retotal" /\ request'[r].step = "idle" /\ item' = item
          /\ run'.total = request[r].amount /\ run'.status = run.status
      BY <2>17, RetotalMoves
    <3>2. run'.total = Due(item', LiveIn(item')) /\ Summed(r)'
      BY <2>3, <3>1 DEF Summed
    <3> QED BY <2>1, <2>5, <3>1, <3>2, TiesOf
  <2>18. CASE WritePatch(r)
    <3>1. request[r].step \in {"setStatus", "setMonth"} /\ request'[r].step = "idle" /\ item' = item
          /\ run'.total = run.total /\ (run'.status = "approved" => outside' \/ run.status = "approved")
      BY <2>18, PatchMoves
    <3>2. Summed(r)' /\ run'.status # "approved"
      BY <2>5, <3>1 DEF Summed
    <3> QED BY <2>1, <2>4, <3>1, <3>2, TiesOf DEF Rewriting
  <2>19. CASE Die(r)
    <3>1. request'[r].step = "idle" /\ UNCHANGED <<run, item, posted>> /\ request[r].step \notin BetweenWrites
      BY <2>19, DieMoves
    <3>2. request[r].step # "idle"
      BY <1>2, WorkersBusy DEF Idle
    <3>3. Summed(r)' /\ run'.status # "approved"
      BY <2>5, <3>1, <3>2 DEF Summed, BetweenWrites
    <3> QED BY <2>1, <2>4, <3>1, <3>3, TiesOf DEF Rewriting, BetweenWrites
  <2> QED BY <1>2, <2>6, <2>7, <2>8, <2>9, <2>10, <2>11, <2>12, <2>13, <2>14, <2>15, <2>16, <2>17, <2>18, <2>19 DEF Works
<1>3. ASSUME NEW e \in Employees, DeleteEmployee(e) PROVE UNCHANGED <<run, item, posted, request, past, outside>>
  <2>1. {i \in Live : item[i].employee = e} = {} /\ ~outside
    BY <1>3 DEF DeleteEmployee
  <2>2. item' = item
    BY <1>3, <2>1 DEF DeleteEmployee, DeleteItems, TypeOK
  <2> QED BY <1>3, <2>1, <2>2 DEF DeleteEmployee, TypeOK
<1>4. World => UNCHANGED <<run, item, posted, request, past, outside>>
  BY <1>3 DEF World, UpdateEmployee, LockPeriod, UnlockPeriod, vars, books
<1>5. CASE UNCHANGED <<run, item, posted, request, past, outside>>
  BY <1>5 DEF TieInv, TotalsTie, ApprovedTies, Summed
<1> QED BY <1>1, <1>2, <1>4, <1>5, NextIs

(* Once a run is approved and everyone is done, its one entry carries what   *)
(* its items add up to and its totals show, and all of them are marked as    *)
(* paid: for calculations around edited items, corrections, patches and      *)
(* handlers that ended before their first write, in any order, one at a      *)
(* time, and no status set by hand and no paid employee deleted.             *)
THEOREM ApprovedTie == Spec => []ApprovedRunTies
<1>1. Init => Sole /\ WageInv /\ PostInv /\ TieInv
  <2> SUFFICES ASSUME Init PROVE Sole /\ WageInv /\ PostInv /\ TieInv
    OBVIOUS
  <2>1. (\A r \in Requests : request[r].step = "idle") /\ LiveIn(item) = {} /\ posted = <<>> /\ run.status = "draft"
    BY DEF Init, Resting, LiveIn, NoItem
  <2> QED BY <2>1 DEF Sole, Idle, WageInv, PostInv, TieInv, TotalsTie, ApprovedTies, Summed
<1>2. TieInv => ApprovedRunTies
  <2> SUFFICES ASSUME TieInv, past = "clean", ~outside, run.status = "approved", \A r \in Requests : Idle(r)
               PROVE  /\ Len(posted) = 1 /\ Live # {}
                      /\ Last(posted).amount = Wages(Live) /\ run.total = Wages(Live)
                      /\ \A i \in Live : item[i].state = "paid"
    BY DEF ApprovedRunTies
  <2>1. TotalsTie /\ ApprovedTies /\ \A r \in Requests : request[r].step = "idle"
    BY DEF TieInv, Idle
  <2>2. /\ Len(posted) = 1 /\ LiveIn(item) # {} /\ Last(posted).amount = Due(item, LiveIn(item))
        /\ run.total = Due(item, LiveIn(item)) /\ \A i \in LiveIn(item) : item[i].state = "paid"
    BY <2>1 DEF TotalsTie, ApprovedTies, Rewriting
  <2>3. Live = LiveIn(item) /\ Wages(Live) = Due(item, LiveIn(item))
    BY NamesOfItems, WagesAreDue DEF LiveIn
  <2> QED BY <2>2, <2>3
<1> QED BY <1>1, <1>2, InitTypeOK, StepTypeOK, StepSole, StepWageInv, StepPostInv, StepTieInv, PTL DEF Spec
=============================================================================
