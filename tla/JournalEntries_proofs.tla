------------------------ MODULE JournalEntries_proofs ------------------------
(***************************************************************************)
(* Proofs about the general journal, for any number of entries, handlers   *)
(* and months: types are kept; amounts in whole fils stay in balance; a    *)
(* month is frozen from the first moment of rest after its lock; and what   *)
(* is posted stays, mirrored by its reversals, until two handlers cross.    *)
(***************************************************************************)
EXTENDS JournalEntries, TLAPS

Sides == {"manual", "system"}

LEMMA AnyEntryType == AnyEntry \in Entries
  BY JournalAssumption DEF AnyEntry

LEMMA NewRowType ==
    ASSUME NEW status \in Statuses, NEW lines \in Lines, NEW date \in Periods,
           NEW source \in Sides, NEW reverses \in Entries \cup {NoEntry}
    PROVE  NewRow(status, lines, date, source, reverses) \in Row
  BY DEF NewRow, Row, Sides

LEMMA RowFields ==
    ASSUME NEW row \in Row
    PROVE  /\ row.status \in Statuses /\ row.lines \in Lines /\ row.date \in Periods
           /\ row.source \in Sides /\ row.reverses \in Entries \cup {NoEntry}
  BY DEF Row, Sides

LEMMA NoRowType == NoRow \in Row
  <1>1. NoLines \in Lines /\ "absent" \in Statuses /\ Today \in Periods
    BY JournalAssumption DEF NoLines, Lines, Statuses
  <1> QED BY <1>1, NewRowType DEF NoRow, Sides

\* Setting fields of a row one by one gives a row.
LEMMA WithStatus ==
    ASSUME NEW row \in Row, NEW status \in Statuses
    PROVE  /\ [row EXCEPT !.status = status] \in Row
           /\ [row EXCEPT !.status = status].status = status
           /\ [row EXCEPT !.status = status].lines = row.lines
           /\ [row EXCEPT !.status = status].date = row.date
           /\ [row EXCEPT !.status = status].source = row.source
           /\ [row EXCEPT !.status = status].reverses = row.reverses
  BY DEF Row

LEMMA LocalType ==
    ASSUME NEW step \in Steps, NEW e \in Entries, NEW edit \in Row, NEW check \in SUBSET Periods
    PROVE  Local(step, e, edit, check) \in LocalState
  BY DEF Local, LocalState

LEMMA RestingType == Resting \in LocalState /\ Resting.step = "idle"
  <1>1. "idle" \in Steps /\ {} \in SUBSET Periods
    BY DEF Steps
  <1> QED BY <1>1, AnyEntryType, NoRowType, LocalType DEF Resting, Local

LEMMA StoredType == ASSUME NEW x \in Inputs PROVE Stored(x) \in Lines
  <1>1. x.split \in Nat /\ x.each \in Nat /\ x.credit \in Nat
    BY JournalAssumption
  <1>2. \A a \in Nat : RoundToFils(a) \in Nat
    BY DEF RoundToFils
  <1>3. RoundToFils(x.each) \in Nat /\ RoundToFils(x.credit) \in Nat
    BY <1>1, <1>2
  <1>4. x.split * RoundToFils(x.each) \in Int /\ -RoundToFils(x.credit) \in Int
    BY <1>1, <1>3
  <1> QED BY <1>4 DEF Stored, Lines

LEMMA SwappedType == ASSUME NEW lines \in Lines PROVE Swapped(lines) \in Lines
  BY DEF Swapped, Lines

-----------------------------------------------------------------------------
(* Every step either leaves the entries alone, or is the write of a handler, *)
(* or accepts a draft.                                                      *)

LEMMA StepTypes ==
    ASSUME TypeOK, NEW r \in Requests
    PROVE  /\ request[r] \in LocalState
           /\ request[r].step \in Steps /\ request[r].id \in Entries
           /\ request[r].edit \in Row /\ request[r].check \in SUBSET Periods
           /\ entry[request[r].id] \in Row
  BY DEF TypeOK, LocalState

LEMMA BeginType ==
    ASSUME TypeOK, NEW r \in Requests, NEW e \in Entries, NEW step \in Steps, NEW edit \in Row,
           NEW check \in SUBSET Periods, Begin(r, e, step, edit, check)
    PROVE  TypeOK'
  <1>1. Local(step, e, edit, check) \in LocalState
    BY LocalType
  <1> QED BY <1>1 DEF Begin, TypeOK

LEMMA FinishType ==
    ASSUME TypeOK, NEW r \in Requests, Finish(r), locked' = locked
    PROVE  /\ request' \in [Requests -> LocalState]
           /\ locked' \subseteq Periods /\ sealed' \subseteq locked' /\ crossed' \subseteq Entries
  BY RestingType DEF Finish, TypeOK

LEMMA WriteType ==
    ASSUME TypeOK, NEW r \in Requests, NEW e \in Entries, NEW row \in Row, Put(r, e, row),
           claimed' \in {claimed, claimed \cup {e}}
    PROVE  TypeOK'
  <1>1. entry' \in [Entries -> Row]
    BY DEF Write, Put, TypeOK
  <1>2. Finish(r) /\ locked' = locked
    BY DEF Write, Put
  <1> QED BY <1>1, <1>2, FinishType DEF TypeOK

LEMMA GotoType ==
    ASSUME TypeOK, NEW r \in Requests, NEW local \in LocalState,
           request' = [request EXCEPT ![r] = local], UNCHANGED <<entry, locked, sealed, crossed, claimed>>
    PROVE  TypeOK'
  BY DEF TypeOK

-----------------------------------------------------------------------------
(* What each write puts into the table, and each read into the request.     *)

LEMMA InitType == Init => TypeOK
  <1> SUFFICES ASSUME Init PROVE TypeOK
    OBVIOUS
  <1>1. ASSUME NEW row \in OldRows PROVE row \in Row
    <2>1. PICK status \in {"draft", "posted", "void"}, x \in Inputs :
              row = NewRow(status, Stored(x), OldPeriod, "manual", NoEntry)
      BY DEF OldRows
    <2>2. status \in Statuses /\ OldPeriod \in Periods /\ "manual" \in Sides
      BY JournalAssumption DEF Statuses, Sides
    <2> QED BY <2>1, <2>2, StoredType, NewRowType
  <1>2. entry \in [Entries -> Row]
    BY <1>1, NoRowType DEF Init
  <1> QED BY <1>2, RestingType DEF Init, TypeOK

LEMMA EditType ==
    ASSUME TypeOK, NEW e \in Entries, NEW x \in Inputs, NEW date \in Periods,
           NEW status \in {"draft", "posted"}
    PROVE  LET edit == [entry[e] EXCEPT !.status = status, !.lines = Stored(x), !.date = date] IN
           /\ edit \in Row /\ edit.lines = Stored(x)
           /\ edit.date = date /\ edit.source = entry[e].source
  <1> DEFINE row == entry[e]  lines == Stored(x)
  <1>1. row \in Row /\ lines \in Lines /\ status \in Statuses
    BY StoredType DEF TypeOK, Statuses
  <1> HIDE DEF row, lines
  <1>2. LET edit == [row EXCEPT !.status = status, !.lines = lines, !.date = date] IN
           /\ edit \in Row /\ edit.lines = lines
           /\ edit.date = date /\ edit.source = row.source
    BY <1>1 DEF Row
  <1> QED BY <1>2 DEF row, lines

LEMMA CreationType ==
    ASSUME NEW x \in Inputs, NEW date \in Periods, NEW status \in {"draft", "posted"},
           NEW source \in Sources, NEW reverses \in Claims \cup {NoEntry}
    PROVE  NewRow(status, Stored(x), date, source, reverses) \in Row
  <1>1. /\ status \in Statuses /\ Stored(x) \in Lines /\ source \in Sides
        /\ reverses \in Entries \cup {NoEntry}
    BY StoredType, JournalAssumption DEF Statuses, Sides
  <1> QED BY <1>1, NewRowType

LEMMA MonthType ==
    ASSUME NEW date \in Periods
    PROVE  [NoRow EXCEPT !.date = date] \in Row /\ [NoRow EXCEPT !.date = date].date = date
  BY NoRowType DEF Row

LEMMA ReversalType ==
    ASSUME NEW e \in Entries, NEW lines \in Lines
    PROVE  NewRow("posted", Swapped(lines), Today, "manual", e) \in Row
  <1>1. "posted" \in Statuses /\ Today \in Periods /\ "manual" \in Sides
    BY JournalAssumption DEF Statuses, Sides
  <1> QED BY <1>1, SwappedType, NewRowType

LEMMA ReadPostType ==
    ASSUME TypeOK, NEW r \in Requests
    PROVE  LET new == [request[r] EXCEPT !.step = "writePost", !.check = {request[r].edit.date}] IN
           /\ new \in LocalState /\ new.step = "writePost" /\ new.id = request[r].id
           /\ new.check = {request[r].edit.date}
  <1> DEFINE month == {request[r].edit.date}
  <1>1. request[r] \in LocalState /\ month \in SUBSET Periods /\ "writePost" \in Steps
    BY StepTypes, RowFields DEF Steps
  <1> HIDE DEF month
  <1>2. LET new == [request[r] EXCEPT !.step = "writePost", !.check = month] IN
           /\ new \in LocalState /\ new.step = "writePost" /\ new.id = request[r].id
           /\ new.check = month
    BY <1>1 DEF LocalState
  <1> QED BY <1>2 DEF month

LEMMA ReadReverseType ==
    ASSUME TypeOK, NEW r \in Requests, NEW edit \in Row
    PROVE  LET new == [request[r] EXCEPT !.step = "insertReversal", !.edit = edit] IN
           /\ new \in LocalState /\ new.step = "insertReversal" /\ new.id = request[r].id
           /\ new.edit = edit /\ new.check = request[r].check
  <1>1. request[r] \in LocalState /\ "insertReversal" \in Steps
    BY StepTypes DEF Steps
  <1> QED BY <1>1 DEF LocalState

LEMMA PassLockType ==
    ASSUME TypeOK, NEW r \in Requests, NEW p
    PROVE  LET new == [request[r] EXCEPT !.check = request[r].check \ {p}] IN
           /\ new \in LocalState /\ new.step = request[r].step /\ new.id = request[r].id
           /\ new.edit = request[r].edit /\ new.check = request[r].check \ {p}
  <1>1. request[r] \in LocalState /\ request[r].check \ {p} \in SUBSET Periods
    BY StepTypes
  <1> QED BY <1>1 DEF LocalState

LEMMA StepType == TypeOK /\ [Next]_vars => TypeOK'
  <1> SUFFICES ASSUME TypeOK, [Next]_vars PROVE TypeOK'
    OBVIOUS
  <1>1. ASSUME NEW r \in Requests, Creation(r) PROVE TypeOK'
    <2>1. ASSUME NEW x \in Inputs, NEW date \in Periods, NEW status \in {"draft", "posted"},
                 NEW source \in Sources, NEW reverses \in Claims \cup {NoEntry},
                 CreateBegin(r, x, date, status, source, reverses)
          PROVE  TypeOK'
      <3>1. "insert" \in Steps /\ {date} \in SUBSET Periods
        BY DEF Steps
      <3> QED BY <2>1, <3>1, AnyEntryType, CreationType, BeginType DEF CreateBegin
    <2>2. ASSUME NEW e \in Entries, Insert(r, e) PROVE TypeOK'
      BY <2>2, StepTypes, WriteType DEF Insert, Write
    <2> QED BY <1>1, <2>1, <2>2 DEF Creation
  <1>2. ASSUME NEW r \in Requests, Edit(r) PROVE TypeOK'
    <2>1. ASSUME NEW e \in Entries, NEW x \in Inputs, NEW date \in Periods,
                 NEW status \in {"draft", "posted"}, EditBegin(r, e, x, date, status)
          PROVE  TypeOK'
      <3>1. "writeEdit" \in Steps /\ {entry[e].date, date} \in SUBSET Periods
        BY RowFields DEF Steps, TypeOK
      <3> QED BY <2>1, <3>1, EditType, BeginType DEF EditBegin
    <2>2. CASE WriteEdit(r)
      <3> DEFINE e == request[r].id  edit == request[r].edit
      <3>1. e \in Entries /\ edit \in Row /\ entry[e] \in Row /\ entry[e].status \in Statuses
        BY StepTypes, RowFields
      <3>2. [edit EXCEPT !.status = entry[e].status] \in Row
        BY <3>1, WithStatus
      <3>3. Write(r, e, edit) \/ Write(r, e, [edit EXCEPT !.status = entry[e].status])
        BY <2>2 DEF WriteEdit
      <3> HIDE DEF e, edit
      <3> QED BY <3>1, <3>2, <3>3, WriteType DEF Write
    <2> QED BY <1>2, <2>1, <2>2 DEF Edit
  <1>3. ASSUME NEW r \in Requests, Posting(r) PROVE TypeOK'
    <2>1. ASSUME NEW e \in Entries, PostBegin(r, e) PROVE TypeOK'
      <3>1. "readPost" \in Steps /\ {} \in SUBSET Periods /\ entry[e].date \in Periods
        BY RowFields DEF Steps, TypeOK
      <3> QED BY <2>1, <3>1, MonthType, BeginType DEF PostBegin
    <2>2. CASE ReadPost(r)
      <3> DEFINE new == [request[r] EXCEPT !.step = "writePost", !.check = {request[r].edit.date}]
      <3>1. new \in LocalState
        BY ReadPostType
      <3>2. request' = [request EXCEPT ![r] = new] /\ UNCHANGED <<entry, locked, sealed, crossed, claimed>>
        BY <2>2 DEF ReadPost, TypeOK
      <3> HIDE DEF new
      <3> QED BY <3>1, <3>2, GotoType
    <2>3. CASE WritePost(r)
      <3>1. "posted" \in Statuses
        BY DEF Statuses
      <3> QED BY <2>3, <3>1, StepTypes, WithStatus, WriteType DEF WritePost, Write
    <2> QED BY <1>3, <2>1, <2>2, <2>3 DEF Posting
  <1>4. ASSUME NEW r \in Requests, Reversal(r) PROVE TypeOK'
    <2>1. ASSUME NEW e \in Entries, ReverseBegin(r, e) PROVE TypeOK'
      <3>1. "readReverse" \in Steps /\ {Today} \in SUBSET Periods
        BY JournalAssumption DEF Steps
      <3> QED BY <2>1, <3>1, NoRowType, BeginType DEF ReverseBegin
    <2>2. CASE ReadReverse(r)
      <3> DEFINE edit == NewRow("posted", Swapped(entry[request[r].id].lines), Today, "manual", request[r].id)
                 new == [request[r] EXCEPT !.step = "insertReversal", !.edit = edit]
      <3>1. edit \in Row
        BY StepTypes, RowFields, ReversalType
      <3>2. request' = [request EXCEPT ![r] = new] /\ UNCHANGED <<entry, locked, sealed, crossed, claimed>>
        BY <2>2 DEF ReadReverse, TypeOK
      <3>3. new \in LocalState
        <4> HIDE DEF edit
        <4> QED BY <3>1, ReadReverseType
      <3> HIDE DEF new
      <3> QED BY <3>2, <3>3, GotoType
    <2>3. ASSUME NEW e \in Entries, InsertReversal(r, e) PROVE TypeOK'
      BY <2>3, StepTypes, WriteType DEF InsertReversal, Write
    <2> QED BY <1>4, <2>1, <2>2, <2>3 DEF Reversal
  <1>5. ASSUME NEW r \in Requests, Deletion(r) PROVE TypeOK'
    <2>1. ASSUME NEW e \in Entries, DeleteBegin(r, e) PROVE TypeOK'
      <3>1. "delete" \in Steps /\ {} \in SUBSET Periods
        BY DEF Steps
      <3> QED BY <2>1, <3>1, NoRowType, BeginType DEF DeleteBegin
    <2>2. CASE Delete(r)
      <3>1. "deleted" \in Statuses
        BY DEF Statuses
      <3> QED BY <2>2, <3>1, StepTypes, WithStatus, WriteType DEF Delete, Write
    <2> QED BY <1>5, <2>1, <2>2 DEF Deletion
  <1>6. ASSUME NEW r \in Requests, NEW p \in Periods, PassLock(r, p) PROVE TypeOK'
    <2> DEFINE new == [request[r] EXCEPT !.check = request[r].check \ {p}]
    <2>1. new \in LocalState
      BY PassLockType
    <2>2. request' = [request EXCEPT ![r] = new] /\ UNCHANGED <<entry, locked, sealed, crossed, claimed>>
      BY <1>6 DEF PassLock, TypeOK
    <2> HIDE DEF new
    <2> QED BY <2>1, <2>2, GotoType
  <1>7. ASSUME NEW r \in Requests, GiveUp(r) PROVE TypeOK'
    <2>1. Finish(r) /\ UNCHANGED <<entry, locked, claimed>>
      BY <1>7 DEF GiveUp
    <2> QED BY <2>1, FinishType DEF TypeOK
  <1>8. ASSUME NEW e \in Entries, AcceptDraft(e) PROVE TypeOK'
    <2>1. [entry[e] EXCEPT !.status = "posted"] \in Row
      BY WithStatus DEF TypeOK, Statuses
    <2> QED BY <1>8, <2>1 DEF AcceptDraft, TypeOK
  <1>9. ASSUME NEW p \in Periods, LockPeriod(p) \/ UnlockPeriod(p) PROVE TypeOK'
    BY <1>9 DEF LockPeriod, UnlockPeriod, TypeOK
  <1>10. CASE UNCHANGED vars
    BY <1>10 DEF vars, TypeOK
  <1>11. CASE Next
    BY <1>1, <1>2, <1>3, <1>4, <1>5, <1>6, <1>7, <1>8, <1>9, <1>11 DEF Next, Handler
  <1> QED BY <1>10, <1>11

\* The tables and the requests keep their types, whatever handlers interleave.
THEOREM TypeCorrect == Spec => []TypeOK
  BY InitType, StepType, PTL DEF Spec

-----------------------------------------------------------------------------
(* Balance: what is stored balances, and so does what is about to be.       *)

LEMMA WholeFilsBalance ==
    ASSUME NEW x \in Inputs, x.each % 10 = 0, x.credit % 10 = 0, Accepted(x)
    PROVE  Balanced(Stored(x))
  <1>1. x.split \in Nat /\ x.each \in Nat /\ x.credit \in Nat
    BY JournalAssumption
  <1>2. ASSUME NEW a \in Nat, a % 10 = 0 PROVE RoundToFils(a) \in Nat /\ a = 10 * RoundToFils(a)
    BY <1>2 DEF RoundToFils
  <1> DEFINE each == RoundToFils(x.each)  credit == RoundToFils(x.credit)  debit == x.split * each
  <1>3. /\ each \in Nat /\ x.each = 10 * each
        /\ credit \in Nat /\ x.credit = 10 * credit
    BY <1>1, <1>2
  <1> HIDE DEF each, credit
  <1>4. debit \in Nat /\ x.split * x.each = 10 * debit
    BY <1>1, <1>3
  <1> HIDE DEF debit
  <1>5. 10 * debit - 10 * credit <= 10 /\ 10 * credit - 10 * debit <= 10
    BY <1>3, <1>4 DEF Accepted, Near
  <1>6. Near(debit, -(-credit), 1)
    BY <1>3, <1>4, <1>5 DEF Near
  <1> QED BY <1>6 DEF Balanced, Stored, debit, each, credit

LEMMA SwappedBalance ==
    ASSUME NEW lines \in Lines, Balanced(lines) PROVE Balanced(Swapped(lines))
  BY DEF Balanced, Swapped, Near, Lines

InputsBalance == \A x \in Inputs : Accepted(x) => Balanced(Stored(x))

BalanceInv ==
    /\ EntriesBalanced
    /\ \A r \in Requests : request[r].step \in {"insert", "writeEdit", "insertReversal"} =>
          Balanced(request[r].edit.lines)

LEMMA InitBalance == Init => BalanceInv
  <1> SUFFICES ASSUME Init PROVE BalanceInv
    OBVIOUS
  <1>1. ASSUME NEW row \in OldRows PROVE Balanced(row.lines)
    BY DEF OldRows, NewRow
  <1>2. ~Live(NoRow)
    BY DEF NoRow, NewRow, Live
  <1>3. EntriesBalanced
    BY <1>1, <1>2 DEF Init, EntriesBalanced
  <1> QED BY <1>3, RestingType DEF Init, BalanceInv

LEMMA BeginBalance ==
    ASSUME TypeOK, BalanceInv, NEW r \in Requests, NEW e, NEW step, NEW edit, NEW check,
           Begin(r, e, step, edit, check),
           step \in {"insert", "writeEdit", "insertReversal"} => Balanced(edit.lines)
    PROVE  BalanceInv'
  BY DEF Begin, Local, BalanceInv, EntriesBalanced, TypeOK

LEMMA WriteBalance ==
    ASSUME TypeOK, BalanceInv, NEW r \in Requests, NEW e \in Entries, NEW row \in Row,
           Put(r, e, row), Live(row) => Balanced(row.lines)
    PROVE  BalanceInv'
  <1>1. EntriesBalanced'
    BY DEF Write, Put, BalanceInv, EntriesBalanced, TypeOK
  <1>2. request' = [request EXCEPT ![r] = Resting]
    BY DEF Write, Put, Finish
  <1> QED BY <1>1, <1>2, RestingType DEF BalanceInv, TypeOK

LEMMA StepBalance == InputsBalance /\ TypeOK /\ BalanceInv /\ [Next]_vars => BalanceInv'
  <1> SUFFICES ASSUME InputsBalance, TypeOK, BalanceInv, [Next]_vars PROVE BalanceInv'
    OBVIOUS
  <1>1. ASSUME NEW r \in Requests, Creation(r) PROVE BalanceInv'
    <2>1. ASSUME NEW x \in Inputs, NEW date \in Periods, NEW status \in {"draft", "posted"},
                 NEW source \in Sources, NEW reverses \in Claims \cup {NoEntry},
                 CreateBegin(r, x, date, status, source, reverses)
          PROVE  BalanceInv'
      <3>1. Balanced(NewRow(status, Stored(x), date, source, reverses).lines)
        BY <2>1 DEF CreateBegin, InputsBalance, NewRow
      <3> QED BY <2>1, <3>1, BeginBalance DEF CreateBegin
    <2>2. ASSUME NEW e \in Entries, Insert(r, e) PROVE BalanceInv'
      BY <2>2, StepTypes, WriteBalance DEF Insert, At, BalanceInv, Write
    <2> QED BY <1>1, <2>1, <2>2 DEF Creation
  <1>2. ASSUME NEW r \in Requests, Edit(r) PROVE BalanceInv'
    <2>1. ASSUME NEW e \in Entries, NEW x \in Inputs, NEW date \in Periods,
                 NEW status \in {"draft", "posted"}, EditBegin(r, e, x, date, status)
          PROVE  BalanceInv'
      <3> DEFINE edit == [entry[e] EXCEPT !.status = status, !.lines = Stored(x), !.date = date]
      <3>0. entry[e] \in Row
        BY DEF TypeOK
      <3>1. edit.lines = Stored(x)
        BY <3>0 DEF Row
      <3>2. Balanced(edit.lines)
        BY <2>1, <3>1 DEF EditBegin, InputsBalance
      <3>3. Begin(r, e, "writeEdit", edit, {entry[e].date, date})
        BY <2>1 DEF EditBegin
      <3> HIDE DEF edit
      <3> QED BY <3>2, <3>3, BeginBalance
    <2>2. CASE WriteEdit(r)
      <3> DEFINE e == request[r].id  edit == request[r].edit
      <3>1. e \in Entries /\ edit \in Row /\ entry[e].status \in Statuses
        BY StepTypes, RowFields
      <3>2. Balanced(edit.lines)
        BY <2>2 DEF WriteEdit, At, BalanceInv
      <3>3. Write(r, e, edit) \/ Write(r, e, [edit EXCEPT !.status = entry[e].status])
        BY <2>2 DEF WriteEdit
      <3> HIDE DEF e, edit
      <3>4. /\ [edit EXCEPT !.status = entry[e].status] \in Row
            /\ [edit EXCEPT !.status = entry[e].status].lines = edit.lines
        BY <3>1, WithStatus
      <3> QED BY <3>1, <3>2, <3>3, <3>4, WriteBalance DEF Write
    <2> QED BY <1>2, <2>1, <2>2 DEF Edit
  <1>3. ASSUME NEW r \in Requests, Posting(r) PROVE BalanceInv'
    <2>1. ASSUME NEW e \in Entries, PostBegin(r, e) PROVE BalanceInv'
      BY <2>1, BeginBalance DEF PostBegin
    <2>2. CASE ReadPost(r)
      BY <2>2 DEF ReadPost, BalanceInv, EntriesBalanced, TypeOK, LocalState
    <2>3. CASE WritePost(r)
      <3> DEFINE e == request[r].id
      <3>1. e \in Entries /\ entry[e] \in Row /\ Live(entry[e])
        BY <2>3, StepTypes DEF WritePost
      <3>2. Balanced(entry[e].lines)
        BY <3>1 DEF BalanceInv, EntriesBalanced
      <3>3. Write(r, e, [entry[e] EXCEPT !.status = "posted"])
        BY <2>3 DEF WritePost
      <3> HIDE DEF e
      <3>4. /\ [entry[e] EXCEPT !.status = "posted"] \in Row
            /\ [entry[e] EXCEPT !.status = "posted"].lines = entry[e].lines
        BY <3>1, WithStatus DEF Statuses
      <3> QED BY <3>1, <3>2, <3>3, <3>4, WriteBalance DEF Write
    <2> QED BY <1>3, <2>1, <2>2, <2>3 DEF Posting
  <1>4. ASSUME NEW r \in Requests, Reversal(r) PROVE BalanceInv'
    <2>1. ASSUME NEW e \in Entries, ReverseBegin(r, e) PROVE BalanceInv'
      BY <2>1, BeginBalance DEF ReverseBegin
    <2>2. CASE ReadReverse(r)
      <3> DEFINE lines == Swapped(entry[request[r].id].lines)
                 edit == NewRow("posted", lines, Today, "manual", request[r].id)
      <3>1. Balanced(lines)
        BY <2>2, StepTypes, RowFields, SwappedBalance DEF ReadReverse
      <3>2. edit.lines = lines
        BY DEF NewRow
      <3>3. /\ request' = [request EXCEPT ![r] = [request[r] EXCEPT !.step = "insertReversal", !.edit = edit]]
            /\ UNCHANGED entry
        BY <2>2 DEF ReadReverse, TypeOK
      <3> HIDE DEF lines, edit
      <3> QED BY <3>1, <3>2, <3>3 DEF BalanceInv, EntriesBalanced, TypeOK, LocalState
    <2>3. ASSUME NEW e \in Entries, InsertReversal(r, e) PROVE BalanceInv'
      BY <2>3, StepTypes, WriteBalance DEF InsertReversal, At, BalanceInv, Write
    <2> QED BY <1>4, <2>1, <2>2, <2>3 DEF Reversal
  <1>5. ASSUME NEW r \in Requests, Deletion(r) PROVE BalanceInv'
    <2>1. ASSUME NEW e \in Entries, DeleteBegin(r, e) PROVE BalanceInv'
      BY <2>1, BeginBalance DEF DeleteBegin
    <2>2. CASE Delete(r)
      <3>1. /\ [entry[request[r].id] EXCEPT !.status = "deleted"] \in Row
            /\ ~Live([entry[request[r].id] EXCEPT !.status = "deleted"])
        BY StepTypes, WithStatus DEF Statuses, Live
      <3> QED BY <2>2, <3>1, StepTypes, WriteBalance DEF Delete, Write
    <2> QED BY <1>5, <2>1, <2>2 DEF Deletion
  <1>6. ASSUME NEW r \in Requests, NEW p \in Periods, PassLock(r, p) PROVE BalanceInv'
    BY <1>6 DEF PassLock, BalanceInv, EntriesBalanced, TypeOK, LocalState
  <1>7. ASSUME NEW r \in Requests, GiveUp(r) PROVE BalanceInv'
    BY <1>7, RestingType DEF GiveUp, Finish, BalanceInv, EntriesBalanced, TypeOK
  <1>8. ASSUME NEW e \in Entries, AcceptDraft(e) PROVE BalanceInv'
    <2>1. [entry[e] EXCEPT !.status = "posted"].lines = entry[e].lines
      BY WithStatus DEF TypeOK, Statuses
    <2> QED BY <1>8, <2>1 DEF AcceptDraft, Live, BalanceInv, EntriesBalanced, TypeOK
  <1>9. ASSUME NEW p \in Periods, LockPeriod(p) \/ UnlockPeriod(p) PROVE BalanceInv'
    BY <1>9 DEF LockPeriod, UnlockPeriod, BalanceInv, EntriesBalanced
  <1>10. CASE UNCHANGED vars
    BY <1>10 DEF vars, BalanceInv, EntriesBalanced
  <1>11. CASE Next
    BY <1>1, <1>2, <1>3, <1>4, <1>5, <1>6, <1>7, <1>8, <1>9, <1>11 DEF Next, Handler
  <1> QED BY <1>10, <1>11

\* As long as users enter whole fils, every entry balances as it is stored,
\* however often and by how many handlers it is edited, posted and reversed.
\* (Without that the rounding of single lines may break it.)
THEOREM WholeFilsStayBalanced ==
    ASSUME \A x \in Inputs : x.each % 10 = 0 /\ x.credit % 10 = 0
    PROVE  Spec => []EntriesBalanced
  <1>1. InputsBalance
    BY WholeFilsBalance DEF InputsBalance
  <1>2. TypeOK /\ BalanceInv /\ [Next]_vars => TypeOK' /\ BalanceInv'
    BY <1>1, StepType, StepBalance
  <1>3. BalanceInv => EntriesBalanced
    BY DEF BalanceInv
  <1> QED BY <1>2, <1>3, InitType, InitBalance, PTL DEF Spec

-----------------------------------------------------------------------------
(* Closed months.  A month becomes sealed only when every handler is idle,   *)
(* and nothing enters it from then on, so what a handler that starts later   *)
(* read in a sealed month is still so, and the lock it then has to pass is   *)
(* never open.                                                              *)

\* row lies in a closed month.
Closed(row, months) == Live(row) /\ row.date \in months

\* What a handler in progress knows of the sealed months.
Held(local, rows, months) ==
    /\ local.step \in {"insert", "insertReversal", "writeEdit"} /\ local.edit.date \in months =>
          local.edit.date \in local.check
    /\ local.step = "readReverse" /\ Today \in months => Today \in local.check
    /\ local.step \in {"writeEdit", "writePost"} /\ Closed(rows[local.id], months) =>
          rows[local.id].date \in local.check
    /\ local.step = "readPost" /\ Closed(rows[local.id], months) =>
          rows[local.id].date = local.edit.date
    /\ local.step = "delete" =>
          /\ local.id \in OldEntries
          /\ Closed(rows[local.id], months) => rows[local.id].status = "draft"
    /\ local.step = "writeEdit" /\ local.id \in OldEntries =>
          local.edit.source = "manual" /\ local.edit.status # "absent"

\* No old entry is the AI's, so none is posted by an acceptance.
OldAreManual ==
    \A e \in OldEntries : entry[e].source = "manual" /\ entry[e].status # "absent"

SealInv == OldAreManual /\ \A r \in Requests : Held(request[r], entry, sealed)

FrozenStep == \A p \in sealed, e \in Entries : Frozen(e, p) \/ Acceptance(e)

LEMMA IdleHolds == ASSUME NEW local, local.step = "idle", NEW rows, NEW months
                   PROVE  Held(local, rows, months)
  BY DEF Held

LEMMA InitSeal == Init => SealInv
  <1> SUFFICES ASSUME Init PROVE SealInv
    OBVIOUS
  <1>1. ASSUME NEW row \in OldRows PROVE row.source = "manual" /\ row.status # "absent"
    BY DEF OldRows, NewRow
  <1>2. OldAreManual
    BY <1>1, JournalAssumption DEF Init, OldAreManual
  <1> QED BY <1>2, RestingType, IdleHolds DEF Init, SealInv

SealsAtRest == sealed' \subseteq sealed \/ \A r \in Requests : request'[r].step = "idle"

LEMMA SealedAtRest ==
    ASSUME TypeOK, [Next]_vars
    PROVE  SealsAtRest
  <1>1. ASSUME NEW r \in Requests, Finish(r) PROVE SealsAtRest
    <2>1. CASE \A q \in Requests \ {r} : Idle(q)
      BY <1>1, <2>1, RestingType DEF Finish, Idle, TypeOK, SealsAtRest
    <2>2. CASE ~\A q \in Requests \ {r} : Idle(q)
      BY <1>1, <2>2 DEF Finish, SealsAtRest
    <2> QED BY <2>1, <2>2
  <1>2. ASSUME NEW r \in Requests, Creation(r) PROVE SealsAtRest
    BY <1>1, <1>2 DEF Creation, CreateBegin, Begin, Insert, Write, Put, SealsAtRest
  <1>3. ASSUME NEW r \in Requests, Edit(r) PROVE SealsAtRest
    BY <1>1, <1>3 DEF Edit, EditBegin, Begin, WriteEdit, Write, Put, SealsAtRest
  <1>4. ASSUME NEW r \in Requests, Posting(r) PROVE SealsAtRest
    BY <1>1, <1>4 DEF Posting, PostBegin, Begin, ReadPost, WritePost, Write, Put, SealsAtRest
  <1>5. ASSUME NEW r \in Requests, Reversal(r) PROVE SealsAtRest
    BY <1>1, <1>5 DEF Reversal, ReverseBegin, Begin, ReadReverse, InsertReversal, Write, Put, SealsAtRest
  <1>6. ASSUME NEW r \in Requests, Deletion(r) PROVE SealsAtRest
    BY <1>1, <1>6 DEF Deletion, DeleteBegin, Begin, Delete, Write, Put, SealsAtRest
  <1>7. ASSUME NEW r \in Requests, (\E p \in Periods : PassLock(r, p)) \/ GiveUp(r) PROVE SealsAtRest
    BY <1>1, <1>7 DEF PassLock, GiveUp, SealsAtRest
  <1>8. ASSUME NEW e \in Entries, AcceptDraft(e) PROVE SealsAtRest
    BY <1>8 DEF AcceptDraft, SealsAtRest
  <1>9. ASSUME NEW p \in Periods, LockPeriod(p) \/ UnlockPeriod(p) PROVE SealsAtRest
    BY <1>9 DEF LockPeriod, UnlockPeriod, Idle, SealsAtRest
  <1>10. CASE UNCHANGED vars
    BY <1>10 DEF vars, SealsAtRest
  <1>11. CASE Next
    BY <1>2, <1>3, <1>4, <1>5, <1>6, <1>7, <1>8, <1>9, <1>11 DEF Next, Handler
  <1> QED BY <1>10, <1>11

(* What a handler does to its own state.                                    *)
Keeps(q) ==
    \/ request'[q] = request[q]
    \/ request'[q].step = "idle"
    \/ UNCHANGED <<entry, sealed>> /\ Held(request'[q], entry, sealed)

LEMMA StepHeld ==
    ASSUME TypeOK, SealInv, [Next]_vars, NEW q \in Requests
    PROVE  Keeps(q)
  <1>0. ASSUME NEW r \in Requests, Finish(r) PROVE Keeps(q)
    BY <1>0, RestingType DEF Finish, TypeOK, Keeps
  <1>00. ASSUME NEW r \in Requests, NEW local, request' = [request EXCEPT ![r] = local],
                UNCHANGED <<entry, sealed>>, Held(local, entry, sealed)
         PROVE  Keeps(q)
    BY <1>00 DEF TypeOK, Keeps
  <1>1. ASSUME NEW r \in Requests, Creation(r) PROVE Keeps(q)
    <2>1. ASSUME NEW x \in Inputs, NEW date \in Periods, NEW status \in {"draft", "posted"},
                 NEW source \in Sources, NEW reverses \in Claims \cup {NoEntry},
                 CreateBegin(r, x, date, status, source, reverses)
          PROVE  Keeps(q)
      <3> DEFINE local == Local("insert", AnyEntry, NewRow(status, Stored(x), date, source, reverses), {date})
      <3>1. Held(local, entry, sealed)
        BY DEF Held, Local, NewRow
      <3>2. request' = [request EXCEPT ![r] = local] /\ UNCHANGED <<entry, sealed>>
        BY <2>1 DEF CreateBegin, Begin
      <3> HIDE DEF local
      <3> QED BY <3>1, <3>2, <1>00
    <2>2. ASSUME NEW e \in Entries, Insert(r, e) PROVE Keeps(q)
      BY <2>2, <1>0 DEF Insert, Write, Put
    <2> QED BY <1>1, <2>1, <2>2 DEF Creation
  <1>2. ASSUME NEW r \in Requests, Edit(r) PROVE Keeps(q)
    <2>1. ASSUME NEW e \in Entries, NEW x \in Inputs, NEW date \in Periods,
                 NEW status \in {"draft", "posted"}, EditBegin(r, e, x, date, status)
          PROVE  Keeps(q)
      <3> DEFINE edit == [entry[e] EXCEPT !.status = status, !.lines = Stored(x), !.date = date]
                 local == Local("writeEdit", e, edit, {entry[e].date, date})
      <3>0. entry[e] \in Row
        BY DEF TypeOK
      <3>1. edit.date = date /\ edit.source = entry[e].source /\ edit.status # "absent"
        BY <3>0 DEF Row
      <3>2. request' = [request EXCEPT ![r] = local] /\ UNCHANGED <<entry, sealed>>
        BY <2>1 DEF EditBegin, Begin
      <3> HIDE DEF edit
      <3>3. Held(local, entry, sealed)
        BY <3>1 DEF Held, Local, SealInv, OldAreManual
      <3> HIDE DEF local
      <3> QED BY <3>2, <3>3, <1>00
    <2>2. CASE WriteEdit(r)
      BY <2>2, <1>0 DEF WriteEdit, Write, Put
    <2> QED BY <1>2, <2>1, <2>2 DEF Edit
  <1>3. ASSUME NEW r \in Requests, Posting(r) PROVE Keeps(q)
    <2>1. ASSUME NEW e \in Entries, PostBegin(r, e) PROVE Keeps(q)
      <3> DEFINE edit == [NoRow EXCEPT !.date = entry[e].date]
                 local == Local("readPost", e, edit, {})
      <3>1. edit.date = entry[e].date
        BY MonthType, RowFields DEF TypeOK
      <3>2. request' = [request EXCEPT ![r] = local] /\ UNCHANGED <<entry, sealed>>
        BY <2>1 DEF PostBegin, Begin
      <3> HIDE DEF edit
      <3>3. Held(local, entry, sealed)
        BY <3>1 DEF Held, Local
      <3> HIDE DEF local
      <3> QED BY <3>2, <3>3, <1>00
    <2>2. CASE ReadPost(r)
      <3> DEFINE local == [request[r] EXCEPT !.step = "writePost", !.check = {request[r].edit.date}]
      <3>1. /\ local.step = "writePost" /\ local.id = request[r].id
            /\ local.check = {request[r].edit.date}
        BY ReadPostType
      <3>2. request' = [request EXCEPT ![r] = local] /\ UNCHANGED <<entry, sealed>>
        BY <2>2 DEF ReadPost, TypeOK
      <3>3. request[r].step = "readPost" /\ Held(request[r], entry, sealed)
        BY <2>2 DEF ReadPost, At, SealInv
      <3> HIDE DEF local
      <3>4. Held(local, entry, sealed)
        BY <3>1, <3>3 DEF Held
      <3> QED BY <3>2, <3>4, <1>00
    <2>3. CASE WritePost(r)
      BY <2>3, <1>0 DEF WritePost, Write, Put
    <2> QED BY <1>3, <2>1, <2>2, <2>3 DEF Posting
  <1>4. ASSUME NEW r \in Requests, Reversal(r) PROVE Keeps(q)
    <2>1. ASSUME NEW e \in Entries, ReverseBegin(r, e) PROVE Keeps(q)
      <3> DEFINE local == Local("readReverse", e, NoRow, {Today})
      <3>1. Held(local, entry, sealed)
        BY DEF Held, Local
      <3>2. request' = [request EXCEPT ![r] = local] /\ UNCHANGED <<entry, sealed>>
        BY <2>1 DEF ReverseBegin, Begin
      <3> HIDE DEF local
      <3> QED BY <3>1, <3>2, <1>00
    <2>2. CASE ReadReverse(r)
      <3> DEFINE edit == NewRow("posted", Swapped(entry[request[r].id].lines), Today, "manual", request[r].id)
                 local == [request[r] EXCEPT !.step = "insertReversal", !.edit = edit]
      <3>1. edit \in Row /\ edit.date = Today
        BY StepTypes, RowFields, ReversalType DEF NewRow
      <3>2. request' = [request EXCEPT ![r] = local] /\ UNCHANGED <<entry, sealed>>
        BY <2>2 DEF ReadReverse, TypeOK
      <3>3. Today \notin sealed
        BY <2>2 DEF ReadReverse, At, SealInv, Held
      <3> HIDE DEF edit
      <3>4. local.step = "insertReversal" /\ local.edit = edit
        BY <3>1, ReadReverseType
      <3> HIDE DEF local
      <3>5. Held(local, entry, sealed)
        BY <3>1, <3>3, <3>4 DEF Held
      <3> QED BY <3>2, <3>5, <1>00
    <2>3. ASSUME NEW e \in Entries, InsertReversal(r, e) PROVE Keeps(q)
      BY <2>3, <1>0 DEF InsertReversal, Write, Put
    <2> QED BY <1>4, <2>1, <2>2, <2>3 DEF Reversal
  <1>5. ASSUME NEW r \in Requests, Deletion(r) PROVE Keeps(q)
    <2>1. ASSUME NEW e \in Entries, DeleteBegin(r, e) PROVE Keeps(q)
      <3> DEFINE local == Local("delete", e, NoRow, {})
      <3>1. Held(local, entry, sealed)
        BY <2>1 DEF DeleteBegin, Held, Local
      <3>2. request' = [request EXCEPT ![r] = local] /\ UNCHANGED <<entry, sealed>>
        BY <2>1 DEF DeleteBegin, Begin
      <3> HIDE DEF local
      <3> QED BY <3>1, <3>2, <1>00
    <2>2. CASE Delete(r)
      BY <2>2, <1>0 DEF Delete, Write, Put
    <2> QED BY <1>5, <2>1, <2>2 DEF Deletion
  <1>6. ASSUME NEW r \in Requests, NEW p \in Periods, PassLock(r, p) PROVE Keeps(q)
    <2> DEFINE local == [request[r] EXCEPT !.check = request[r].check \ {p}]
    <2>1. /\ local.step = request[r].step /\ local.id = request[r].id
          /\ local.edit = request[r].edit /\ local.check = request[r].check \ {p}
      BY PassLockType
    <2>2. request' = [request EXCEPT ![r] = local] /\ UNCHANGED <<entry, sealed>>
      BY <1>6 DEF PassLock, TypeOK
    <2>3. p \notin sealed /\ Held(request[r], entry, sealed)
      BY <1>6 DEF PassLock, TypeOK, SealInv
    <2> HIDE DEF local
    <2>4. Held(local, entry, sealed)
      BY <2>1, <2>3 DEF Held, Closed
    <2> QED BY <2>2, <2>4, <1>00
  <1>7. ASSUME NEW r \in Requests, GiveUp(r) PROVE Keeps(q)
    BY <1>7, <1>0 DEF GiveUp
  <1>8. ASSUME request' = request PROVE Keeps(q)
    BY <1>8 DEF Keeps
  <1>9. CASE Next
    <2>1. ASSUME NEW e \in Entries, AcceptDraft(e) PROVE Keeps(q)
      BY <2>1, <1>8 DEF AcceptDraft
    <2>2. ASSUME NEW p \in Periods, LockPeriod(p) \/ UnlockPeriod(p) PROVE Keeps(q)
      BY <2>2, <1>8 DEF LockPeriod, UnlockPeriod
    <2> QED BY <1>1, <1>2, <1>3, <1>4, <1>5, <1>6, <1>7, <1>9, <2>1, <2>2 DEF Next, Handler
  <1>10. CASE UNCHANGED vars
    BY <1>8, <1>10 DEF vars
  <1> QED BY <1>9, <1>10

-----------------------------------------------------------------------------
(* What a handler writes: nothing into a closed month, and old entries stay  *)
(* the users'.                                                              *)

\* A handler may put row in the place of old.
MayReplace(old, row) ==
    \/ ~Closed(old, sealed) /\ row.date \notin sealed
    \/ old.status = "draft" /\ row.status = "deleted"
    \/ row = old

StepSafe == FrozenStep /\ OldAreManual'

LEMMA WriteSafe ==
    ASSUME TypeOK, SealInv, NEW r \in Requests, NEW e \in Entries, NEW row, Put(r, e, row),
           MayReplace(entry[e], row),
           e \in OldEntries => row.source = "manual" /\ row.status # "absent"
    PROVE  StepSafe
  <1>1. /\ entry'[e] = row
        /\ \A f \in Entries : f # e => entry'[f] = entry[f]
    BY DEF Write, Put, TypeOK
  <1>2. FrozenStep
    <2> SUFFICES ASSUME NEW p \in sealed, NEW f \in Entries PROVE Frozen(f, p)
      BY DEF FrozenStep
    <2> QED BY <1>1 DEF Frozen, MayReplace, Closed
  <1>3. OldAreManual'
    BY <1>1, JournalAssumption DEF OldAreManual, SealInv
  <1> QED BY <1>2, <1>3 DEF StepSafe

LEMMA SameSafe == ASSUME SealInv, entry' = entry PROVE StepSafe
  BY DEF StepSafe, FrozenStep, Frozen, SealInv, OldAreManual

LEMMA StepIsSafe == ASSUME TypeOK, SealInv, [Next]_vars PROVE StepSafe
  <1>1. ASSUME NEW r \in Requests, Creation(r) PROVE StepSafe
    <2>1. ASSUME NEW e \in Entries, Insert(r, e) PROVE StepSafe
      <3>1. MayReplace(entry[e], request[r].edit)
        BY <2>1 DEF Insert, At, SealInv, Held, MayReplace, Closed, Live
      <3>2. e \notin OldEntries
        BY <2>1 DEF Insert, SealInv, OldAreManual
      <3> QED BY <2>1, <3>1, <3>2, WriteSafe DEF Insert, Write
    <2> QED BY <1>1, <2>1, SameSafe DEF Creation, CreateBegin, Begin
  <1>2. ASSUME NEW r \in Requests, Edit(r) PROVE StepSafe
    <2>1. CASE WriteEdit(r)
      <3> DEFINE e == request[r].id
                 edit == request[r].edit
                 row == [edit EXCEPT !.status = entry[e].status]
      <3>1. /\ e \in Entries /\ edit \in Row /\ entry[e] \in Row /\ Live(entry[e])
            /\ request[r].step = "writeEdit" /\ request[r].check = {}
            /\ Held(request[r], entry, sealed)
        BY <2>1, StepTypes DEF WriteEdit, At, SealInv
      <3>2. /\ ~Closed(entry[e], sealed) /\ edit.date \notin sealed
            /\ e \in OldEntries => edit.source = "manual" /\ edit.status # "absent"
        BY <3>1 DEF Held
      <3>3. row.date = edit.date /\ row.source = edit.source /\ row.status # "absent"
        BY <3>1, WithStatus, RowFields DEF Live
      <3>4. Write(r, e, edit) \/ Write(r, e, row)
        BY <2>1 DEF WriteEdit
      <3> HIDE DEF e, edit, row
      <3> QED BY <3>1, <3>2, <3>3, <3>4, WriteSafe DEF MayReplace, Write
    <2> QED BY <1>2, <2>1, SameSafe DEF Edit, EditBegin, Begin
  <1>3. ASSUME NEW r \in Requests, Posting(r) PROVE StepSafe
    <2>1. CASE WritePost(r)
      <3> DEFINE e == request[r].id
                 row == [entry[e] EXCEPT !.status = "posted"]
      <3>1. /\ e \in Entries /\ entry[e] \in Row /\ Live(entry[e])
            /\ request[r].step = "writePost" /\ request[r].check = {}
            /\ Held(request[r], entry, sealed)
        BY <2>1, StepTypes DEF WritePost, At, SealInv
      <3>2. ~Closed(entry[e], sealed)
        BY <3>1 DEF Held
      <3>3. row.date = entry[e].date /\ row.source = entry[e].source /\ row.status = "posted"
        BY <3>1, WithStatus DEF Statuses
      <3>4. Write(r, e, row)
        BY <2>1 DEF WritePost
      <3>5. e \in OldEntries => entry[e].source = "manual"
        BY DEF SealInv, OldAreManual
      <3> HIDE DEF e, row
      <3> QED BY <3>1, <3>2, <3>3, <3>4, <3>5, WriteSafe DEF MayReplace, Closed, Write
    <2> QED BY <1>3, <2>1, SameSafe DEF Posting, PostBegin, Begin, ReadPost
  <1>4. ASSUME NEW r \in Requests, Reversal(r) PROVE StepSafe
    <2>1. ASSUME NEW e \in Entries, InsertReversal(r, e) PROVE StepSafe
      <3>1. MayReplace(entry[e], request[r].edit)
        BY <2>1 DEF InsertReversal, At, SealInv, Held, MayReplace, Closed, Live
      <3>2. e \notin OldEntries
        BY <2>1 DEF InsertReversal, SealInv, OldAreManual
      <3> QED BY <2>1, <3>1, <3>2, WriteSafe DEF InsertReversal, Write
    <2> QED BY <1>4, <2>1, SameSafe DEF Reversal, ReverseBegin, Begin, ReadReverse
  <1>5. ASSUME NEW r \in Requests, Deletion(r) PROVE StepSafe
    <2>1. CASE Delete(r)
      <3> DEFINE e == request[r].id
                 row == [entry[e] EXCEPT !.status = "deleted"]
      <3>1. /\ e \in OldEntries /\ e \in Entries /\ entry[e] \in Row
            /\ Closed(entry[e], sealed) => entry[e].status = "draft"
            /\ entry[e].source = "manual" /\ entry[e].status # "absent"
        BY <2>1, StepTypes DEF Delete, At, SealInv, Held, OldAreManual
      <3>2. row.date = entry[e].date /\ row.source = entry[e].source /\ row.status = "deleted"
        BY <3>1, WithStatus DEF Statuses
      <3>3. entry[e].status = "deleted" => row = entry[e]
        BY <3>1 DEF Row
      <3>4. Write(r, e, row)
        BY <2>1 DEF Delete
      <3>5. Live(entry[e]) \/ entry[e].status = "deleted"
        BY <3>1, RowFields DEF Live, Statuses
      <3> HIDE DEF e, row
      <3> QED BY <3>1, <3>2, <3>3, <3>4, <3>5, WriteSafe DEF MayReplace, Closed, Write
    <2> QED BY <1>5, <2>1, SameSafe DEF Deletion, DeleteBegin, Begin
  <1>6. ASSUME NEW r \in Requests, (\E p \in Periods : PassLock(r, p)) \/ GiveUp(r) PROVE StepSafe
    BY <1>6, SameSafe DEF PassLock, GiveUp
  <1>7. ASSUME NEW e \in Entries, AcceptDraft(e) PROVE StepSafe
    <2>1. /\ entry'[e] = [entry[e] EXCEPT !.status = "posted"]
          /\ \A f \in Entries : f # e => entry'[f] = entry[f]
          /\ Acceptance(e)
      BY <1>7 DEF AcceptDraft, TypeOK, Acceptance
    <2>2. entry'[e].source = entry[e].source /\ entry'[e].status = "posted"
      BY <2>1, WithStatus DEF TypeOK, Statuses
    <2>3. FrozenStep
      BY <2>1 DEF FrozenStep, Frozen
    <2>4. OldAreManual'
      BY <2>1, <2>2, JournalAssumption DEF OldAreManual, SealInv
    <2> QED BY <2>3, <2>4 DEF StepSafe
  <1>8. ASSUME NEW p \in Periods, LockPeriod(p) \/ UnlockPeriod(p) PROVE StepSafe
    BY <1>8, SameSafe DEF LockPeriod, UnlockPeriod
  <1>9. CASE UNCHANGED vars
    BY <1>9, SameSafe DEF vars
  <1>10. CASE Next
    BY <1>1, <1>2, <1>3, <1>4, <1>5, <1>6, <1>7, <1>8, <1>10 DEF Next, Handler
  <1> QED BY <1>9, <1>10

-----------------------------------------------------------------------------
(* What the others know stays so.                                           *)

\* A row in a closed month was in it before, and is the same or the AI's.
LEMMA StillClosed ==
    ASSUME FrozenStep, sealed' \subseteq sealed, NEW e \in Entries, entry[e] \in Row,
           Closed(entry'[e], sealed')
    PROVE  /\ Closed(entry[e], sealed) /\ entry'[e].date = entry[e].date
           /\ entry'[e] = entry[e] \/ Acceptance(e)
  <1> DEFINE p == entry'[e].date
  <1>1. p \in sealed /\ Live(entry'[e])
    BY DEF Closed
  <1>2. CASE Acceptance(e)
    <2>1. entry'[e].date = entry[e].date
      BY <1>2, WithStatus DEF Acceptance, Statuses
    <2> QED BY <1>1, <1>2, <2>1 DEF Acceptance, Closed, Live
  <1>3. CASE Frozen(e, p)
    BY <1>1, <1>3 DEF Frozen, Closed, Live
  <1> QED BY <1>1, <1>2, <1>3 DEF FrozenStep

LEMMA HeldPreserved ==
    ASSUME TypeOK, SealInv, FrozenStep, sealed' \subseteq sealed, NEW q \in Requests
    PROVE  Held(request[q], entry', sealed')
  <1> DEFINE local == request[q]  e == local.id
  <1>1. Held(local, entry, sealed) /\ e \in Entries /\ entry[e] \in Row
    BY StepTypes DEF SealInv
  <1>2. Closed(entry'[e], sealed') =>
            /\ Closed(entry[e], sealed) /\ entry'[e].date = entry[e].date
            /\ entry'[e] = entry[e] \/ Acceptance(e)
    BY <1>1, StillClosed
  <1>3. e \in OldEntries => ~Acceptance(e)
    BY DEF SealInv, OldAreManual, Acceptance
  <1> HIDE DEF local
  <1> QED BY <1>1, <1>2, <1>3 DEF Held, local

LEMMA StepSeal == ASSUME TypeOK, SealInv, [Next]_vars PROVE SealInv' /\ FrozenStep
  <1>1. FrozenStep /\ OldAreManual'
    BY StepIsSafe DEF StepSafe
  <1>2. ASSUME NEW q \in Requests PROVE Held(request'[q], entry', sealed')
    <2>1. CASE request'[q].step = "idle"
      BY <2>1, IdleHolds
    <2>2. CASE sealed' \subseteq sealed
      <3>1. Held(request[q], entry', sealed')
        BY <1>1, <2>2, HeldPreserved
      <3>2. Keeps(q)
        BY StepHeld
      <3> QED BY <2>1, <3>1, <3>2 DEF Keeps
    <2> QED BY <2>1, <2>2, SealedAtRest DEF SealsAtRest
  <1> QED BY <1>1, <1>2 DEF SealInv

\* A month is frozen from the first moment of rest after its lock until it is
\* unlocked: no handler, whatever it read before and however many are in
\* progress, writes an entry into it, out of it or in it; only the acceptance
\* of the AI's draft does, which asks for no lock.
THEOREM ClosedMonthsStayFrozen == Spec => FrozenButForAcceptance
  <1>1. TypeOK /\ SealInv /\ [Next]_vars => TypeOK' /\ SealInv'
    BY StepType, StepSeal
  <1>2. TypeOK /\ SealInv /\ [Next]_vars =>
            [\A p \in sealed, e \in Entries : Frozen(e, p) \/ Acceptance(e)]_vars
    BY StepSeal DEF FrozenStep
  <1> QED BY <1>1, <1>2, InitType, InitSeal, PTL DEF Spec, FrozenButForAcceptance

-----------------------------------------------------------------------------
(* Posted entries.  A handler that is alone on an entry finds it as it read  *)
(* it: nothing but a handler on the entry, or an acceptance, writes it.      *)

OnDraft == {"writeEdit", "readPost", "writePost", "delete"}

OnPosted == {"readReverse", "insertReversal"}

SoleHandler ==
    \A e \in Entries \ crossed, q \in Requests, r \in Requests : On(q, e) /\ On(r, e) => q = r

\* What a handler alone on its entry knows of it.
Knows(local, rows) ==
    /\ local.step \in OnDraft => rows[local.id].status = "draft"
    /\ local.step \in OnPosted => rows[local.id].status = "posted"
    /\ local.step = "writeEdit" => local.edit.reverses = rows[local.id].reverses
    /\ local.step = "insertReversal" => local.edit.lines = Swapped(rows[local.id].lines)

Carries(local) ==
    local.step = "insertReversal" => local.edit.status = "posted" /\ local.edit.reverses = local.id

Informed(local, rows, met) ==
    /\ Carries(local)
    /\ local.step \in OnDraft \cup OnPosted /\ local.id \notin met => Knows(local, rows)

ReversalsPosted ==
    \A e \in Entries \ (crossed \cup claimed) :
        Live(entry[e]) /\ entry[e].reverses # NoEntry => entry[e].status = "posted"

PostInv ==
    /\ SoleHandler /\ ReversalsPosted /\ ReversalsMirror
    /\ \A r \in Requests : Informed(request[r], entry, crossed)

LEMMA InitPost == Init => PostInv
  <1> SUFFICES ASSUME Init PROVE PostInv
    OBVIOUS
  <1>1. ASSUME NEW e \in Entries PROVE entry[e].reverses = NoEntry
    BY <1>1, JournalAssumption DEF Init, OldRows, NewRow, NoRow
  <1>2. \A r \in Requests : request[r].step = "idle"
    BY RestingType DEF Init
  <1> QED BY <1>1, <1>2 DEF PostInv, SoleHandler, On, Idle, ReversalsPosted, ReversalsMirror,
             Informed, Carries, OnDraft, OnPosted

\* What one step may do to the row of e, on which no two have met.
Fresh(e) ==
    LET o == entry'[e].reverses IN
    /\ entry[e].status = "absent"
    /\ \/ o = NoEntry \/ e \in claimed'
       \/ /\ o \in Entries /\ entry'[e].status = "posted"
          /\ o \notin crossed =>
                entry[o].status = "posted" /\ entry'[e].lines = Swapped(entry[o].lines)

Redrafted(e) ==
    /\ entry[e].status = "draft" /\ entry'[e].reverses = entry[e].reverses
    /\ e \in crossed' \/ \A q \in Requests : ~On(q, e)'

Rewrites == \A e \in Entries \ crossed : entry'[e] = entry[e] \/ Fresh(e) \/ Redrafted(e)

Learns ==
    \A r \in Requests :
        \/ request'[r] = request[r]
        \/ request'[r].step = "idle"
        \/ entry' = entry /\ Informed(request'[r], entry, crossed')

\* No handler goes to another entry but by beginning on it.
Stays == /\ crossed \subseteq crossed' /\ claimed \subseteq claimed'
         /\ \A q \in Requests, e \in Entries :
               On(q, e)' => On(q, e) \/ e \in crossed' \/ \A r \in Requests \ {q} : ~On(r, e)'

LEMMA StepPreserves ==
    ASSUME TypeOK, PostInv, Rewrites, Learns, Stays
    PROVE  PostInv'
  <1>1. SoleHandler'
    BY DEF Stays, SoleHandler, PostInv
  <1>2. ASSUME NEW e \in Entries \ crossed'
        PROVE  /\ entry'[e] = entry[e] \/ Fresh(e) \/ Redrafted(e)
               /\ entry[e].status = "posted" => entry'[e] = entry[e]
    BY <1>2 DEF Rewrites, Stays, Fresh, Redrafted
  <1>3. ReversalsPosted'
    <2> SUFFICES ASSUME NEW e \in Entries \ (crossed' \cup claimed'), Live(entry'[e]),
                        entry'[e].reverses # NoEntry
                 PROVE  entry'[e].status = "posted"
      BY DEF ReversalsPosted
    <2>1. CASE entry'[e] = entry[e]
      BY <2>1 DEF PostInv, ReversalsPosted, Stays
    <2>2. CASE Fresh(e)
      BY <2>2 DEF Fresh
    <2>3. CASE Redrafted(e)
      BY <2>3 DEF Redrafted, PostInv, ReversalsPosted, Stays, Live
    <2> QED BY <1>2, <2>1, <2>2, <2>3
  <1>4. ReversalsMirror'
    <2> DEFINE o(e) == entry'[e].reverses
    <2> SUFFICES ASSUME NEW e \in Entries, Live(entry'[e]), o(e) # NoEntry, e \notin crossed',
                        e \notin claimed', o(e) \notin crossed'
                 PROVE  /\ entry'[e].status = "posted" /\ entry'[o(e)].status = "posted"
                        /\ entry'[e].lines = Swapped(entry'[o(e)].lines)
      BY DEF ReversalsMirror
    <2>1. CASE entry'[e] = entry[e]
      <3>1. /\ entry[e].status = "posted" /\ entry[o(e)].status = "posted"
            /\ entry[e].lines = Swapped(entry[o(e)].lines)
        BY <2>1 DEF PostInv, ReversalsMirror, Stays
      <3>2. o(e) \in Entries
        BY <2>1, RowFields DEF TypeOK
      <3> QED BY <1>2, <2>1, <3>1, <3>2
    <2>2. CASE Fresh(e)
      <3>1. /\ o(e) \in Entries /\ entry'[e].status = "posted" /\ entry[o(e)].status = "posted"
            /\ entry'[e].lines = Swapped(entry[o(e)].lines)
        BY <2>2 DEF Fresh, Stays
      <3> QED BY <1>2, <3>1
    <2>3. CASE Redrafted(e)
      BY <2>3 DEF Redrafted, PostInv, ReversalsPosted, Stays, Live
    <2> QED BY <1>2, <2>1, <2>2, <2>3
  <1>5. ASSUME NEW r \in Requests PROVE Informed(request'[r], entry', crossed')
    <2>1. CASE request'[r].step = "idle"
      BY <2>1 DEF Informed, Carries, OnDraft, OnPosted
    <2>2. CASE request'[r] = request[r]
      <3> SUFFICES ASSUME NEW e \in Entries, e = request[r].id,
                          request[r].step \in OnDraft \cup OnPosted, e \notin crossed'
                   PROVE  Knows(request[r], entry')
        BY <2>2, StepTypes DEF Informed, PostInv
      <3>1. Knows(request[r], entry) /\ On(r, e)'
        BY <2>2 DEF PostInv, Informed, Stays, On, Idle, OnDraft, OnPosted
      <3>2. entry'[e] = entry[e]
        BY <1>2, <3>1 DEF Fresh, Redrafted, Knows, OnDraft, OnPosted
      <3> QED BY <3>1, <3>2 DEF Knows
    <2>3. CASE entry' = entry /\ Informed(request'[r], entry, crossed')
      BY <2>3
    <2> QED BY <2>1, <2>2, <2>3 DEF Learns
  <1> QED BY <1>1, <1>3, <1>4, <1>5 DEF PostInv

Posts == Rewrites /\ Learns /\ Stays

LEMMA BeginPosts ==
    ASSUME TypeOK, PostInv, NEW r \in Requests, NEW e \in Entries, NEW step, NEW edit, NEW check,
           Begin(r, e, step, edit, check), Informed(Local(step, e, edit, check), entry, crossed)
    PROVE  Posts
  <1> DEFINE local == Local(step, e, edit, check)
  <1>1. request' = [request EXCEPT ![r] = local] /\ UNCHANGED <<entry, claimed>> /\ crossed \subseteq crossed'
    BY DEF Begin
  <1>2. request'[r] = local /\ \A q \in Requests : q # r => request'[q] = request[q]
    BY <1>1 DEF TypeOK
  <1>3. Rewrites
    BY <1>1 DEF Rewrites
  <1>4. Learns
    BY <1>1, <1>2 DEF Learns, Informed
  <1>5. Stays
    <2> SUFFICES ASSUME NEW q \in Requests, NEW f \in Entries, On(q, f)', ~On(q, f), f \notin crossed',
                        NEW s \in Requests \ {q}
                 PROVE  ~On(s, f)'
      BY <1>1 DEF Stays
    <2>1. q = r /\ f = e /\ step # "insert"
      BY <1>2 DEF On, Idle, Local
    <2>2. ~On(s, e)
      BY <2>1 DEF Begin
    <2> QED BY <1>2, <2>1, <2>2 DEF On, Idle
  <1> QED BY <1>3, <1>4, <1>5 DEF Posts

\* A handler goes on without writing.
LEMMA GotoPosts ==
    ASSUME TypeOK, PostInv, NEW r \in Requests, NEW local,
           request' = [request EXCEPT ![r] = local], UNCHANGED <<entry, crossed, claimed>>,
           local.id = request[r].id, request[r].step # "idle",
           request[r].step = "insert" => local.step = "insert",
           Informed(local, entry, crossed)
    PROVE  Posts
  <1>1. request'[r] = local /\ \A q \in Requests : q # r => request'[q] = request[q]
    BY DEF TypeOK
  <1>2. Stays
    BY <1>1 DEF Stays, On, Idle
  <1> QED BY <1>1, <1>2 DEF Posts, Rewrites, Learns

LEMMA FinishPosts ==
    ASSUME TypeOK, PostInv, NEW r \in Requests, Finish(r), claimed \subseteq claimed'
    PROVE  Learns /\ Stays /\ \A e \in Entries : ~On(r, e)'
  <1>1. request'[r] = Resting /\ \A q \in Requests : q # r => request'[q] = request[q]
    BY DEF Finish, TypeOK
  <1>2. crossed' = crossed
    BY DEF Finish
  <1> QED BY <1>1, <1>2, RestingType DEF Learns, Stays, On, Idle

\* A handler writes the entry it is on.
LEMMA WritePosts ==
    ASSUME TypeOK, PostInv, NEW r \in Requests, NEW e \in Entries, NEW row, Put(r, e, row),
           claimed' = claimed, e = request[r].id, request[r].step \in OnDraft,
           e \notin crossed => row.reverses = entry[e].reverses
    PROVE  Posts
  <1>1. /\ entry'[e] = row /\ \A f \in Entries : f # e => entry'[f] = entry[f]
        /\ Finish(r)
    BY DEF Write, Put, TypeOK
  <1>2. Learns /\ Stays /\ ~On(r, e)'
    BY <1>1, FinishPosts
  <1>3. ASSUME e \notin crossed PROVE Redrafted(e)
    <2>1. On(r, e) /\ entry[e].status = "draft"
      BY <1>3 DEF On, Idle, OnDraft, PostInv, Informed, Knows
    <2>2. \A q \in Requests \ {r} : ~On(q, e)
      BY <1>3, <2>1 DEF PostInv, SoleHandler
    <2>3. ASSUME NEW q \in Requests PROVE ~On(q, e)'
      <3>1. CASE q = r
        BY <1>2, <3>1
      <3>2. CASE q # r
        BY <1>1, <2>2, <3>2 DEF Finish, On, Idle, TypeOK
      <3> QED BY <3>1, <3>2
    <2> QED BY <1>1, <1>3, <2>1, <2>3 DEF Redrafted
  <1> QED BY <1>1, <1>2, <1>3 DEF Posts, Rewrites

\* A handler inserts a row.
LEMMA InsertPosts ==
    ASSUME TypeOK, PostInv, NEW r \in Requests, NEW e \in Entries, entry[e].status = "absent",
           Put(r, e, request[r].edit), request[r].step \in {"insert", "insertReversal"},
           claimed \subseteq claimed', request[r].step = "insert" =>
              request[r].edit.reverses = NoEntry \/ e \in claimed'
    PROVE  Posts
  <1>1. /\ entry'[e] = request[r].edit /\ \A f \in Entries : f # e => entry'[f] = entry[f]
        /\ Finish(r)
    BY DEF Write, Put, TypeOK
  <1>2. Fresh(e)
    BY <1>1, StepTypes DEF Fresh, PostInv, Informed, Carries, Knows, OnPosted
  <1> QED BY <1>1, <1>2, FinishPosts DEF Posts, Rewrites

LEMMA StepPosts == ASSUME TypeOK, PostInv, [Next]_vars PROVE Posts
  <1>1. ASSUME NEW r \in Requests, Creation(r) PROVE Posts
    <2>1. ASSUME NEW x \in Inputs, NEW date \in Periods, NEW status \in {"draft", "posted"},
                 NEW source \in Sources, NEW reverses \in Claims \cup {NoEntry},
                 CreateBegin(r, x, date, status, source, reverses)
          PROVE  Posts
      <3> DEFINE row == NewRow(status, Stored(x), date, source, reverses)
      <3>1. Begin(r, AnyEntry, "insert", row, {date})
        BY <2>1 DEF CreateBegin
      <3> HIDE DEF row
      <3>2. Informed(Local("insert", AnyEntry, row, {date}), entry, crossed)
        BY DEF Informed, Carries, Local, OnDraft, OnPosted
      <3> QED BY <3>1, <3>2, AnyEntryType, BeginPosts
    <2>2. ASSUME NEW e \in Entries, Insert(r, e) PROVE Posts
      BY <2>2, InsertPosts DEF Insert, At, Write
    <2> QED BY <1>1, <2>1, <2>2 DEF Creation
  <1>2. ASSUME NEW r \in Requests, Edit(r) PROVE Posts
    <2>1. ASSUME NEW e \in Entries, NEW x \in Inputs, NEW date \in Periods,
                 NEW status \in {"draft", "posted"}, EditBegin(r, e, x, date, status)
          PROVE  Posts
      <3> DEFINE edit == [entry[e] EXCEPT !.status = status, !.lines = Stored(x), !.date = date]
      <3>1. entry[e] \in Row
        BY DEF TypeOK
      <3>2. edit.reverses = entry[e].reverses
        BY <3>1 DEF Row
      <3>3. Begin(r, e, "writeEdit", edit, {entry[e].date, date}) /\ entry[e].status = "draft"
        BY <2>1 DEF EditBegin
      <3> HIDE DEF edit
      <3>4. Informed(Local("writeEdit", e, edit, {entry[e].date, date}), entry, crossed)
        BY <3>2, <3>3 DEF Informed, Carries, Knows, Local, OnDraft, OnPosted
      <3> QED BY <3>3, <3>4, BeginPosts
    <2>2. CASE WriteEdit(r)
      <3> DEFINE edit == request[r].edit  status == entry[request[r].id].status
      <3>1. request[r].step = "writeEdit" /\ edit \in Row /\ status \in Statuses
        BY <2>2, StepTypes, RowFields DEF WriteEdit, At
      <3>2. request[r].id \notin crossed => edit.reverses = entry[request[r].id].reverses
        BY <3>1 DEF PostInv, Informed, Knows, OnDraft
      <3>3. [edit EXCEPT !.status = status].reverses = edit.reverses
        BY <3>1, WithStatus
      <3>4. \/ Write(r, request[r].id, edit)
            \/ Write(r, request[r].id, [edit EXCEPT !.status = status])
        BY <2>2 DEF WriteEdit
      <3> HIDE DEF edit, status
      <3> QED BY <3>1, <3>2, <3>3, <3>4, StepTypes, WritePosts DEF OnDraft, Write
    <2> QED BY <1>2, <2>1, <2>2 DEF Edit
  <1>3. ASSUME NEW r \in Requests, Posting(r) PROVE Posts
    <2>1. ASSUME NEW e \in Entries, PostBegin(r, e) PROVE Posts
      <3> DEFINE edit == [NoRow EXCEPT !.date = entry[e].date]
      <3>1. Begin(r, e, "readPost", edit, {}) /\ entry[e].status = "draft"
        BY <2>1 DEF PostBegin
      <3> HIDE DEF edit
      <3>2. Informed(Local("readPost", e, edit, {}), entry, crossed)
        BY <3>1 DEF Informed, Carries, Knows, Local, OnDraft, OnPosted
      <3> QED BY <3>1, <3>2, BeginPosts
    <2>2. CASE ReadPost(r)
      <3> DEFINE local == [request[r] EXCEPT !.step = "writePost", !.check = {request[r].edit.date}]
      <3>1. local.step = "writePost" /\ local.id = request[r].id
        BY ReadPostType
      <3>2. request' = [request EXCEPT ![r] = local] /\ UNCHANGED <<entry, crossed, claimed>>
        BY <2>2 DEF ReadPost, TypeOK
      <3>3. request[r].step = "readPost" /\ Informed(request[r], entry, crossed)
        BY <2>2 DEF ReadPost, At, PostInv
      <3> HIDE DEF local
      <3>4. Informed(local, entry, crossed)
        BY <3>1, <3>3 DEF Informed, Carries, Knows, OnDraft, OnPosted
      <3> QED BY <3>1, <3>2, <3>3, <3>4, GotoPosts
    <2>3. CASE WritePost(r)
      <3> DEFINE e == request[r].id
      <3>1. /\ request[r].step \in OnDraft /\ entry[e] \in Row
            /\ Write(r, e, [entry[e] EXCEPT !.status = "posted"])
        BY <2>3, StepTypes DEF WritePost, At, OnDraft
      <3>2. [entry[e] EXCEPT !.status = "posted"].reverses = entry[e].reverses
        BY <3>1, WithStatus DEF Statuses
      <3> QED BY <3>1, <3>2, StepTypes, WritePosts DEF Write
    <2> QED BY <1>3, <2>1, <2>2, <2>3 DEF Posting
  <1>4. ASSUME NEW r \in Requests, Reversal(r) PROVE Posts
    <2>1. ASSUME NEW e \in Entries, ReverseBegin(r, e) PROVE Posts
      <3>1. Begin(r, e, "readReverse", NoRow, {Today}) /\ entry[e].status = "posted"
        BY <2>1 DEF ReverseBegin
      <3>2. Informed(Local("readReverse", e, NoRow, {Today}), entry, crossed)
        BY <3>1 DEF Informed, Carries, Knows, Local, OnDraft, OnPosted
      <3> QED BY <3>1, <3>2, BeginPosts
    <2>2. CASE ReadReverse(r)
      <3> DEFINE e == request[r].id
                 edit == NewRow("posted", Swapped(entry[e].lines), Today, "manual", e)
                 local == [request[r] EXCEPT !.step = "insertReversal", !.edit = edit]
      <3>1. /\ edit \in Row /\ edit.reverses = e /\ edit.status = "posted"
            /\ edit.lines = Swapped(entry[e].lines)
        BY StepTypes, RowFields, ReversalType DEF NewRow
      <3>2. request' = [request EXCEPT ![r] = local] /\ UNCHANGED <<entry, crossed, claimed>>
        BY <2>2 DEF ReadReverse, TypeOK
      <3>3. request[r].step = "readReverse" /\ Informed(request[r], entry, crossed)
        BY <2>2 DEF ReadReverse, At, PostInv
      <3> HIDE DEF edit
      <3>4. local.step = "insertReversal" /\ local.id = e /\ local.edit = edit
        BY <3>1, ReadReverseType
      <3> HIDE DEF local
      <3>5. Informed(local, entry, crossed)
        BY <3>1, <3>3, <3>4 DEF Informed, Carries, Knows, OnDraft, OnPosted
      <3> QED BY <3>2, <3>3, <3>4, <3>5, GotoPosts
    <2>3. ASSUME NEW e \in Entries, InsertReversal(r, e) PROVE Posts
      BY <2>3, InsertPosts DEF InsertReversal, At, Write
    <2> QED BY <1>4, <2>1, <2>2, <2>3 DEF Reversal
  <1>5. ASSUME NEW r \in Requests, Deletion(r) PROVE Posts
    <2>1. ASSUME NEW e \in Entries, DeleteBegin(r, e) PROVE Posts
      <3>1. Begin(r, e, "delete", NoRow, {}) /\ entry[e].status = "draft"
        BY <2>1 DEF DeleteBegin
      <3>2. Informed(Local("delete", e, NoRow, {}), entry, crossed)
        BY <3>1 DEF Informed, Carries, Knows, Local, OnDraft, OnPosted
      <3> QED BY <3>1, <3>2, BeginPosts
    <2>2. CASE Delete(r)
      <3> DEFINE e == request[r].id
      <3>1. /\ request[r].step \in OnDraft /\ entry[e] \in Row
            /\ Write(r, e, [entry[e] EXCEPT !.status = "deleted"])
        BY <2>2, StepTypes DEF Delete, At, OnDraft
      <3>2. [entry[e] EXCEPT !.status = "deleted"].reverses = entry[e].reverses
        BY <3>1, WithStatus DEF Statuses
      <3> QED BY <3>1, <3>2, StepTypes, WritePosts DEF Write
    <2> QED BY <1>5, <2>1, <2>2 DEF Deletion
  <1>6. ASSUME NEW r \in Requests, NEW p \in Periods, PassLock(r, p) PROVE Posts
    <2> DEFINE local == [request[r] EXCEPT !.check = request[r].check \ {p}]
    <2>1. local.step = request[r].step /\ local.id = request[r].id /\ local.edit = request[r].edit
      BY PassLockType
    <2>2. request' = [request EXCEPT ![r] = local] /\ UNCHANGED <<entry, crossed, claimed>>
      BY <1>6 DEF PassLock, TypeOK
    <2>3. Informed(request[r], entry, crossed)
      BY DEF PostInv
    <2> HIDE DEF local
    <2>4. Informed(local, entry, crossed)
      BY <2>1, <2>3 DEF Informed, Carries, Knows
    <2>5. CASE request[r].step # "idle"
      BY <2>1, <2>2, <2>4, <2>5, GotoPosts
    <2>6. CASE request[r].step = "idle"
      <3>1. request'[r].step = "idle" /\ \A q \in Requests : q # r => request'[q] = request[q]
        BY <2>1, <2>2, <2>6 DEF TypeOK
      <3> QED BY <2>2, <3>1 DEF Posts, Rewrites, Learns, Stays, On, Idle
    <2> QED BY <2>5, <2>6
  <1>7. ASSUME NEW r \in Requests, GiveUp(r) PROVE Posts
    BY <1>7, FinishPosts DEF GiveUp, Posts, Rewrites
  <1>8. ASSUME NEW e \in Entries, AcceptDraft(e) PROVE Posts
    <2>1. /\ entry'[e] = [entry[e] EXCEPT !.status = "posted"]
          /\ \A f \in Entries : f # e => entry'[f] = entry[f]
          /\ request' = request /\ entry[e].status = "draft" /\ entry[e] \in Row
      BY <1>8 DEF AcceptDraft, TypeOK
    <2>2. entry'[e].reverses = entry[e].reverses
      BY <2>1, WithStatus DEF Statuses
    <2>3. e \in crossed' \/ \A q \in Requests : ~On(q, e)'
      BY <1>8, <2>1 DEF AcceptDraft, On, Idle
    <2>4. Rewrites
      BY <2>1, <2>2, <2>3 DEF Rewrites, Redrafted
    <2> QED BY <1>8, <2>1, <2>4 DEF AcceptDraft, Posts, Learns, Stays, On, Idle
  <1>9. ASSUME UNCHANGED <<entry, request, crossed, claimed>> PROVE Posts
    BY <1>9 DEF Posts, Rewrites, Learns, Stays, On, Idle
  <1>10. ASSUME NEW p \in Periods, LockPeriod(p) \/ UnlockPeriod(p) PROVE Posts
    BY <1>9, <1>10 DEF LockPeriod, UnlockPeriod
  <1>11. CASE UNCHANGED vars
    BY <1>9, <1>11 DEF vars
  <1>12. CASE Next
    BY <1>1, <1>2, <1>3, <1>4, <1>5, <1>6, <1>7, <1>8, <1>10, <1>12 DEF Next, Handler
  <1> QED BY <1>11, <1>12

LEMMA StepPost == TypeOK /\ PostInv /\ [Next]_vars => PostInv'
  BY StepPosts, StepPreserves DEF Posts

\* A posted or void entry stays as it is until two handlers, or a handler and
\* an acceptance, have been on it at the same time.
THEOREM PostedStaysPosted == Spec => PostedIsImmutable
  <1>1. TypeOK /\ PostInv /\ [Next]_vars =>
            [\A e \in Entries : entry[e].status \in {"posted", "void"} /\ e \notin crossed
                => entry'[e] = entry[e]]_vars
    BY StepPosts DEF Posts, Rewrites, Fresh, Redrafted
  <1> QED BY <1>1, InitType, InitPost, StepType, StepPost, PTL DEF Spec, PostedIsImmutable

\* A reversal the reverse route made takes back exactly what its original, still
\* posted, put into the books, until two handlers have been on one of them at the same time.
THEOREM ReversalsKeepMirroring == Spec => []ReversalsMirror
  <1>1. PostInv => ReversalsMirror
    BY DEF PostInv
  <1> QED BY <1>1, InitType, InitPost, StepType, StepPost, PTL DEF Spec
=============================================================================
