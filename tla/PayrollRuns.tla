----------------------------- MODULE PayrollRuns -----------------------------
(***************************************************************************)
(* One payroll run (routes/payroll.routes.ts): its items are calculated     *)
(* from the active employees, corrected by hand, approved and posted, while *)
(* employees come, go and earn differently and months are locked.  Runs of  *)
(* other months are other rows with other items.                            *)
(*                                                                         *)
(* No route opens a transaction: a handler reads the run once, and then     *)
(* deletes, inserts, sums up and writes with separate calls.  Each action   *)
(* is one of them with the code up to the next.                             *)
(*                                                                         *)
(* Of an item the model keeps its net salary, in two parts: what the        *)
(* employee's contract gave at the calculation, and the overtime less       *)
(* deductions entered by hand.  Gross pay, pension and gratuity go into the *)
(* same entry and follow from it line by line (calculatePayrollLine).       *)
(***************************************************************************)
EXTENDS Integers, FiniteSetsExt, SequencesExt

CONSTANTS
    Employees,
    Items,       \* payroll_items ids; BOUND: used again when no handler knows them
    Requests,    \* handlers that may be in progress at the same time
    Pays,        \* what contracts give
    Extras,      \* what is entered by hand
    Months,
    Lockable,    \* BOUND: the months that are locked
    Settable,    \* BOUND: the statuses that are set by hand
    MaxPosted,   \* BOUND: no approval begins when so many entries are posted
    Continued    \* BOUND: whether the run goes on when few properties are left of it

Statuses == {"draft", "calculated", "approved", "paid", "cancelled"}

ASSUME PayrollAssumption ==
    /\ Employees # {} /\ Months # {} /\ Lockable \subseteq Months
    /\ Settable \subseteq Statuses /\ MaxPosted \in Nat /\ Continued \in BOOLEAN
    /\ Pays # {} /\ Pays \subseteq Nat /\ Extras \subseteq Int /\ IsFiniteSet(Items)

VARIABLES
    run,       \* payroll_runs
    employee,  \* employees
    item,      \* payroll_items
    posted,    \* the entries of the run, in the order they were posted
    locked,    \* the months month_end_close has locked
    request    \* the local state of every handler

\* No variables of the code, and read by no action but where a bound says so.
VARIABLES
    sealed,    \* the months locked ever since a moment of rest
    past,      \* whether two handlers were ever on the run at the same time
               \* ("crossed"), or else one ended between two writes ("torn")
    outside    \* the run was set to approved by hand, or lost items with their employee

books == <<run, employee, item, posted, outside>>

vars == <<books, locked, request, sealed, past>>

-----------------------------------------------------------------------------
Row == [status : Statuses, month : Months, total : Int]

NoItem == [state |-> "absent"]

ItemRow == {NoItem} \cup
    [state : {"pending", "paid"}, employee : Employees, basic : Pays,
     extra : Extras \cup {0}, edited : BOOLEAN]

Resting == [step |-> "idle"]

\* A calculation, with the employees whose items stay and those that still need one;
\* an approval, with the month it read; the edit of an item; an edit of the run.
\* amount is what has been summed up.
LocalState == {Resting}
    \cup [step : {"preserve", "clear", "list", "insert"}, keep : SUBSET Employees,
          left : SUBSET (Employees \X Pays), amount : Int]
    \cup [step : {"check", "sum", "post"}, month : Months, amount : Int]
    \cup [step : {"approve", "pay"}] \cup [step : {"write"}, item : Items, extra : Extras]
    \cup [step : {"resum", "retotal"}, amount : Int]
    \cup [step : {"setStatus"}, status : Statuses] \cup [step : {"setMonth"}, month : Months]

\* The unique index on company, month and year lets one creation through.
Init ==
    /\ run \in [status : {"draft"}, month : Months, total : {0}]
    /\ employee \in [Employees -> [state : {"active"}, pay : Pays]]
    /\ item = [i \in Items |-> NoItem]
    /\ posted = <<>>
    /\ locked = {} /\ sealed = {}
    /\ request = [r \in Requests |-> Resting]
    /\ past = "clean" /\ outside = FALSE

-----------------------------------------------------------------------------
Live == {i \in Items : item[i].state # "absent"}

Net(i) == item[i].basic + item[i].extra

Wages(items) == MapThenSumSet(Net, items)

EditedItems == {i \in Live : item[i].edited}

Idle(r) == request[r].step = "idle"

At(r, step) == request[r].step = step

Set(r, local) == request' = [request EXCEPT ![r] = local]

Goto(r, step) == request' = [request EXCEPT ![r].step = step]

\* BOUND unless Continued: nothing begins, and employees stay as they are, once two
\* handlers have met or the run has left the routes; and after a torn handler they
\* come one at a time.
Explored == Continued \/ (past # "crossed" /\ ~outside)

Begin(r, local) ==
    LET alone == \A q \in Requests : Idle(q) IN
    /\ Idle(r) /\ Explored /\ (past = "torn" => alone \/ Continued)
    /\ Set(r, local)
    /\ past' = IF alone THEN past ELSE "crossed"
    /\ UNCHANGED <<books, locked, sealed>>

End(r) ==
    /\ Set(r, Resting)
    /\ sealed' = IF \A q \in Requests \ {r} : Idle(q) THEN locked ELSE sealed

\* What a step in the middle of a handler leaves alone.
Midway == UNCHANGED <<locked, sealed, past>>

-----------------------------------------------------------------------------
(* POST payroll-runs/:id/calculate                                           *)

Calculate(r) ==
    /\ run.status # "approved"
    /\ Begin(r, [step |-> "preserve", keep |-> {}, left |-> {}, amount |-> 0])

\* Mutant: the preserved items are left out of the totals.
Preserve_unsummed(r) ==
    /\ At(r, "preserve")
    /\ Set(r, [request[r] EXCEPT !.step = "clear", !.keep = {item[i].employee : i \in EditedItems}])
    /\ Midway /\ UNCHANGED books

\* Mutant: edited items are kept, and their employees calculated again.
Preserve_forgotten(r) ==
    /\ At(r, "preserve")
    /\ Set(r, [request[r] EXCEPT !.step = "clear", !.amount = Wages(EditedItems)])
    /\ Midway /\ UNCHANGED books

Preserve(r) ==
    /\ At(r, "preserve")
    /\ Set(r, [request[r] EXCEPT !.step = "clear", !.amount = Wages(EditedItems),
                                 !.keep = {item[i].employee : i \in EditedItems}])
    /\ Midway /\ UNCHANGED books

DeleteItems(items) == item' = [i \in Items |-> IF i \in items THEN NoItem ELSE item[i]]

\* Mutant: deletes what was not among the items read before.
Clear_unread(r) ==
    /\ At(r, "clear")
    /\ DeleteItems({i \in Live : item[i].employee \notin request[r].keep})
    /\ Goto(r, "list")
    /\ Midway /\ UNCHANGED <<run, employee, posted, outside>>

Clear(r) ==
    /\ At(r, "clear")
    /\ DeleteItems(Live \ EditedItems)
    /\ Goto(r, "list")
    /\ Midway /\ UNCHANGED <<run, employee, posted, outside>>

\* With nobody to pay the calculation ends here, the old items deleted.
ListEmployees(r) ==
    LET keep == request[r].keep
        active == {e \in Employees : employee[e].state = "active"}
        nobody == active = {} /\ keep = {}
    IN  /\ At(r, "list")
        /\ \/ nobody /\ End(r)
           \/ /\ ~nobody /\ UNCHANGED sealed
              /\ Set(r, [request[r] EXCEPT !.step = "insert",
                            !.left = {<<e, employee[e].pay>> : e \in active \ keep},
                            !.keep = {}])
        /\ UNCHANGED <<books, locked, past>>

Unknown(i) ==
    /\ item[i].state = "absent"
    /\ ~ \E r \in Requests : At(r, "write") /\ request[r].item = i

\* An item for the next employee; the insert fails where the employee has gone.
InsertItem(r, next, i) ==
    LET e == next[1]  pay == next[2] IN
    /\ At(r, "insert") /\ next \in request[r].left
    /\ employee[e].state # "deleted"
    /\ Unknown(i)
    /\ item' = [item EXCEPT ![i] = [state |-> "pending", employee |-> e, basic |-> pay,
                                    extra |-> 0, edited |-> FALSE]]
    /\ Set(r, [request[r] EXCEPT !.left = @ \ {next}, !.amount = @ + pay])
    /\ Midway /\ UNCHANGED <<run, employee, posted, outside>>

\* Totals and status are written by id.
WriteTotals(r) ==
    /\ At(r, "insert") /\ request[r].left = {}
    /\ run' = [run EXCEPT !.total = request[r].amount, !.status = "calculated"]
    /\ End(r)
    /\ UNCHANGED <<employee, item, posted, outside, locked, past>>

-----------------------------------------------------------------------------
(* POST payroll-runs/:id/approve                                             *)

Approve(r) ==
    /\ run.status \notin {"approved", "draft"}
    /\ Len(posted) < MaxPosted
    /\ Begin(r, [step |-> "check", month |-> run.month, amount |-> 0])

PassLock(r) ==
    LET open == request[r].month \notin locked IN
    /\ At(r, "check")
    /\ \/ open /\ Goto(r, "sum") /\ UNCHANGED sealed
       \/ ~open /\ End(r)
    /\ UNCHANGED <<books, locked, past>>

\* The amounts come from the items, not from the totals of the run.
SumItems(r) ==
    /\ At(r, "sum")
    /\ \/ /\ Live # {} /\ UNCHANGED sealed
          /\ Set(r, [request[r] EXCEPT !.step = "post", !.amount = Wages(Live)])
       \/ Live = {} /\ End(r)
    /\ UNCHANGED <<books, locked, past>>

\* Mutant: the month is asked of the run again.
Post_currentMonth(r) ==
    /\ At(r, "post")
    /\ posted' = Append(posted, [month |-> run.month, amount |-> request[r].amount])
    /\ Set(r, [step |-> "approve"])
    /\ Midway /\ UNCHANGED <<run, employee, item, outside>>

Post(r) ==
    /\ At(r, "post")
    /\ posted' = Append(posted, [month |-> request[r].month, amount |-> request[r].amount])
    /\ Set(r, [step |-> "approve"])
    /\ Midway /\ UNCHANGED <<run, employee, item, outside>>

SetApproved(r) ==
    /\ At(r, "approve")
    /\ run' = [run EXCEPT !.status = "approved"]
    /\ Goto(r, "pay")
    /\ Midway /\ UNCHANGED <<employee, item, posted, outside>>

MarkPaid(r) ==
    /\ At(r, "pay")
    /\ item' = [i \in Items |-> IF i \in Live THEN [item[i] EXCEPT !.state = "paid"] ELSE item[i]]
    /\ End(r)
    /\ UNCHANGED <<run, employee, posted, outside, locked, past>>

-----------------------------------------------------------------------------
(* PATCH payroll-items/:id                                                   *)

EditItem(r, i, x) ==
    /\ i \in Live /\ run.status # "approved"
    /\ item[i].basic + x >= 0
    /\ Begin(r, [step |-> "write", item |-> i, extra |-> x])

\* The row may have gone meanwhile; the totals are written all the same.
WriteItem(r) ==
    LET i == request[r].item IN
    /\ At(r, "write")
    /\ item' = IF i \in Live THEN [item EXCEPT ![i].extra = request[r].extra, ![i].edited = TRUE]
               ELSE item
    /\ Set(r, [step |-> "resum", amount |-> 0])
    /\ Midway /\ UNCHANGED <<run, employee, posted, outside>>

SumAgain(r) ==
    /\ At(r, "resum")
    /\ Set(r, [request[r] EXCEPT !.step = "retotal", !.amount = Wages(Live)])
    /\ Midway /\ UNCHANGED books

WriteSum(r) ==
    /\ At(r, "retotal")
    /\ run' = [run EXCEPT !.total = request[r].amount]
    /\ End(r)
    /\ UNCHANGED <<employee, item, posted, outside, locked, past>>

-----------------------------------------------------------------------------
(* PATCH payroll-runs/:id; any status the table takes is taken, and any month *)
(* without a run of its own (the others end in Die).                         *)

Patches(r) ==
    /\ run.status # "approved"
    /\ \/ \E s \in Settable : Begin(r, [step |-> "setStatus", status |-> s])
       \/ \E m \in Months : Begin(r, [step |-> "setMonth", month |-> m])

\* By id, and what was not sent is left as it is.
WritePatch(r) ==
    /\ \/ At(r, "setStatus") /\ run' = [run EXCEPT !.status = request[r].status]
       \/ At(r, "setMonth") /\ run' = [run EXCEPT !.month = request[r].month]
    /\ outside' = (outside \/ (At(r, "setStatus") /\ run'.status = "approved"))
    /\ End(r)
    /\ UNCHANGED <<employee, item, posted, locked, past>>

-----------------------------------------------------------------------------
(* Employees, locks and failures.                                            *)

\* PATCH employees/:id
UpdateEmployee(e, state, pay) ==
    /\ employee[e].state # "deleted" /\ Explored
    /\ employee' = [employee EXCEPT ![e] = [state |-> state, pay |-> pay]]
    /\ UNCHANGED <<run, item, posted, outside, locked, request, sealed, past>>

\* The items of an employee go with the row, approved or not.
DeleteEmployee(e) ==
    LET gone == {i \in Live : item[i].employee = e} IN
    /\ employee[e].state # "deleted" /\ Explored
    /\ employee' = [employee EXCEPT ![e].state = "deleted"]
    /\ DeleteItems(gone)
    /\ outside' = (outside \/ gone # {})
    /\ UNCHANGED <<run, posted, locked, request, sealed, past>>

LockPeriod(m) ==
    /\ locked' = locked \cup {m}
    /\ sealed' = IF \A r \in Requests : Idle(r) THEN locked' ELSE sealed
    /\ UNCHANGED <<books, request, past>>

UnlockPeriod(m) ==
    /\ locked' = locked \ {m}
    /\ sealed' = sealed \ {m}
    /\ UNCHANGED <<books, request, past>>

BetweenWrites == {"list", "insert", "approve", "pay", "resum", "retotal"}

\* A call fails, or the process ends; nothing that was written is taken back.
Die(r) ==
    /\ ~Idle(r)
    /\ past' = IF past = "clean" /\ request[r].step \in BetweenWrites THEN "torn" ELSE past
    /\ End(r)
    /\ UNCHANGED <<books, locked>>

-----------------------------------------------------------------------------
Calculating(r) ==
    \/ Calculate(r) \/ Preserve(r) \/ Clear(r) \/ ListEmployees(r) \/ WriteTotals(r)
    \/ At(r, "insert") /\ \E next \in request[r].left, i \in Items : InsertItem(r, next, i)

Approving(r) ==
    Approve(r) \/ PassLock(r) \/ SumItems(r) \/ Post(r) \/ SetApproved(r) \/ MarkPaid(r)

Editing(r) ==
    \/ \E i \in Items, x \in Extras : EditItem(r, i, x)
    \/ WriteItem(r) \/ SumAgain(r) \/ WriteSum(r)
    \/ Patches(r) \/ WritePatch(r)

Next ==
    \/ \E r \in Requests : Calculating(r) \/ Approving(r) \/ Editing(r) \/ Die(r)
    \/ \E e \in Employees :
          \/ \E state \in {"active", "inactive"}, pay \in Pays : UpdateEmployee(e, state, pay)
          \/ DeleteEmployee(e)
    \/ \E m \in Lockable : LockPeriod(m) \/ UnlockPeriod(m)

Spec == Init /\ [][Next]_vars

-----------------------------------------------------------------------------
(* Properties *)

\* The rows, the entries and every handler's local state have their types.
TypeOK ==
    /\ run \in Row
    /\ employee \in [Employees -> [state : {"active", "inactive", "deleted"}, pay : Pays]]
    /\ item \in [Items -> ItemRow]
    /\ posted \in Seq([month : Months, amount : Int])
    /\ locked \subseteq Months /\ sealed \subseteq locked
    /\ request \in [Requests -> LocalState]
    /\ past \in {"clean", "torn", "crossed"} /\ outside \in BOOLEAN

\* Nobody is paid twice in a month: unless two handlers were on the run at once, no
\* employee has two items, through recalculations around edited items, calculations
\* that died and employees that came back; and unless an approval died between its
\* entry and the status, there is one entry at most.
WagesPaidOnce ==
    /\ past # "crossed" => \A i, j \in Live : item[i].employee = item[j].employee => i = j
    /\ past = "clean" => Len(posted) <= 1

\* An approved run tells what was posted: its entry carries what its items add up to
\* and what its totals show, and every item is marked as paid.
ApprovedRunTies ==
    past = "clean" /\ ~outside /\ run.status = "approved" /\ (\A r \in Requests : Idle(r)) =>
        /\ Len(posted) = 1 /\ Live # {}
        /\ Last(posted).amount = Wages(Live) /\ run.total = Wages(Live)
        /\ \A i \in Live : item[i].state = "paid"

\* What was entered by hand stays, whatever calculates next to it: only another edit
\* of the item changes it, an approval marks it as paid, and it goes with its employee.
HandEditsSurvive ==
    [][\A i \in EditedItems : item'[i] # item[i] =>
          \/ \E r \in Requests : At(r, "write") /\ request[r].item = i /\ ~At(r, "write")'
          \/ item'[i] = [item[i] EXCEPT !.state = "paid"]
          \/ employee'[item[i].employee].state = "deleted"]_vars

\* From the first moment of rest after its lock a month takes no wages, whatever
\* is done to the month of the run.
ClosedMonthsTakeNoWages ==
    [][posted' # posted => Last(posted').month \notin sealed]_vars
=============================================================================
