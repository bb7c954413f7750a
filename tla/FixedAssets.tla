---------------------------- MODULE FixedAssets ----------------------------
(***************************************************************************)
(* The fixed-asset register of one company (routes/fixed-assets.routes.ts): *)
(* depreciation of one asset, of all assets in one transaction, disposal    *)
(* with the depreciation still missing, and the edits of an asset, under    *)
(* the month-end period locks, the locks of the database and the pool.      *)
(*                                                                         *)
(* The depreciation of one asset commits call by call and takes its slot    *)
(* back when a later call fails.  The batch and the disposal are one        *)
(* transaction each, on a connection they keep; their rows are in `drafts`  *)
(* until they commit.  A disposal holds the row of its asset (FOR UPDATE);  *)
(* a batch holds the entry numbers of its month and, from their schedule    *)
(* rows on, its assets.                                                     *)
(*                                                                         *)
(* Straight-line depreciation; every asset was bought in the middle of      *)
(* month 1, and disposals are dated the first of their month, as the        *)
(* depreciation entries are.  Amounts are whole fils.                       *)
(***************************************************************************)
EXTENDS Integers, FiniteSetsExt, Functions, SequencesExt

CONSTANTS
    Assets,
    Requests,      \* handlers that may be in progress at the same time
    LastMonth,     \* months are 1 .. LastMonth
    Depreciable,   \* cost less salvage value
    Lives,         \* useful lives, in years, an asset may have
    YearLength,    \* BOUND: the months of a year (12 in the code)
    PoolSize,      \* connections of the pool (DB_POOL_MAX)
    Lockable,      \* BOUND: the months that are locked
    Continued      \* BOUND: whether handlers begin on assets few properties are left of

ASSUME FixedAssetsAssumption ==
    /\ LastMonth \in Nat \ {0} /\ Depreciable \in Nat /\ PoolSize \in Nat /\ YearLength \in Nat
    /\ Assets # {} /\ Lives # {} /\ IsFiniteSet(Lives) /\ Lives \subseteq Nat
    /\ Lockable \subseteq 1..LastMonth /\ Continued \in BOOLEAN

Months == 1..LastMonth

VARIABLES
    asset,     \* fixed_assets
    schedule,  \* depreciation_schedules: the amount of every asset and month, 0 without a row
    ledger,    \* the depreciation posted for every asset and month
    cleared,   \* the disposal entries of every asset, with what they cleared
    locked,    \* the months month_end_close has locked
    request    \* the local state of every handler

\* No variables of the code, and read by no action but where a bound says so.
VARIABLES
    sealed,    \* the months locked ever since a moment of rest
    crossed,   \* assets two handlers have worked on at once, the later one without
               \* waiting for the earlier one
    torn,      \* assets a handler has left between two calls that belong together
    patched    \* assets whose status was set by hand

vars == <<asset, schedule, ledger, cleared, locked, request, sealed, crossed, torn, patched>>

-----------------------------------------------------------------------------
Row == [status : {"active", "disposed", "deleted"}, life : Lives, acc : 0..Depreciable]

Amounts == [Months -> Nat]

Nothing == [m \in Months |-> 0]

Kinds == {"single", "batch", "dispose", "life", "status"}

\* check, find, claim, post, set, undo: one asset; connect, lockDate, pick, claim,
\* set: the batch; connect, lockRow, catchUp, book, dispose: a disposal;
\* count, write: an edit.
Steps == {"idle", "check", "find", "claim", "post", "set", "undo", "connect", "lockDate",
          "pick", "lockRow", "catchUp", "book", "dispose", "count", "write"}

\* rows is what was read of the assets, assets and months what is left to do.
LocalState == [kind : Kinds, step : Steps, asset : Assets, month : Months,
               rows : [Assets -> Row], assets : SUBSET Assets, months : SUBSET Months,
               amount : Nat, drafts : [Assets -> Amounts]]

New == [status |-> "active", life |-> Max(Lives), acc |-> 0]

Unread == [a \in Assets |-> New]

Local(kind, step, a, m, rows) ==
    [kind |-> kind, step |-> step, asset |-> a, month |-> m, rows |-> rows,
     assets |-> {}, months |-> {}, amount |-> 0, drafts |-> [b \in Assets |-> Nothing]]

Resting == Local("single", "idle", CHOOSE a \in Assets : TRUE, 1, Unread)

Init ==
    /\ asset = Unread
    /\ schedule = [a \in Assets |-> Nothing] /\ ledger = schedule
    /\ cleared = [a \in Assets |-> <<>>]
    /\ locked = {} /\ sealed = {} /\ crossed = {} /\ torn = {} /\ patched = {}
    /\ request = [r \in Requests |-> Resting]

-----------------------------------------------------------------------------
(* calculateDepreciation: what is left over what is left of the life; half   *)
(* of it in the month of purchase; rounded half up.                          *)

\* Mutant: the whole amount over the whole life, with no cap.
Charge_flat(row, m, n) ==
    LET parts == row.life * YearLength * (IF m = 1 THEN 2 ELSE 1)
    IN  (2 * Depreciable + parts) \div (2 * parts)

\* n months before m have been booked.
Charge(row, m, n) ==
    LET remaining == Depreciable - row.acc
        parts == Max({1, row.life * YearLength - n}) * (IF m = 1 THEN 2 ELSE 1)
    IN  (2 * remaining + parts) \div (2 * parts)

BookedBefore(r, a, m) ==
    Cardinality({k \in 1..(m - 1) : schedule[a][k] # 0 \/ request[r].drafts[a][k] # 0})

-----------------------------------------------------------------------------
(* Connections and locks.                                                    *)

Idle(r) == request[r].step = "idle"

InTransaction(r) ==
    /\ request[r].kind \in {"batch", "dispose"}
    /\ request[r].step \notin {"idle", "check", "connect"}

FreeConnection == Cardinality({r \in Requests : InTransaction(r)}) < PoolSize

\* A disposal holds its asset FOR UPDATE; a batch holds an asset FOR KEY SHARE
\* from its schedule row on, which refers to it, and as updated from then on.
ForUpdate(q, a) == request[q].step \in {"catchUp", "book", "dispose"} /\ request[q].asset = a

Claims(q, a) == request[q].kind = "batch" /\ request[q].drafts[a] # Nothing

Updates(q, a) == Claims(q, a) /\ (request[q].step = "set" => request[q].asset # a)

HoldsDate(q, m) ==
    \/ request[q].kind = "batch" /\ request[q].step \in {"pick", "claim", "set"} /\ request[q].month = m
    \/ request[q].kind = "dispose" /\ request[q].drafts[request[q].asset][m] # 0

\* The next call of r gets its connection and its lock at once.  In a
\* transaction only the period check needs another connection.
Ready(r) ==
    LET a == request[r].asset
        step == request[r].step
        others == Requests \ {r}
        DateFree(m) == \A q \in others : ~HoldsDate(q, m)
    IN  /\ ~InTransaction(r) \/ step = "catchUp" => FreeConnection
        /\ step = "claim" => \A q \in others :
              ~ForUpdate(q, a) /\ request[q].drafts[a][request[r].month] = 0
        /\ step \in {"set", "write"} => \A q \in others : ~ForUpdate(q, a) /\ ~Updates(q, a)
        /\ step = "lockRow" => \A q \in others : ~ForUpdate(q, a) /\ ~Claims(q, a)
        /\ step \in {"post", "lockDate", "dispose"} => DateFree(request[r].month)
        /\ step = "book" => DateFree(Min(request[r].months))

At(r, step) == request[r].step = step /\ Ready(r)

Is(r, kind) == request[r].kind = kind

Set(r, local) == request' = [request EXCEPT ![r] = local]

Goto(r, step) == request' = [request EXCEPT ![r].step = step]

End(r) ==
    /\ Set(r, Resting)
    /\ sealed' = IF \A q \in Requests \ {r} : Idle(q) THEN locked ELSE sealed

\* r works on a with what it has read of it.
WorksOn(r, a) ==
    \/ Is(r, "single") /\ ~Idle(r) /\ request[r].asset = a
    \/ Is(r, "batch") /\ request[r].step \in {"pick", "claim", "set"} /\ request[r].rows[a].status = "active"
    \/ ForUpdate(r, a)

Meets(r, arrived) ==
    crossed' = crossed \cup {a \in arrived : \E q \in Requests \ {r} : WorksOn(q, a)}

\* BOUND unless Continued: nothing more begins on an asset that is crossed, torn or
\* patched.
Explored(a) == Continued \/ a \notin crossed \cup torn \cup patched

books == <<asset, schedule, ledger, cleared, patched>>

-----------------------------------------------------------------------------
(* The period check, which every handler passes for the month of its entry   *)
(* (an edit: the month of purchase).                                         *)

After(kind) ==
    CASE kind = "single" -> "find" [] kind = "life" -> "count" [] kind = "status" -> "write"
      [] OTHER -> "connect"

PassLock(r) ==
    /\ At(r, "check")
    /\ \/ request[r].month \notin locked /\ Goto(r, After(request[r].kind)) /\ UNCHANGED sealed
       \/ request[r].month \in locked /\ End(r)
    /\ UNCHANGED <<books, locked, crossed, torn>>

LockPeriod(m) ==
    /\ locked' = locked \cup {m}
    /\ sealed' = IF \A r \in Requests : Idle(r) THEN locked' ELSE sealed
    /\ UNCHANGED <<books, request, crossed, torn>>

UnlockPeriod(m) ==
    /\ locked' = locked \ {m}
    /\ sealed' = sealed \ {m}
    /\ UNCHANGED <<books, request, crossed, torn>>

-----------------------------------------------------------------------------
(* POST fixed-assets/:id/depreciate                                          *)

Depreciate(r, a, m) ==
    /\ Idle(r) /\ FreeConnection /\ Explored(a)
    /\ asset[a].status = "active"
    /\ Set(r, Local("single", "check", a, m, [Unread EXCEPT ![a] = asset[a]]))
    /\ Meets(r, {a})
    /\ UNCHANGED <<books, locked, sealed, torn>>

\* The search for the slot and the count of the months before it.
Find(r) ==
    LET a == request[r].asset  m == request[r].month
        amount == Charge(request[r].rows[a], m, BookedBefore(r, a, m))
        due == schedule[a][m] = 0 /\ amount > 0
    IN  /\ At(r, "find")
        /\ \/ due /\ Set(r, [request[r] EXCEPT !.step = "claim", !.amount = amount]) /\ UNCHANGED sealed
           \/ ~due /\ End(r)
        /\ UNCHANGED <<books, locked, crossed, torn>>

\* The slot is taken, or its asset has gone.
Lost(r) ==
    LET a == request[r].asset IN
    schedule[a][request[r].month] # 0 \/ asset[a].status = "deleted"

\* Mutant: the slot is claimed on the word of the search.
Claim_found(r) ==
    LET a == request[r].asset IN
    /\ At(r, "claim") /\ Is(r, "single")
    /\ \/ /\ asset[a].status # "deleted"
          /\ schedule' = [schedule EXCEPT ![a][request[r].month] = request[r].amount]
          /\ Goto(r, "post") /\ UNCHANGED sealed
       \/ asset[a].status = "deleted" /\ End(r) /\ UNCHANGED schedule
    /\ UNCHANGED <<asset, ledger, cleared, patched, locked, crossed, torn>>

Claim(r) ==
    LET a == request[r].asset IN
    /\ At(r, "claim") /\ Is(r, "single")
    /\ \/ /\ ~Lost(r)
          /\ schedule' = [schedule EXCEPT ![a][request[r].month] = request[r].amount]
          /\ Goto(r, "post") /\ UNCHANGED sealed
       \/ Lost(r) /\ End(r) /\ UNCHANGED schedule
    /\ UNCHANGED <<asset, ledger, cleared, patched, locked, crossed, torn>>

Post(r) ==
    /\ At(r, "post")
    /\ ledger' = [ledger EXCEPT ![request[r].asset][request[r].month] = @ + request[r].amount]
    /\ Goto(r, "set")
    /\ UNCHANGED <<asset, schedule, cleared, patched, locked, sealed, crossed, torn>>

\* The accumulated depreciation is written as it follows from the row read first.
SetAsset(r) ==
    LET a == request[r].asset IN
    /\ At(r, "set") /\ Is(r, "single")
    /\ asset' = IF asset[a].status = "deleted" THEN asset
                ELSE [asset EXCEPT ![a].acc = request[r].rows[a].acc + request[r].amount]
    /\ End(r)
    /\ UNCHANGED <<schedule, ledger, cleared, patched, locked, crossed, torn>>

\* The catch block deletes the claim, whatever came after it.
Undo(r) ==
    /\ At(r, "undo")
    /\ schedule' = [schedule EXCEPT ![request[r].asset][request[r].month] = 0]
    /\ End(r)
    /\ UNCHANGED <<asset, ledger, cleared, patched, locked, crossed, torn>>

-----------------------------------------------------------------------------
(* POST run-depreciation                                                     *)

\* BOUND: only while there is an asset for it.
RunBatch(r, m) ==
    /\ Idle(r) /\ FreeConnection
    /\ \E a \in Assets : asset[a].status = "active" /\ Explored(a)
    /\ Set(r, Local("batch", "check", Resting.asset, m, Unread))
    /\ UNCHANGED <<books, locked, sealed, crossed, torn>>

\* pool.connect and BEGIN, of a batch or a disposal.
Connect(r) ==
    /\ At(r, "connect")
    /\ Goto(r, IF Is(r, "batch") THEN "lockDate" ELSE "lockRow")
    /\ UNCHANGED <<books, locked, sealed, crossed, torn>>

\* The lock on the month's entry numbers, and the active assets read under it.
LockDate(r) ==
    LET active == {a \in Assets : asset[a].status = "active" /\ Explored(a)} IN
    /\ At(r, "lockDate")
    /\ Set(r, [request[r] EXCEPT !.step = "pick", !.assets = active,
                  !.rows = [a \in Assets |-> IF a \in active THEN asset[a]
                                             ELSE [New EXCEPT !.status = "deleted"]]])
    /\ Meets(r, active)
    /\ UNCHANGED <<books, locked, sealed, torn>>

\* Booked already, or nothing left: the asset is skipped.
Pick(r, a) ==
    LET m == request[r].month
        amount == Charge(request[r].rows[a], m, BookedBefore(r, a, m))
        due == schedule[a][m] = 0 /\ amount > 0
    IN  /\ At(r, "pick") /\ a \in request[r].assets
        /\ Set(r, IF due THEN [request[r] EXCEPT !.step = "claim", !.asset = a, !.amount = amount]
                  ELSE [request[r] EXCEPT !.assets = @ \ {a}])
        /\ UNCHANGED <<books, locked, sealed, crossed, torn>>

\* A slot taken in between ends the whole batch; else claim and entry are written.
BatchClaim(r) ==
    LET a == request[r].asset IN
    /\ At(r, "claim") /\ Is(r, "batch")
    /\ \/ /\ ~Lost(r)
          /\ Set(r, [request[r] EXCEPT !.step = "set", !.drafts[a][request[r].month] = request[r].amount])
          /\ UNCHANGED sealed
       \/ Lost(r) /\ End(r)
    /\ UNCHANGED <<books, locked, crossed, torn>>

BatchSet(r) ==
    /\ At(r, "set") /\ Is(r, "batch")
    /\ Set(r, [request[r] EXCEPT !.step = "pick", !.assets = @ \ {request[r].asset}])
    /\ UNCHANGED <<books, locked, sealed, crossed, torn>>

\* Schedules and entries of a transaction come into the tables together.
Publish(drafts) ==
    LET Add(amounts) == [a \in Assets |-> [m \in Months |-> amounts[a][m] + drafts[a][m]]] IN
    /\ schedule' = Add(schedule)
    /\ ledger' = Add(ledger)

CommitBatch(r) ==
    LET drafts == request[r].drafts IN
    /\ At(r, "pick") /\ request[r].assets = {}
    /\ Publish(drafts)
    /\ asset' = [a \in Assets |-> IF drafts[a] = Nothing THEN asset[a] ELSE
                    [asset[a] EXCEPT !.acc = request[r].rows[a].acc + drafts[a][request[r].month]]]
    /\ End(r)
    /\ UNCHANGED <<cleared, patched, locked, crossed, torn>>

-----------------------------------------------------------------------------
(* POST fixed-assets/:id/dispose                                             *)

BeginDispose(r, a, d) ==
    /\ Idle(r) /\ FreeConnection /\ Explored(a)
    /\ asset[a].status = "active"
    /\ d > 1
    /\ Set(r, Local("dispose", "check", a, d, Unread))
    /\ UNCHANGED <<books, locked, sealed, crossed, torn>>

NextMonth(months) == IF months = {} THEN "dispose" ELSE "catchUp"

\* Mutant: the status is not read again under the lock.
LockRow_unchecked(r) ==
    LET a == request[r].asset
        months == {m \in 1..(request[r].month - 1) : schedule[a][m] = 0}
    IN  /\ At(r, "lockRow")
        /\ Set(r, [request[r] EXCEPT !.step = NextMonth(months), !.months = months,
                                     !.rows[a] = asset[a]])
        /\ Meets(r, {a}) /\ UNCHANGED <<books, locked, sealed, torn>>

\* FOR UPDATE: the row and the schedules are read under the lock.
LockRow(r) ==
    LET a == request[r].asset
        months == {m \in 1..(request[r].month - 1) : schedule[a][m] = 0}
    IN  /\ At(r, "lockRow")
        /\ \/ /\ asset[a].status = "active"
              /\ Set(r, [request[r] EXCEPT !.step = NextMonth(months), !.months = months,
                                           !.rows[a] = asset[a]])
              /\ Meets(r, {a}) /\ UNCHANGED sealed
           \/ asset[a].status # "active" /\ End(r) /\ UNCHANGED crossed
        /\ UNCHANGED <<books, locked, torn>>

\* A month left out, once it is checked: its lock ends the disposal; else it is
\* booked, unless nothing is left to depreciate.
MonthChecked(r, m, open) ==
    LET a == request[r].asset
        amount == Charge(request[r].rows[a], m, BookedBefore(r, a, m))
        months == request[r].months \ {m}
    IN  \/ open /\ amount > 0 /\ UNCHANGED sealed
           /\ Set(r, [request[r] EXCEPT !.step = "book", !.amount = amount])
        \/ open /\ amount = 0 /\ UNCHANGED sealed
           /\ Set(r, [request[r] EXCEPT !.step = NextMonth(months), !.months = months])
        \/ ~open /\ End(r)

\* Mutant: only the month of the disposal is checked.
CatchUp_unlocked(r) ==
    /\ At(r, "catchUp")
    /\ MonthChecked(r, Min(request[r].months), TRUE)
    /\ UNCHANGED <<books, locked, crossed, torn>>

CatchUp(r) ==
    LET m == Min(request[r].months) IN
    /\ At(r, "catchUp")
    /\ MonthChecked(r, m, m \notin locked)
    /\ UNCHANGED <<books, locked, crossed, torn>>

Book(r) ==
    LET a == request[r].asset
        m == Min(request[r].months)
        months == request[r].months \ {m}
    IN  /\ At(r, "book")
        /\ Set(r, [request[r] EXCEPT !.step = NextMonth(months), !.months = months,
                      !.drafts[a][m] = request[r].amount,
                      !.rows[a].acc = @ + request[r].amount])
        /\ UNCHANGED <<books, locked, sealed, crossed, torn>>

\* The disposal entry takes the accumulated depreciation out; COMMIT.
Dispose(r) ==
    LET a == request[r].asset  acc == request[r].rows[a].acc IN
    /\ At(r, "dispose")
    /\ Publish(request[r].drafts)
    /\ asset' = [asset EXCEPT ![a].acc = acc, ![a].status = "disposed"]
    /\ cleared' = [cleared EXCEPT ![a] = Append(@, [month |-> request[r].month, amount |-> acc])]
    /\ End(r)
    /\ UNCHANGED <<patched, locked, crossed, torn>>

-----------------------------------------------------------------------------
(* PATCH and DELETE fixed-assets/:id                                         *)

Edit(r, a, kind, row) ==
    /\ Idle(r) /\ FreeConnection /\ Explored(a)
    /\ asset[a].status # "deleted"
    /\ Set(r, Local(kind, "check", a, 1, [Unread EXCEPT ![a] = row]))
    /\ UNCHANGED <<books, locked, sealed, crossed, torn>>

\* The months booked have to fit into the new life.
Count(r) ==
    LET a == request[r].asset
        fits == Cardinality({m \in Months : schedule[a][m] # 0}) < request[r].rows[a].life * YearLength
    IN  /\ At(r, "count")
        /\ \/ fits /\ Goto(r, "write") /\ UNCHANGED sealed
           \/ ~fits /\ End(r)
        /\ UNCHANGED <<books, locked, crossed, torn>>

\* Only what was sent is written; any status is.
WriteEdit(r) ==
    LET a == request[r].asset  row == request[r].rows[a] IN
    /\ At(r, "write")
    /\ asset' = IF asset[a].status = "deleted" THEN asset
                ELSE IF Is(r, "life") THEN [asset EXCEPT ![a].life = row.life]
                ELSE [asset EXCEPT ![a].status = row.status]
    /\ patched' = IF Is(r, "status") THEN patched \cup {a} ELSE patched
    /\ End(r)
    /\ UNCHANGED <<schedule, ledger, cleared, locked, crossed, torn>>

Edits(r, a) ==
    \/ \E life \in Lives \ {asset[a].life} : Edit(r, a, "life", [New EXCEPT !.life = life])
    \/ \E status \in {"active", "disposed"} : Edit(r, a, "status", [New EXCEPT !.status = status])

\* The schedules go with the asset (ON DELETE CASCADE), the entries stay.
Delete(a) ==
    /\ FreeConnection /\ \A r \in Requests : ~ForUpdate(r, a) /\ ~Claims(r, a)
    /\ asset' = [asset EXCEPT ![a].status = "deleted"]
    /\ schedule' = [schedule EXCEPT ![a] = Nothing]
    /\ UNCHANGED <<ledger, cleared, patched, locked, request, sealed, crossed, torn>>

-----------------------------------------------------------------------------
(* Failures.                                                                 *)

Claimed(r) == Is(r, "single") /\ request[r].step \in {"post", "set", "undo"}

\* A call fails: transactions are rolled back, a claim is to be taken back.
Fail(r) ==
    LET step == request[r].step IN
    /\ ~Idle(r)
    /\ \/ Claimed(r) /\ step # "undo" /\ Goto(r, "undo") /\ UNCHANGED sealed
       \/ (Claimed(r) => step = "undo") /\ End(r)
    /\ torn' = IF Claimed(r) /\ step # "post" THEN torn \cup {request[r].asset} ELSE torn
    /\ UNCHANGED <<books, locked, crossed>>

\* The process of the handler dies.
Die(r) ==
    /\ ~Idle(r)
    /\ End(r)
    /\ torn' = IF Claimed(r) THEN torn \cup {request[r].asset} ELSE torn
    /\ UNCHANGED <<books, locked, crossed>>

Timeout_never(r) == FALSE

\* Who waits is not waiting for ever: connectionTimeoutMillis, statement_timeout,
\* and the database, which breaks a circle of its own locks.
Timeout(r) == ~Ready(r) /\ Fail(r)

-----------------------------------------------------------------------------
Begin(r) ==
    \/ \E a \in Assets, m \in Months : Depreciate(r, a, m) \/ BeginDispose(r, a, m)
    \/ \E m \in Months : RunBatch(r, m)
    \/ \E a \in Assets : Edits(r, a)

Step(r) ==
    \/ PassLock(r) \/ Find(r) \/ Claim(r) \/ Post(r) \/ SetAsset(r) \/ Undo(r)
    \/ Connect(r) \/ LockDate(r) \/ BatchClaim(r) \/ BatchSet(r) \/ CommitBatch(r)
    \/ (\E a \in Assets : Pick(r, a))
    \/ LockRow(r) \/ CatchUp(r) \/ Book(r) \/ Dispose(r)
    \/ Count(r) \/ WriteEdit(r) \/ Timeout(r)

Next ==
    \/ \E r \in Requests : Begin(r) \/ Step(r) \/ Fail(r) \/ Die(r)
    \/ \E a \in Assets : Delete(a)
    \/ \E m \in Lockable : LockPeriod(m) \/ UnlockPeriod(m)

Spec == Init /\ [][Next]_vars

\* The server keeps serving every handler, and its timeouts fire.
FairSpec == Spec /\ \A r \in Requests : WF_vars(Step(r))

-----------------------------------------------------------------------------
\* Rows, schedules, entries and every handler's local state have their types.
TypeOK ==
    /\ asset \in [Assets -> Row]
    /\ schedule \in [Assets -> Amounts] /\ ledger \in [Assets -> Amounts]
    /\ cleared \in [Assets -> Seq([month : Months, amount : 0..Depreciable])]
    /\ locked \subseteq Months /\ sealed \subseteq locked
    /\ crossed \cup torn \cup patched \subseteq Assets
    /\ request \in [Requests -> LocalState]

\* The ledger ties to the schedules (fixed-assets.routes.ts:919): every month of an
\* asset is posted as often and as high as it is scheduled, whatever handlers
\* interleave, unless one of them was left between two calls.
LedgerTiesToSchedules ==
    \A a \in Assets \ torn, m \in Months :
        \/ asset[a].status = "deleted"
        \/ ledger[a][m] = schedule[a][m]
        \/ \E r \in Requests : /\ Is(r, "single") /\ request[r].step \in {"post", "undo"}
                               /\ request[r].asset = a /\ request[r].month = m

\* While handlers wait for each other, an asset carries what was scheduled for it,
\* and its disposal clears exactly that, once.
AssetTiesToSchedules ==
    \A a \in Assets \ (crossed \cup torn \cup patched) :
        \/ asset[a].status = "deleted"
        \/ \E r \in Requests : Claimed(r) /\ request[r].asset = a
        \/ /\ asset[a].acc = FoldFunction(+, 0, schedule[a])
           /\ IF asset[a].status = "active" THEN cleared[a] = <<>>
              ELSE Len(cleared[a]) = 1 /\ cleared[a][1].amount = asset[a].acc

\* From the first moment of rest after its lock no month takes depreciation or a
\* disposal, the months a disposal catches up on included.
ClosedMonthsTakeNoDepreciation ==
    [][\A m \in sealed, a \in Assets :
          /\ ledger'[a][m] = ledger[a][m]
          /\ cleared'[a] # cleared[a] => Last(cleared'[a]).month # m]_vars

\* Disposals that hold a connection each and wait for another one, and handlers that
\* hold a row and wait for a date, all end.
EveryHandlerEnds == \A r \in Requests : ~Idle(r) ~> Idle(r)
=============================================================================
