--------------------------- MODULE RecurringInvoices ---------------------------
(***************************************************************************)
(* Recurring invoices: the templates users keep                            *)
(* (routes/recurring-invoices.routes.ts) and the scheduler's run over the  *)
(* templates that are due (services/scheduler.service.ts,                  *)
(* generateDueRecurringInvoices).                                          *)
(*                                                                         *)
(* A run takes one template after the other, each locked by                *)
(* SELECT ... FOR UPDATE SKIP LOCKED until its transaction ends.  Several  *)
(* runs may be in progress: every server has a scheduler, and a run may    *)
(* outlast the day.                                                        *)
(*                                                                         *)
(* The SELECT is raw SQL (storage.ts:4209-4229), and two things follow:    *)
(*   - its rows have the columns' names, so template.endDate and           *)
(*     template.linesJson are undefined, JSON.parse throws and every       *)
(*     template is switched off (scheduler.service.ts:545-555).  The code  *)
(*     from there on, which makes the invoice, moves next_run_date and     *)
(*     posts the sale, is never reached and has no action here;            *)
(*   - once a run has had a template, the list of those it has had is      *)
(*     expanded into ($1, ...)::uuid[], which PostgreSQL refuses, so no    *)
(*     later SELECT of the run succeeds.                                   *)
(***************************************************************************)
EXTENDS Naturals

CONSTANTS
    Templates,  \* recurring_invoices ids
    Runs,       \* runs of the scheduler that may be in progress at the same time
    Horizon     \* BOUND: the last day of the clock

VARIABLES
    template,  \* recurring_invoices
    today,     \* the clock
    run        \* the local state of every run

recurringVars == <<template, today, run>>

-----------------------------------------------------------------------------
Days == 0 .. Horizon

Row == [state : {"active", "inactive", "deleted"}, next : Days]

\* A run that has fetched is in the transaction of the template it has seen.
LocalState == [step : {"idle", "fetch", "fetched"}, seen : SUBSET Templates]

NoRun == [step |-> "idle", seen |-> {}]

\* POST recurring-invoices: active, first due on the start date.
RecurringInit ==
    /\ template \in [Templates -> [state : {"active"}, next : Days]]
    /\ today = 0
    /\ run = [r \in Runs |-> NoRun]

-----------------------------------------------------------------------------
InTransaction(r, t) == run[r].step = "fetched" /\ t \in run[r].seen

Locked(t) == \E r \in Runs : InTransaction(r, t)

Due(t) == template[t].state = "active" /\ template[t].next <= today

Tick(r) ==
    /\ run[r].step = "idle"
    /\ run' = [run EXCEPT ![r].step = "fetch"]
    /\ UNCHANGED <<template, today>>

\* What the first SELECT of a run may return: due, and locked by nobody.
Available == {t \in Templates : Due(t) /\ ~Locked(t)}

\* ORDER BY next_run_date LIMIT 1.
Fetch(r) ==
    /\ run[r].step = "fetch" /\ run[r].seen = {}
    /\ \E t \in Available :
          /\ \A u \in Available : template[t].next <= template[u].next
          /\ run' = [run EXCEPT ![r] = [step |-> "fetched", seen |-> {t}]]
    /\ UNCHANGED <<template, today>>

\* Nothing is due, or all of it is locked elsewhere: the run ends.
FetchNothing(r) ==
    /\ run[r].step = "fetch" /\ run[r].seen = {}
    /\ Available = {}
    /\ run' = [run EXCEPT ![r] = NoRun]
    /\ UNCHANGED <<template, today>>

\* The SELECT that excludes what the run has had is refused, the error is caught
\* and the loop tries again.
FetchFails(r) ==
    /\ run[r].step = "fetch" /\ run[r].seen # {}
    /\ UNCHANGED recurringVars

Disable(r) ==
    /\ run[r].step = "fetched"
    /\ template' = [t \in Templates |->
          IF t \in run[r].seen THEN [template[t] EXCEPT !.state = "inactive"] ELSE template[t]]
    /\ run' = [run EXCEPT ![r].step = "fetch"]
    /\ UNCHANGED today

\* A failure in the transaction undoes it, and the loop goes on.
Rollback(r) ==
    /\ run[r].step = "fetched"
    /\ run' = [run EXCEPT ![r].step = "fetch"]
    /\ UNCHANGED <<template, today>>

\* The server stops: the transaction is rolled back and `seen` is lost.
Die(r) ==
    /\ run[r].step # "idle"
    /\ run' = [run EXCEPT ![r] = NoRun]
    /\ UNCHANGED <<template, today>>

-----------------------------------------------------------------------------
(* Users.  An UPDATE or DELETE waits for the lock of the row.  The end date  *)
(* and the lines may be edited too, but no run reads them.                   *)

Writes(t, row) ==
    /\ template[t].state # "deleted" /\ ~Locked(t)
    /\ template' = [template EXCEPT ![t] = row]
    /\ UNCHANGED <<today, run>>

EditNext(t, next) == Writes(t, [template[t] EXCEPT !.next = next])

\* PATCH .../toggle writes the opposite of what it read a moment before, which
\* may no longer be what is there.
Toggle(t, state) == Writes(t, [template[t] EXCEPT !.state = state])

Delete(t) == Writes(t, [template[t] EXCEPT !.state = "deleted"])

NextDay ==
    /\ today < Horizon
    /\ today' = today + 1
    /\ UNCHANGED <<template, run>>

-----------------------------------------------------------------------------
RunStep(r) ==
    \/ Tick(r) \/ Fetch(r) \/ FetchNothing(r) \/ FetchFails(r) \/ Disable(r) \/ Rollback(r)

User(t) ==
    \/ \E next \in Days : EditNext(t, next)
    \/ \E state \in {"active", "inactive"} : Toggle(t, state)
    \/ Delete(t)

RecurringNext ==
    \/ \E r \in Runs : RunStep(r) \/ Die(r)
    \/ \E t \in Templates : User(t)
    \/ NextDay

RecurringSpec == RecurringInit /\ [][RecurringNext]_recurringVars

\* The scheduler runs every day, a run goes on by itself, and the servers come to
\* stay up.
Fairness ==
    /\ \A r \in Runs : WF_recurringVars(RunStep(r))
    /\ <>[][\A r \in Runs : ~Die(r)]_recurringVars

FairSpec == RecurringSpec /\ Fairness

-----------------------------------------------------------------------------
(* Properties *)

\* Templates, clock and runs have their types.
RecurringTypeOK ==
    /\ template \in [Templates -> Row]
    /\ today \in Nat
    /\ run \in [Runs -> LocalState]

\* "With SKIP LOCKED, only one runner ever processes a template at a time"
\* (scheduler.service.ts:487): no two runs are in the transaction of one template.
OneRunPerTemplate ==
    \A r, q \in Runs, t \in Templates : InTransaction(r, t) /\ InTransaction(q, t) => r = q

\* A run takes one template and no more (scheduler.service.ts:516-524, storage.ts:4223).
OneTemplatePerRun == \A r \in Runs : \A t, u \in run[r].seen : t = u

\* "`seen` prevents infinite loops ... Once a template id is in `seen`, we exit the
\* loop" (scheduler.service.ts:491-494): every run comes to its end.
RunsEnd == \A r \in Runs : run[r].step # "idle" ~> run[r].step = "idle"
=============================================================================
