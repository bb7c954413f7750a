# Formal models of the NR-Ai accounting server

NR-Ai is a bookkeeping system for companies in the UAE: an Express server over
PostgreSQL (`server/`, `shared/`) and a React client (`client/`). Its hard part
is not any one request but what several of them do to the same invoice, bill,
asset, number or month. This directory holds TLA+ models of that core, TLC
configurations that check them on small instances, and proofs for every size.

Contents: [the system](#1-the-system) · [modules](#2-modules-and-the-code) ·
[runs](#3-what-the-runs-check-and-show) · [fairness](#4-fairness) ·
[proofs](#5-what-is-proved) · [disagreements](#6-where-code-and-words-disagree) ·
[not modelled](#7-what-is-not-modelled-and-why) · [plan](#8-plan)

## 1. The system

### How a request runs

Node runs one handler at a time up to its next `await`. Nearly every `await` is
a database call, and between two of them any other handler, scheduler job or
second server process may run any of its own. Three things bound the
interleaving: a PostgreSQL transaction with a row lock (`SELECT .. FOR UPDATE`,
or an upsert of the row), an advisory lock, and a conditional
`UPDATE .. WHERE status = ..`. Everything else is read-then-write. So in all the
modules **an action is one database call (or one transaction under its lock)
together with the code up to the next call**, and what a handler has read is kept
in its local record and used later, stale or not.

A handler may fail at any call. What was committed before stays; the process may
also die between two calls.

### Parts, state, operations, what makes them correct

| Part (code) | State | Operations | Correct when |
|---|---|---|---|
| Document numbering (`invoice-numbering.service.ts`) | `invoice_number_sequences`, one counter per company, type and year | allocate, in the caller's transaction or alone; renumber by PUT | no number given twice; every gap explained |
| Invoice state machine (`invoice-state-machine.ts`) | none: a table | `canTransition`, `isTerminal`, `statusFromPayments` | terminal states are final |
| Invoice lifecycle (`invoices.routes.ts`, `invoice-posting.service.ts`) | invoice row, its entries | create, edit, status, pay, post and repair, delete | books agree with documents; revenue once, reversed once |
| Payments (`storage.ts` `recordInvoicePayment`) | payment rows, cash entries | record | sum of payments ≤ total; the ledger carries each once |
| General journal (`journal.routes.ts`, `storage.ts`) | entries and lines | create, edit, post, reverse, delete | balanced; posted is immutable; reversals mirror |
| Entry numbering and pool (`storage.ts`, `db.ts`) | numbers per day, advisory locks, connections | number, insert, retry | unique numbers; every call ends |
| Period locks (`period-lock.service.ts`, `month-end.service.ts`) | `month_end_close` | lock, unlock, assert | nothing changes in a locked month |
| Retention (`retention.service.ts`) | dates | guard deletion | only records past five years go |
| Bills (`bill-pay.routes.ts`, `bill-posting.service.ts`) | bill, its line, payment rows, entries | create, edit, delete, approve, pay, backfill | recorded = paid = posted; payable once |
| Recurring invoices (`scheduler.service.ts`, `recurring-invoices.routes.ts`) | templates | claim due ones, disable; edit, pause | one run per template; every run ends |
| Month-end close (`month-end.service.ts`, `month-end.routes.ts`) | entries, locks | generate closing entries | a day closed once; accounts emptied |
| AI ledger suggestions and bank lines (`autonomous-gl.service.ts`, `bank-statements.routes.ts`) | queue, drafts, lines | scan, draft, accept, correct, reject; book, match, unmatch | one decision, one entry |
| Payment chasing (`chasing.routes.ts`, `payment-chasing.service.ts`) | slot on the invoice, chases | send, bulk send, stamp payments | spaced; levels climb |
| Fixed assets (`fixed-assets.routes.ts`) | assets, schedules, entries | depreciate one or all, dispose, edit | ledger = schedules = asset |
| Payroll (`payroll.routes.ts`) | run, items, employees, entries | calculate, edit, approve | one item each; one entry; hand edits stay |
| Quotes, credit notes | documents | convert; issue, apply | once each |
| Receipts and autopilot | receipts | extract, match, post | one document per receipt |
| Sessions | tokens | rotate, revoke | a revoked token stays so |
| VAT, corporate tax, reports, firms, inventory, budgets, backups, AI/OCR/e-mail, client | derived or external | mostly reads | — |

The parts meet in four places. Every document that reaches the books goes
through `createJournalEntry` (and so through entry numbering); every write of a
dated entry is meant to pass `assertPeriodNotLocked` first; invoices, bills,
payroll, assets, the AI and the journal's own routes all write
`journal_entries`; and chasing reads and stamps what invoice payments settle.

### What is hard

* **Read, then write by id.** `updateInvoiceStatus`, `updateJournalEntryWithLines`,
  a PATCH of a bill or an asset, and the totals of a payroll run write whatever
  the row has become since it was read.
* **Look, then insert.** Revenue, reversals, approvals, closings, depreciation and
  matches look for what is already there and insert in a later call.
* **Locks that are only asked.** The period lock is read, not held: it may be set
  between the answer and the write.
* **Several commits for one deed.** Revenue before status, number before invoice,
  payment row before its entry, claim before depreciation, items before totals: a
  failure in between leaves half, and compensation may fail too.
* **Locks over a pool.** A session lock and its unlock may run on different
  connections; a transaction may wait for a second connection of its own pool.
* **Work lists that age.** Bulk chases, batches, backfills and scans work through
  what they read at their start.
* **Bodies that go into rows.** POST and PUT of an invoice, and POST of a journal entry,
  spread the rest of the body into the row: a status, a number, a reversed entry
  come past the rules that other routes keep.
* **Amounts.** Rounding to fils line by line; foreign currency against AED;
  reverse charge.

`PROJECT.json` lists each as a hazard at the line where it bites.

## 2. Modules and the code

| Module | Models | Built on |
|---|---|---|
| `InvoiceNumbering` | allocator, transactional creators, quote conversion, deletion, renumbering | — |
| `InvoiceStateMachine` | the transition table as operators | — |
| `RevenueRecognition` | abstract: revenue recognised at most once, taken back at most once in full | — |
| `InvoiceLifecycle` | an invoice with its entries, payments and month locks, and every handler on it | extends `InvoiceStateMachine`, implements `RevenueRecognition` |
| `EntryNumbering` | journal-entry numbers, advisory locks, connection pool | — |
| `JournalEntries` | journal routes, AI drafts, month locks | — |
| `BillPayments` | bills, payments, their compensation and the backfill | — |
| `RecurringInvoices` | the scheduler's runs over due templates, next to their users | — |
| `MonthEndClose` | closing entries beside the journal and the locks | — |
| `SuggestionQueue` | bank lines, the AI's queue and drafts, reviews, work by hand | — |
| `PaymentChasing` | the chase slot of an invoice, single and bulk sends, what writes its status | — |
| `FixedAssets` | depreciation, disposal, edits; transactions on a pool | — |
| `PayrollRuns` | a payroll run, its items, its employees and its entry | — |
| `MC*` | instances for TLC (definitions, symmetry, constraints) | the module they name |
| `Receivables_proofs` | theorems about `InvoiceNumbering`, `RecurringInvoices` and `PaymentChasing` | the three, `TLAPS` |
| `GeneralLedger_proofs` | theorems about `EntryNumbering`, `SuggestionQueue` and `MonthEndClose` | the three, `SumTheorems`, `TLAPS` |
| `SumTheorems` | sums of a function over a finite set | `TLAPS` |
| other `*_proofs` | theorems and proofs | the module they name, `TLAPS` |

So that one proof module can extend three components, some of them name their parts
after themselves: `NumberingInit`, `NumberingNext` and `NumberingSpec` where the other
modules say `Init`, `Next` and `Spec`, and likewise `Recurring..`, `Entry..` and
`Close..`.

Operators whose name ends in `_something` after another operator's name are
*mutants*: the same action or helper with a plausible bug. They occur in no
`Next`; putting one in the place of its original must break the property
`PROJECT.json` names for it, which shows that the property depends on that code.

Some variables are no variables of the code. They are *history*, read by no action
(or only where a comment marks a bound), and let a property say which executions
it is about:

* `sealed`: the months that have been locked ever since some moment at which no
  handler was in progress (in `MonthEndClose`: the dates, and no closing of them).
  "Nothing enters a locked month" is false from the lock's own moment on, since a
  handler may have asked before it; it is true, and worth showing, from the first rest
  on.
* `past` (of a bill, a bank line, a payroll run): *clean*, *torn* (a handler ended
  between two writes that belong together) or *crossed* (two handlers were on it
  at once). `FixedAssets` keeps `crossed` and `torn` as sets, and `patched` for an
  asset whose status somebody wrote by PATCH; `JournalEntries` keeps `crossed`.
* `restated` (a bill edited after it was approved or paid), `byHand` (a line the
  manual routes touched), `outside` (a run whose status was written by PATCH, or
  that lost items with an employee), `planned` (no level was asked for, and no row
  was claimed that another send had claimed since it was read), `burnt` (a send
  ended between its claim and its chase).
* `dictated` (invoices whose status the body of a POST or PUT wrote last), `claimed`
  (journal entries whose body named an entry they reverse), `settled` (the status of
  the chased invoice is what a payment made it), the account `"rewritten"` of an AI
  draft whose lines a PUT replaced: what came from a body or by hand and not from the
  code's own rules.
* `issued`, `deleted`, `renumbered`, `written`, `abandoned` (`InvoiceNumbering`): what
  became of the numbers of a series.

Where a property has such a condition, section 6 says what happens without it.

### InvoiceNumbering

`lastValue` is the committed `last_value` of a series. `TxAllocate` is the upsert
of `allocateInvoiceNumber(.., tx)`: it waits for the row lock and keeps it
(`rowLock`) until `TxCommit` or `TxRollback`; this is how POST invoices and POST
credit-note draw their numbers. The quote conversion passes
the global `db`: `ConvertRead`, `ConvertAllocate` (commits at once),
`ConvertInsert`, `ConvertMark`, and `ConvertFail` between any two of them. PUT
invoices writes the number of its body and asks no allocator: `Renumber` from one
number of a series to another, `RenumberOut` to one that is of no series (`outside`
counts those invoices), `RenumberIn` back; the unique constraint on the number is in
their guards, and in `TxCommit` and `ConvertInsert`, which may so be refused. The
recurring job would allocate in a transaction of its own too, and never comes to it
(`RecurringInvoices`). Not in the model: the lines and totals of documents.

### InvoiceLifecycle

State: the row (`status`, `total`, `date`, `rate`), `paid` (sum of its payment
rows), `ledger` (draft amount; number and AED effect of the posted entries with
source "invoice"; AED cleared by payment entries), `volume` (posted entries per
month) and `locked`. A handler's record keeps what it read (`snap`), what it will
write (`edit`, `target`, `amount`, `date`) and the months it has yet to ask about
(`check`).

| Route | Actions |
|---|---|
| POST invoices | `CreateBegin`, `PassLock`, `Insert` |
| PATCH status → sent/posted | `StatusBegin`, `PassLock`, `FindRevenue`, `PostRevenue`, `SetStatus` |
| PATCH status → paid | `StatusBegin`, `PassLock`, `SumPayments`, `RecordPayment` or `SetStatus` |
| PATCH status → void/cancelled | `StatusBegin`, `FindOriginal`, `PassLock`, `PostReversal`, `SetStatus` |
| POST payments | `PayBegin`, `PassLock`, `RecordPayment` |
| POST post | `PostBegin`, `FindDrafts`, `PassLock`, then `PostDrafts` or `FindRevenue`, `PostRevenue` |
| PUT invoice | `EditBegin`, `CheckPosted`, `PassLock`, `WriteEdit` |
| DELETE invoice | `DeleteBegin`, `CheckEntries`, `DeleteRows` |
| month-end | `LockPeriod`, `UnlockPeriod` |
| any error or early return | `GiveUp` |

Choices worth knowing:

* `recordInvoicePayment` is one action because it is one transaction under the
  invoice's row lock. `safeDeleteInvoice` is two (`CheckEntries`, `DeleteRows`):
  its transaction locks nothing it reads.
* A status request for the status the invoice has only writes an audit row, so
  `StatusBegin` asks `from # to`.
* POST and PUT spread the body into the row (`invoices.routes.ts:231, 297, 425, 482`),
  and its status with it: no transition table, no posting, no payment. `Insert` and
  `WriteEdit` write it as it is, any of `BodyStatuses`, or none (`"draft"` by
  default, or as it was). `dictated` keeps which invoices that happened to last;
  PATCH status and a payment take them out of it. The other columns of such a body
  (ids, company, customer) are not modelled; its number is in `InvoiceNumbering`.
* `OldInvoices` are drafts of an earlier version, past retention, with no entry, a
  draft entry, or the posted entry that version made; only they can be deleted.
* The chart of accounts is taken as seeded; a missing account ends the handler
  (`GiveUp`). Amounts are whole units, so the half-fils tolerance of
  `statusFromPayments` never decides.
* Left out because nothing here depends on it: audit rows, notifications, chase
  stamps (in `PaymentChasing`), the credit-note route (its number is in
  `InvoiceNumbering`).
* `CrashTargets` are the statuses before whose writing a handler may die although
  its entry is in. `LocksAtRest` lets months be locked only while no handler is in
  progress; it separates *which date a route asks the lock about* from the race
  between asking and writing.

### EntryNumbering

One company and one day. A connection belongs to the call that has a statement or
a transaction on it (`call[r].conn`); the others are idle. `generateEntryNumber`
is `lock` → `lockWait` → `read` → `unlock`, each on *some* idle connection; its
lock is a session lock (`session[c]`, counted as PostgreSQL counts it). The
transaction of `createJournalEntry` and of `recordInvoicePayment` is `begin` →
`txWait` → `txRead` → `insert` on one connection, under a lock that ends with it
(`holder`). `Insert` commits or meets the unique constraint and starts again, up
to `MaxAttempts`. `Timeout` is `statement_timeout`, the empty-pool case of
`Checkout` is `connectionTimeoutMillis`, `CloseIdle` is `idleTimeoutMillis`.
Left out: the depreciation batch, which numbers under a lock of its own
(`FixedAssets`), and restore, which inserts rows with the numbers they had.

### JournalEntries

An entry's lines are kept as their net effect on two accounts, which is enough to
tell balanced from unbalanced and an entry from its reversal. Input is in tenths
of a fils (`split` equal debits of `each`, one `credit`), is checked as it comes
within one fils (`Accepted`, the routes and `assertBalanced`), and is rounded line
by line when stored (`Stored`, NUMERIC(15,2)). A difference of exactly one fils is
tolerated, as in `> 0.01`; floating-point noise around it is not modelled.

`CreateBegin`/`Insert`, `EditBegin`/`WriteEdit`,
`PostBegin`/`ReadPost`/`WritePost`, `ReverseBegin`/`ReadReverse`/`InsertReversal`
and `DeleteBegin`/`Delete` are the calls of the five routes, `AcceptDraft` the
conditional update of an accepted AI draft. `check` and `PassLock` are as above.
The body of POST may name an entry the new one reverses (`Claims`), whatever its
lines; the foreign key asks that it exists, and `claimed` keeps which entries made
that claim. No route makes an entry void; void rows are old ones. Audit rows and `updatedBy`
are left out.

### BillPayments

State: the bill's row and the total of its one line, payment rows, `payable` (posted
approval entries and what they credit) and `cleared` (entries per payment row).

| Route | Actions |
|---|---|
| POST bills | `Create`, `PassLock`, `InsertBill`, `InsertLine` |
| PATCH bill | `Edit`, `PassLock` (old and new month), `WriteBill`, `DropLine`, `InsertLine` |
| DELETE bill | `DeleteBill` |
| POST approve | `Approve`, `PassLock`, `ReadLine`, `FindPayable`, `PostPayable`, `SetApproved` |
| POST payments | `Pay`, `PassLock`, `InsertPayment`, `FindCleared`, `PostPayment` or `PostFails`, `UndoPayment`; `SetPaid` |
| POST backfill, for one bill | `Backfill`, `PassLock`, `ReadLine`, `FindPayable`, `PostPayable`, `ListPayments`, then per payment `NextPayment`, `PassLock`, `FindCleared`, `PostPayment`; `EndBackfill` |
| any error, early return or death | `GiveUp` |

`Tolerance` is the fils by which the code lets a payment pass the balance. Under
reverse charge a bill owes its net amount when made, net and VAT after an edit,
as in the code. Bills are in AED.

### RecurringInvoices

A run of `generateDueRecurringInvoices` takes one due template at a time, in a
transaction that locks it FOR UPDATE SKIP LOCKED. The SELECT is raw SQL
(`storage.ts:4209-4229`), and the model says what it returns. Its rows have snake_case
columns, so `template.linesJson` is undefined, `JSON.parse` throws
(`scheduler.service.ts:545`) and the template is switched off: `Disable` is what a
fetched template comes to, and the code behind it (invoice, advance of
`next_run_date`, entry) is dead and has no action; nor is the end date ever seen. And
the SELECT that excludes what the run has had casts an expanded list of parameters to
`uuid[]`, which PostgreSQL refuses: `FetchFails`, caught, and the loop goes round. So
`Fetch` and `FetchNothing` are of a run that has had nothing yet, `Rollback` is a
failure inside the transaction, `Die` the end of the process. Users `EditNext`,
`Toggle` and `Delete` templates, waiting for the row's lock; end date and lines may
be edited too, but no run reads them. `Horizon` bounds the clock.

### MonthEndClose

`Request`, `PassLock`, `FindNoClosing`, `ReadIncome`, `ReadExpense`, `PostClosing`
are the calls of POST generate-closing-entries; `Leave` and `Abandon` its early
returns. `Dates` are instants: `DayOf` gives the midnight before one, `MonthOf` its
month. A closing is for whatever end its body names (`Request(c, end)`); the code
looks for a closing dated the midnight of that day (`Closed`), and posts one dated the
end itself. A lock is for the day its body names, and shuts the part of the month up
to it (`Shut`); unlocking names a month and frees what ends with its last day.
`Enter`, `Edit` and `Reverse` stand for the journal, one step each, since its own
steps are in `JournalEntries`; an entry users write may look like a closing
(`"posing"`: source and memo are theirs to send). `Balance` is the code's join as it
is: two LEFT JOINs whose second condition removes no line, so that drafts and other
months stay in the sum. An entry is its net credit on income and on expense accounts.

### SuggestionQueue

| Code | Actions |
|---|---|
| POST ai-gl/scan | `ScanBegin`, per line `Classify`, `ListSure`, per sure item `Draft`, `Mark` or `SkipItem`, `ScanEnd` |
| `processUserFeedback` | `Accept`, `Correct`, `Reject`; then `PostDraft` or `InsertPosted`, `SetItem`, `SetLine` |
| bank statement routes, automatic matcher | `Book` (with `InsertPosted`, `SetLine`), `Match`, `Unmatch` |
| POST journal/:id/post on a draft | `PostByHand` |
| PUT journal/:id on a draft | `RewriteBegin`, `Rewrite` (other lines, its status if the body names one) |
| any refusal, error or death | `GiveUp`, and `ScanEnd` at any point |

### PaymentChasing

One overdue invoice, since chases of different invoices share nothing. A send is
`Send` or `BulkSend` (which reads eligibility and level at its start), `Stamp` (its
own clock), `Claim` (the conditional UPDATE of `tryClaimChaseSlot`) or `SlotTaken`,
`Insert` (the chase). `Pay` is the part of `recordInvoicePayment` that stamps open
chases. `BeginWrite` and `WriteStatus` are what writes a status without stamping: a PUT
whose body names one, PATCH to void, PATCH to paid that finds nothing outstanding;
each reads the row first and writes by id later. `SetDoNotChase` and `Elapse` (time)
are the world around. A day has `DayLength` ticks, so that two sends may fall into one
day or across midnight.

### FixedAssets

| Route | Actions |
|---|---|
| POST :id/depreciate | `Depreciate`, `PassLock`, `Find`, `Claim` or `Lost`, `Post`, `SetAsset`; on failure `Undo` |
| POST run-depreciation | `RunBatch`, `PassLock`, `Connect`, `LockDate`, per asset `Pick`, `BatchClaim`, `BatchSet`; `CommitBatch` |
| POST :id/dispose | `BeginDispose`, `PassLock`, `Connect`, `LockRow`, per month `CatchUp`, `Book`; `Dispose` |
| PATCH :id | `Edit`, `PassLock`, `Count`, `WriteEdit` |
| DELETE :id | `Delete` |
| failing call, death, timeouts | `Fail`, `Die`, `Timeout` |

Batch and disposal are transactions: their rows are in `drafts` until they commit.
`Ready` says when a statement gets its connection and its lock at once: the row of
the asset FOR UPDATE (a disposal), FOR KEY SHARE through a schedule's foreign key
(a batch), the month's entry numbers, and a connection of the pool, which a
disposal's period checks need *in addition* to its own. Straight-line only;
every asset was bought in the middle of month 1; whole fils, rounded half up.

### PayrollRuns

| Route | Actions |
|---|---|
| POST calculate | `Calculate`, `Preserve`, `Clear`, `ListEmployees`, per employee `InsertItem`, `WriteTotals` |
| POST approve | `Approve`, `PassLock`, `SumItems`, `Post`, `SetApproved`, `MarkPaid` |
| PATCH payroll item | `EditItem`, `WriteItem`, `SumAgain`, `WriteSum` |
| PATCH payroll run | `Patches`, `WritePatch` |
| employees | `UpdateEmployee`, `DeleteEmployee` (cascades to items) |
| failing call, death | `Die` |

Of an item the model keeps the net salary, as the contract's part and the part
entered by hand; gross pay, pension and gratuity go into the same entry.

## 3. What the runs check and show

Run one with `tlc -workers 2 -config <cfg> <module>` in this directory.

| Run | Instance | Properties |
|---|---|---|
| `numbering` | two creators, two conversions, one series, three numbers, renumbering and deletion | `NoDoubleAllocation`, `GapsAreExplained` |
| `lifecycle_one` | one request at a time, two months, totals 1 and 2, all seven statuses in bodies | `BooksFollowInvoice`, `ClosedMonthsTakeNoSales`, `RecognisedOnceReversedOnce` (refinement) |
| `lifecycle_race` | two requests of any kind, four statuses in bodies, with crashes and deletions | `CashMatchesPayments`, `NeverOverpaid`, `PaidMeansSettled` |
| `entrynumber_calls` | three calls, two connections, timeouts, leaked locks | `NoCollision`, `EveryCallEnds` (liveness) |
| `journal_two` | two requests and AI acceptances, two entries, one of which bodies claim to reverse, two months | `EntriesBalanced`, `ReversalsMirror`, `PostedIsImmutable`, `FrozenButForAcceptance` |
| `bills_two` | two handlers on a bill with two payments, one month locked and unlocked | `PaymentsTie`, `PayableOnce`, `RecordedWithinTotal`, `ClosedMonthsTakeNoBills`, `BackfillRepairs` |
| `recurring_runs` | two runs, two templates, two days | `RunsEnd` (liveness), **violated** |
| `monthend_close` | two closings, four entries, a day of one month; a day, the last day and its noon of the next | `ClosedOnce`, `SealedDatesStayUnclosed`, `TidyCloseEmptiesTheMonth` |
| `suggestion_queue` | two scans, two requests (rewritings included), one line, two suggestions, two entries | `LedgerFollowsReview`, `DecisionsArePosted`, `DecisionsStand` |
| `chasing_slots` | two sends and a writer of statuses over three days of three ticks | `ChasesSpaced`, `SlotTellsLastChase`, `PlannedChasesClimb`, `PaymentStampsChases` |
| `fixed_assets` | two handlers, one asset, two months, two connections | `TypeOK`, `LedgerTiesToSchedules`, `AssetTiesToSchedules`, `ClosedMonthsTakeNoDepreciation`, `EveryHandlerEnds` (liveness) |
| `payroll_month` | two handlers, two employees, three items, two months | `WagesPaidOnce`, `ApprovedRunTies`, `HandEditsSurvive`, `ClosedMonthsTakeNoWages` |

All of them pass but `recurring_runs`, which shows a disagreement of the code with its
comments (below and in section 6). What they show, and what would break it:

* **NoDoubleAllocation, GapsAreExplained.** The allocator's promise: no number is
  handed out twice, and one that no document carries was deleted, renumbered by a
  PUT, or given to a conversion that failed. An allocation on the wrong handle, or a number taken from the documents that remain,
  breaks one of them.
* **BooksFollowInvoice**, when no request is in progress: an invoice's posted
  effect is nothing, or its total in AED, or zero again once it is void. It ties
  create, edit, issue, pay, repair and void together. *Nothing* is allowed for an
  issued invoice, since a draft that was paid has skipped the issue that posts
  revenue, and one that the body of a POST made "sent" was never issued. An invoice
  that the body of a PUT voided may be left with its total.
* **RecognisedOnceReversedOnce.** The refinement: under the mapping
  `phase` = number of posted entries, `amount` = their net effect, every step is a
  step of `RevenueRecognition` or a stutter.
* **CashMatchesPayments, NeverOverpaid, PaidMeansSettled.** Kept by the row lock of
  `recordInvoicePayment` under any interleaving: `SumPayments` reads the sum early
  and the lock makes a stale remainder harmless. `PaidMeansSettled` is about invoices
  whose "paid" no body wrote.
* **ClosedMonthsTakeNoSales.** Each route asks about the month it writes to, where
  the invoice's date and today differ. The run has no invoices of before the drafts
  (`OldInvoices` is empty), so that POST post finding a draft entry of a third date,
  which is in the module, does not occur in it.
* **NoCollision, EveryCallEnds.** The retry loop of `createJournalEntry` is never
  needed; leaked locks delay calls but hang none.
* **PostedIsImmutable** holds unless two handlers cross on the entry;
  **EntriesBalanced** and **FrozenButForAcceptance** hold whoever crosses.
  **ReversalsMirror** is about the reversals that the reverse route made, unless
  handlers cross on one or its original, next to entries whose bodies claim to
  reverse one.
* **PaymentsTie, PayableOnce.** While handlers of a bill neither overlap nor die
  half way, recorded, paid and posted agree, compensation included.
  **RecordedWithinTotal** and **ClosedMonthsTakeNoBills** need no such condition.
  **BackfillRepairs**: after torn handlers as well, the end of a backfill finds
  payable and payments in the ledger.
* **RunsEnd** is violated: a run fetches one template, disables it, and every further
  SELECT of it is refused, so that it goes round `FetchFails` for ever, although the
  comment at `scheduler.service.ts:491-494` promises that "`seen` prevents infinite
  loops". Every step of a run is weakly fair and the servers come to stay up, so the
  counterexample is no stopped process.
* **ClosedOnce**, of a day, unless two closings of it meet, and however many other days
  of its month are closed; **SealedDatesStayUnclosed** although the lock is asked three
  queries before the write; **TidyCloseEmptiesTheMonth**
  when nothing but the month's posted entries is on the accounts.
* **LedgerFollowsReview, DecisionsStand** while processes keep apart on a line;
  **DecisionsArePosted** whatever crosses or dies, and whatever is booked, matched or
  posted by hand; a PUT that rewrites the draft meanwhile may leave other lines, or a
  draft.
* **ChasesSpaced, SlotTellsLastChase.** The compare-and-set does what double clicks
  need. **PlannedChasesClimb**: each letter once and in order, bulk sends a
  frequency apart, while no send overtakes another. **PaymentStampsChases**: on an
  invoice that a payment settled, a chase without the payment's date belongs to a send
  the payment fell into.
* **LedgerTiesToSchedules** however handlers interleave: the unique slot and the
  three ways to lose it. **AssetTiesToSchedules** while handlers wait for each
  other. **EveryHandlerEnds**: two disposals that hold both connections and wait
  for a third are released by the pool's timeout.
* **WagesPaidOnce, ApprovedRunTies** one handler after the other, through dying
  calculations and employees who come back; **HandEditsSurvive** and
  **ClosedMonthsTakeNoWages** under any interleaving.

### Bounds

| Bound | Why it is enough |
|---|---|
| one invoice, bill, bank line, asset or run | they share no state with others of their kind but the month locks; batches over several assets differ from one over one only in the order of their rows |
| two requests, scans, sends, runs, closings | each protocol here is a pair (reader/writer, two writers, claimer/late claimer); the theorems hold for any number |
| totals 1 and 2, or 2; a bill of 3 and VAT 2 | partial payment, full payment, an edit up and down; with and without VAT differ by more than the tolerance |
| `MaxPosted` 2 or 3 | one more than correct behaviour needs, so a surplus entry is seen |
| `MaxNumber` 3, one series | a gap, its successor and a waiting allocation; series are independent rows |
| two journal entries, two months | an original and its reversal; the month of an entry and another |
| four entries in `MonthEndClose`, four `Dates`, `FewEntries` | a sale, a cost, reversal or posing entry, a draft and a closing; a second day and a time of day of one month, a day of another; two closings at once only over few entries |
| `NearBalance` | off by the tolerated fils, off by two (refused); whole fils in balance follow by proof |
| three calls, two connections | more callers than connections: waiting for the pool while its holders wait for the lock |
| `MaxAttempts` 1 (8 in the code, `storage.ts:1508`) | the retry branch is in the model; no run enters it, which is what NoCollision says |
| `MaxHolds` 3, `MaxEntryNumber` 3 in `EntryNumbering` | a leak on top of a leak; guards stop calls from *beginning*, never one in progress |
| `Horizon` 1 in `RecurringInvoices` | a template due today, one due tomorrow, and a run that meets both |
| `BodyStatuses` | all in `lifecycle_one`; in `lifecycle_race` a draft, an open status and the two kinds of final one |
| `Claims` {e1} | a body that names an old entry, or one just made, as the one it reverses |
| `Writers` {w1}, at most one send beside a writer | a status written between the read of a send and its chase; a payment between the read of a writer and its write |
| `Lockout`, `Frequency` 1, three ticks a day, six ticks (`LastTick`) | sends within and beyond the lockout, in a day and across midnight; three levels |
| `YearLength` 1, lives of 1 and 2, amount 10 | half a month, a full month and the rest of it; an edit of the life that fits and one that does not; rounding of a half |
| `Items` 3, `Pays` {1}, `Extras` {1} | an edited, a preserved and a new item for two employees; deleted items are used again |
| `Lockable` | one month that is locked and unlocked; a month that is never locked shows nothing to a property of closed months |
| `SomethingToShow` (bills, suggestions, chasing) | states in which no property says anything any more (crossed and restated, crossed and handled by hand, settled) are not continued |
| `Explored` (fixed assets, payroll) | likewise, as a guard: nothing *begins* on what handlers have crossed; those in progress go on. `Continued` TRUE takes the guard away: the runs have it FALSE, the theorems hold for both |

Deadlock checking is off only in `numbering`, where the model stops at its highest
number, and in `chasing_slots`, where it stops at the end of time. Symmetry is over
interchangeable handlers and rows, in runs without liveness.

The type invariants are theorems where there is a proof module and not run
again; `fixed_assets` checks its own.

## 4. Fairness

Three runs check liveness, one of them to show it fails, each under what the code's
scheduling gives; safety runs use no fairness.

* `entrynumber_calls`: weak fairness of each call's own step. A call waiting for a
  connection gets one or an error after `connectionTimeoutMillis` (10 s), a
  statement waiting for a lock gets it or is cancelled by `statement_timeout`
  (30 s), and every other step is a statement that PostgreSQL answers. No fairness
  for beginning calls, deleting entries or closing connections, so `EveryCallEnds`
  holds even if leaked locks are never cleared by the pool.
* `recurring_runs`: weak fairness of a run's steps (the scheduler starts every day,
  and a run's loop goes on by itself), and that servers come to stay up
  (`<>[][no Die]_vars`). It is what the code gives and more: the counterexample does
  not need a server to stop or a step to be held back. `FetchFails` is a step of a run
  that changes nothing, which is what the loop does.
* `fixed_assets`: weak fairness of each handler's step, which includes `Timeout`:
  the pool and the database end every wait. Without the timeout (the mutant
  `Timeout_never`) two disposals wait for each other for ever.

## 5. What is proved

`tlapm <module>_proofs.tla` checks all of it. The theorems hold for any number of
handlers, documents, entries, months, connections and calls; the assumptions are
the named ASSUMEs of each module (mostly: constants have their types) and what is
listed here.

| Theorem | Says | Beyond the ASSUMEs |
|---|---|---|
| `Receivables_proofs`, numbers: `NumberingTypesKept`, `RowLockGuards`, `NumbersAreUnique`, `GapsHaveThreeCauses` | types; what an open transaction read is still so; no number handed out twice; the causes of gaps | — |
| `GaplessUntilRenumbered` | every series is gapless until a PUT changes a number | no conversions |
| `InvoiceLifecycle_proofs`: `TypeCorrect`, `PaymentsReachTheLedger` | types; cash = payments | — |
| `CustomersAreNeverOverpaid`, `PaidInvoicesAreSettled` | the other two payment invariants, the second but for a "paid" that a body wrote | edits keep the total |
| `ClosedMonthsStayClosed` | months locked while no handler runs take no sale | months are locked at rest; no invoices of before the drafts |
| `BooksFollow`, `RevenueRefinement` | between requests the books show an invoice's total or nothing, and nothing of one voided but by a body; the handlers implement `RevenueRecognition` | `PlainBooks`: AED, no invoices of before the drafts, no death between a reversal and its status; behaviours in which no two handlers are on one invoice at once (`Apart`) |
| `GeneralLedger_proofs`, entry numbers: `EntryTypeCorrect`, `OneTransactionNumbers`, `NumbersNeverCollide` | types; the lock excludes; numbers are free when inserted | — |
| `JournalEntries_proofs`: `TypeCorrect`, `PostedStaysPosted`, `ReversalsKeepMirroring`, `ClosedMonthsStayFrozen` | types and the run's other properties | — |
| `WholeFilsStayBalanced` | entries balance | input is in whole fils |
| `BillPayments_proofs`: `TypesKept`, `ClosedMonthsStayClosed`, `PaidWithinTotal` | types; closed months; recorded ≤ total | — |
| `PayablesPostOnce`, `BackfillsRepair`, `PaymentsTieUp` | one payable of what is owed; a backfill leaves no payment unposted; recorded = rows = posted | — |
| `GeneralLedger_proofs`, the close: `CloseTypes`, `DaysClosedOnce`, `SealedDatesUnclosed`, `TidyClosesEmpty` | types and all three properties of the run | — |
| `Receivables_proofs`, recurring: `RecurringTypesKept`, `TemplatesAreLocked`, `RunsTakeOneTemplate` | types; one run per template; one template per run | — |
| `GeneralLedger_proofs`, suggestions: `TypesKept`, `DecisionsReachTheLedger`, `DecisionsStayDecided`, `LedgerKeepsFollowing` | types and all three properties of the run | — |
| `Receivables_proofs`, chasing: `TypesKept`, `ChasesAreSpaced`, `SlotTellsTheLastChase`, `PaymentStamps`, `PlannedClimb` | types and all four properties of the run | — |
| `FixedAssets_proofs`: `RegisterTypes`, `ClosedMonthsUndepreciated`, `LedgerFollowsSchedules`, `AssetsFollowSchedules` | types and the run's three safety properties | — |
| `PayrollRuns_proofs`: `PayrollTypesKept`, `ClosedMonthsUnpaid`, `HandEditsStay`, `WagesOnce`, `ApprovedTie` | types and all four properties of the run | — |

The assumptions on totals and on fils are needed: an edit below what is already
paid leaves an invoice overpaid, and parts of a fils may round out of balance
(section 6).

The arguments:

* **Numbering.** `NumberingInv` adds to the types that an open transaction holds its
  series' row and read its current value (`LockProtectsSeries`), that conversions
  hold different numbers not yet used, and that every number up to `lastValue` was
  issued, abandoned or is held; `RowsKnown` follows what was issued through deletion
  and renumbering. Uniqueness is a consequence: two holders of one number would both
  own the row, or one would hold a number above `lastValue`.
* **Lifecycle types.** `TypeOK` is not inductive: `DeleteRows` takes one from
  `posted`. `DeletionFindsItsEntries` says that between the two calls of a deletion
  the draft it saw is there or has been posted, unless the invoice is gone.
* **Payments of invoices.** `CashInv` is preserved action by action; only
  `PaymentEffects` touches either side. `SettlementInv` says in addition that a
  handler about to write "paid" (`SetStatus` after `SumPayments`) saw payments
  covering the total, and payments of an existing invoice only grow.
* **Entry numbering.** `EntryInv`: a connection serves one call; a call in
  `txRead`/`insert` is on the connection that is `holder`; the number it is about
  to insert is free. The lock is exclusive whatever sessions have leaked, since
  leaks only make it harder to get.
* **Closed months** (invoices). `ClosedInv`: a request about to write an entry of a
  sale or a reversal has been told that its month is open, and months are locked
  only at rest, so it still is. What is paid late is dated today and is not a sale.
* **Books, revenue.** `RevenueInv` says, of each invoice, what its one handler knows
  (whether revenue is there, the total it will post, the sales it will reverse) and
  that this is still so, because it is alone there; handlers of other invoices
  overlap as they like. An invoice under void may show nothing or all of its sales;
  after the void, nothing. The refinement follows: each posting is a `Recognise` or
  a `Reverse`, every other step leaves the mapped state alone.
* **Balance, reversals.** Every entry, and every row a handler is about to write,
  balances; a reversal about to be inserted mirrors what its handler read, and a
  mirror is compared with the lines kept from that reading.
* **Posted entries.** A handler that is about to write over an entry either read it
  as a draft that is still one, or has been crossed: whoever posted the entry in
  between was in progress with it.
* **Closed months** (journal). The subtle one. A handler may be in progress when a
  month is locked, having passed its check; worse, a handler that starts *after*
  the lock may read what a late writer is about to change and so carry a stale
  month. That is why the property starts at the first moment of rest. `SealInv`
  says what each handler knows of sealed months: if it is going to write into one
  it still has that month's lock to pass, which it never will; what it read there
  is still so; and what it would delete there is a draft. `StepIsSafe` shows that
  under it no write disturbs a sealed month, `HeldPreserved` that such steps leave
  the others' knowledge true, and `SealedAtRest` that a month becomes sealed only
  when all handlers are idle, and so know nothing yet. Old entries must be the
  users' (`OldAreManual`): else an acceptance could post, in a sealed month, the
  draft a deletion has just looked at.
* **Closed months** (bills). The same invariant in a simpler form: no handler
  rewrites another's month, so what a handler carries into a sealed month is always
  behind a check.
* **Paid within total.** A handler of a payment holds a bill whose balance fits its
  amount, and the total stays what it read as long as the bill is not restated: an
  edit in progress restates what has been paid or approved. What it writes is the
  sum it checked, so the bound holds although the sum may forget another's payment.
* **Payable and backfill** (bills, `BookInv`). On an uncrossed bill there is at most
  one handler, so the bill, payable and payments it read are still what is there
  when it writes: who posts the payable read that there is none, and every live
  payment the backfill has not met yet has its entry or is on its list.
* **Payments tie** (bills, `TieInv`). Until the handlers of a bill overlap or die half
  way, rows and ledger agree but for the row of the one payment in progress, which
  knows whether it is posted and what `amount_paid` was before it; compensation
  takes the row out and puts the old sum back.
* **Sums.** The books of bills and of the close are sums over rows.
  Induction over sets being out of reach, `SumTheorems` proves what a fold over a
  finite set does by *smallest counterexample*: of the sets for which a claim fails
  take one with fewest elements, and the set without one of them is a contradiction.
* **Month-end close** (`CloseInv`). Closing entries are posted as soon as they exist
  and are never unposted; of an uncrossed date there is one closing at a time, so that
  the one that found no closing entry of its day is still right; a closing of a sealed
  date waits at its lock; and what a closing has read is still the balance unless something was
  written since. That a tidy close empties the month's accounts is arithmetic of sums: the
  closing adds to each account minus the sum of its other entries.
* **Recurring.** `RecurringInv`: who is in a template's transaction is alone there, by
  SKIP LOCKED, and a run has seen one template at most, since it fetches while it has
  seen none.
* **Suggestions.** What a review is about to store on an item is an entry that is
  already there for its line, and posted on the account decided unless a PUT rewrote
  it; nothing else takes an entry back or gives it other lines (`Grows`). On an
  uncrossed line there is one process at most and one suggestion at most: what a review read as undecided still is when it
  writes (`DecisionsStayDecided`), nothing is posted before it posts, and between
  its posting and the reconcile exactly its own entry is (`HalfBooked`).
* **Chasing.** `ChasesSpaced`: the slot is never older than the last chase, and the
  UPDATE compares with it. `PlannedChasesClimb` is the long one (`ClaimsClimb`,
  `ReadingsHold`): as long as nobody overtakes, what a send read of the invoice is
  what is there, so a claim that succeeds is of a level above all chases.
* **Assets, types** (`TypeInv`). Accumulated depreciation stays within what can be
  depreciated although handlers overwrite each other's sums: every charge was
  computed from the row its handler read, with room for it there, and what is
  written is that row's sum and the charge. That a charge fits is arithmetic of the
  rounded months (`ChargeFits`).
* **Assets, closed months** (`SealInv`). Past its checks a handler carries no sealed
  month: neither its own, nor the month a disposal is catching up on, nor a draft.
* **Assets, ledger** (`LedgerInv`). Three claims on a month of an asset exclude each
  other: the slot a single depreciation has taken and not yet posted (`Slot`), the
  draft of a transaction (`Draft`), the months a disposal found unbooked when it took
  the row FOR UPDATE (`Lock`). A batch can claim no month a disposal may still book,
  since its foreign key needs the row too. Between claim and posting the ledger is
  behind the schedule by exactly that claim. No condition on who crosses.
* **Assets, accumulated depreciation** (`AssetInv`). While no two handlers cross on an
  asset one of them works on it at a time, and what it read is still the asset's
  (`Knows`): what is there, plus the claim it has booked, is the sum of the schedule;
  a disposal counts its drafts on top. What begins finds nobody at work, or crosses.

* **Payroll, closed months and hand edits.** An approval past its lock carries a
  month that was open when it asked, and months are sealed only at rest; of the
  four places that write items, none but those the property names touches an edited
  one, a new item going to a row that was absent. Both whoever crosses.
* **Payroll, wages** (`WageInv`, `PostInv`, `TieInv`). While one handler at a time is
  on the run (`Alone`) each of its steps knows something of the tables: before
  the deletion, that the edited items are those kept; after it, that whoever has an
  item is kept; while inserting, that whoever is still to be calculated has no
  item, and that what is summed up so far is what the items come to. The entry is
  written before the status that guards an approval, so at most one entry holds only
  with: an entry is there when the run is approved, or its own approval is
  about to write so. The totals may be behind the items only from
  the deletion to the end of a calculation, and from the write to the
  end of an edit, and a handler that dies there leaves the run torn.

Only model-checked: liveness (`EveryCallEnds`, `RunsEnd`,
`EveryHandlerEnds`), which is out of this prover's reach. Every safety property of
every run is a theorem, under the conditions the table names.

## 6. Where code and words disagree

One of these is a run, the first; the others follow in the model named, from the
definition or the constants given. The first group contradicts a comment or a
document.

* **A scheduler run that never ends** (`storage.ts:4223`, run `recurring_runs`). The
  second SELECT of a run casts an expanded list of parameters to `uuid[]`; PostgreSQL
  refuses it, the loop catches and continues, for ever, against
  `scheduler.service.ts:491-494` ("`seen` prevents infinite loops"). Besides, the raw
  row has no `linesJson` (`scheduler.service.ts:545`), so that every template a run
  fetches is switched off and no recurring invoice is ever made.
* **Double issue** (`invoice-posting.service.ts:44`). Find and insert are two
  calls; two concurrent issues both post, although "re-issuing can never
  double-recognise revenue" (:11-13). `RecognisedOnceReversedOnce` with two
  `Requests`.
* **Foreign void** (`invoices.routes.ts:734`). The reversal is in document
  currency, the original in AED. `VoidLeavesNoRevenue` with `Rates` {2}.
* **Payment month** (`invoices.routes.ts:648`). PATCH status → paid asks about the
  invoice's month and posts into today's. `LockedPeriodsStayClosed` in
  `lifecycle_one`.
* **Leaked session lock** (`storage.ts:1650`). The lock of `generateEntryNumber`
  may stay on another connection. `LockReleasedAtExit` in `EntryNumbering`.
* **AI acceptance** (`autonomous-gl.service.ts:668`) posts without asking the lock.
  `LockedMonthsAreFrozen` in `JournalEntries`.
* **Approvals of bills** (`bill-posting.service.ts:21`: "retried approvals cannot
  double-post"). Two at once, or one beside the backfill, do.
  `RetriedApprovalsPostOnce` in `BillPayments`.
* **Reverse charge** (`bill-pay.routes.ts:275`: "the cash payable is just the
  subtotal"). An edit writes net plus VAT as the total (:412). `ReverseChargeOwesNet`.
* **Closing takes the period** (`month-end.service.ts:354`). The second LEFT JOIN
  removes no line: drafts and other months are closed along. `Balance` in
  `MonthEndClose`, with a draft, or with an entry in the other month.
* **"refuse to generate closing entries twice for the same period"**
  (`month-end.service.ts:333`). The code compares dates with the day the body names:
  two days of one month may both be closed, and a closing of a time of day is dated
  that time, is never found, and may be repeated. `ClosedOnce` is about days.
* **"Reverse the existing closing entry before re-running"** (month-end service):
  the reversed entry stays posted, not void, so the check finds it for ever and a
  day closed once cannot be closed again, which is `ClosedOnce`.
* **Recurring**: the comment at `scheduler.service.ts:469` speaks of a
  compare-and-set on `next_run_date`; what the code relies on is SKIP LOCKED.
* **Chasing**: the doc of `nextLevelFor` calls levels "monotonically non-decreasing"
  (`payment-chasing.service.ts:174`) and the comment on the lockout
  (`chasing.routes.ts:86`) speaks of the seconds between two chases. A send that was
  overtaken may repeat a level and a level somebody asks for may go down, which is
  the condition of `PlannedChasesClimb`; and the lockout is measured between the
  senders' own clocks.
* **"gap-free"** (`quotes.routes.ts:198`, the comment above it). A failed quote
  conversion burns its number, and a PUT takes an invoice off its own: `Gapless` is
  proved without the two and fails with either.

Others contradict nobody's words and are what the conditions of the properties
leave out:

* *Numbers.* A PUT may write a number the series has yet to reach. The transactional
  creation that comes to it fails on the unique constraint, and so does every later
  one, until the invoice is renumbered; a conversion that comes to it burns it.
* *Statuses in bodies.* POST and PUT of an invoice write the status of the body
  (`invoices.routes.ts:297, 482`). A PUT to void leaves the revenue posted; "paid" may
  be written with no payment; an invoice made "sent" has no revenue until POST post
  repairs it.
* *Invoices.* A payment on a draft takes it to partial or paid, which the table of
  `invoice-state-machine.ts` does not list; its revenue is never recognised, and
  POST post repairs such an invoice only while it has no entry of any kind, which
  its payment entry rules out. A draft entry posted between the two halves of a
  deletion is deleted although posted (`storage.ts:4496`). A status written from a
  stale read may revive a void invoice (`storage.ts:1782`). An amount edited
  between another request's read and its entry differs from the entry
  (`invoices.routes.ts:447`). A void that dies after its reversal reverses again on
  the next try.
* *Months.* A month locked between check and write is written to
  (`period-lock.service.ts:16`). A lock up to a day of the month shuts only the days
  up to it, and unlocking, which names the month's last day, does not find it. An entry
  entered by hand with a closing's source and memo stops the closing of its day.
* *Journal.* A draft read by PUT and posted by someone else meanwhile is rewritten
  though posted (`storage.ts:1592`, docs/TRUST.md:45). An entry may be reversed
  twice (`journal.routes.ts:431`), and the body of POST may name an entry the new one
  reverses with any lines (`journal.routes.ts:152`). Parts of a fils are checked before and rounded
  after: five debits of 0.335 against 1.675 are accepted and stored as 1.70 against
  1.68 (`storage.ts:270`).
* *Bills.* Of two payments at once `amount_paid` forgets one, and both pass the
  check of the balance (`bill-pay.routes.ts:610`). A payment whose compensating
  delete fails stays with no entry until the backfill; a backfill beside a payment
  may post it twice.
* *Suggestions.* A draft whose suggestion is rejected or corrected stays a draft,
  to be posted by hand; a PUT that has read a draft may rewrite it, or take it back to
  draft, after its suggestion was accepted; matching and booking by hand never ask whether the line is
  reconciled; unmatching leaves the entry posted.
* *Chasing.* A PUT to paid, and a PATCH to paid of an invoice with nothing outstanding
  (partly paid, then its total lowered), stamp no chase (`invoices.routes.ts:657`): the
  chases of a paid invoice stay open.
* *Assets.* A depreciation that read the asset before another one, or before a
  disposal, writes its stale sum over theirs (`fixed-assets.routes.ts:826`). Whatever
  fails after the claim deletes the claim, also when the entry is posted, so the
  month can be booked again (:855). PATCH takes any status.
* *Payroll.* An edit between a calculation's reading and its deleting leaves two
  items for the employee. An approval that dies after its entry, or two at once,
  post twice. PATCH may set a run approved with no entry, and a cancelled or paid
  run may be approved. Deleting an employee takes the items of approved runs along.
  A calculation that answers "no active employees" has already deleted the items.
  An item edited after the approval has summed differs from the entry.
* *Calendar.* `setMonth` overflows at the end of a month (`scheduler.service.ts:451`).

## 7. What is not modelled, and why

The models cover the parts in which requests meet. By lines that is a small share
of the repository, most of which is the client, routes that read and format, and
CRUD whose every request touches one row.

* **Left out of modelled parts**: the import of bank statements and the scoring of
  candidates, the learned rules and their statistics, the deletion of AI drafts past
  retention (`SuggestionQueue`); templates, configuration and reports of chasing, and
  due dates that a PUT moves;
  creation and capitalization of assets, edits of cost and method, declining
  balance; SIF files and the gratuity calculator; the credit-note route.
* **Left out of request bodies** that go into rows: of invoices the ids, company,
  customer and the like (status and number are modelled); of journal entries the
  source and source id, which the look-ups of other modules go by (only
  `MonthEndClose` has such an entry), an entry that names itself as reversed, and
  columns whose text the database refuses, such as dates as strings.
* **Months.** But for `MonthEndClose` a month stands for dates that are locked and
  unlocked together; a lock up to the middle of a month splits it in two of them.
* **Candidates, section 8**: quotes, credit notes, receipts and their autopilot,
  sessions and tokens, VAT returns.
* **Derived**: corporate tax, reports, dashboards, firm workspace. They read the
  ledger; what they read is what the models above are about.
* **One row per request**: inventory, expense claims, budgets, exchange rates.
* **External**: AI, OCR, WhatsApp, e-mail, OAuth. Calls around stored suggestions;
  their content is no matter for a state machine.
* **Backups**: one transaction that re-inserts missing rows.
* **The client** keeps no state the server relies on.

## 8. Plan

Done, the most important behaviour first: numbering, state machine and lifecycle
with the refinement, entry numbering, the journal, bills, recurring runs,
month-end close, the suggestion queue, chasing, fixed assets and payroll, with
proofs of their safety.

Next, one module per part, each with its one-sentence question:

1. `Receipts` — posted by the route and by the autopilot at once: one document?
2. `QuoteConversion` and `CreditNotes`, composed with `InvoiceLifecycle` and
   `InvoiceNumbering` — one invoice per quote; credited no more than invoiced?
3. `Sessions` — refresh rotation beside revocation: does a revoked token stay so?
4. `VatReturns` — one return per period, filed on the figures it was made from?

5. `RecurringInvoices`, once the SELECT returns rows that can be used and passes over
   those it has had — each interval invoiced once, and no template starved?

Abstract specifications worth stating: a *settlement* (a document is paid by
payments up to its total, each in the ledger once), which invoice payments
implement and bill payments do while they keep apart; a *claim* (of many takers one
gets the slot, and gives it back on failure), for templates, chase slots and
depreciation months.

Theorems next: those of the parts above, and of the abstract specifications.
Modules to be proved about declare no RECURSIVE operator.
