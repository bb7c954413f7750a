---------------------------- MODULE PaymentChasing ----------------------------
(***************************************************************************)
(* Chasing one overdue invoice: the single and the bulk send, the slot     *)
(* they claim on the invoice's row, the chase they store, the payment that *)
(* ends it, and the routes that write its status without one               *)
(* (routes/chasing.routes.ts, payment-chasing.service.ts, the chasing      *)
(* queries of storage.ts, and what routes/invoices.routes.ts does to the   *)
(* row).                                                                   *)
(*                                                                         *)
(* A send reads the invoice, renders a message, takes the time, claims the *)
(* slot and inserts the chase, each a call of its own with no transaction  *)
(* around them; a bulk send reads all its invoices first and may come to   *)
(* this one much later.  Invoices share nothing, so one is modelled.       *)
(***************************************************************************)
EXTENDS Integers

CONSTANTS
    Requests,    \* sends that may be in progress at the same time
    Writers,     \* PUTs and PATCHes of the invoice, likewise
    DayLength,   \* ticks of a day
    Lockout,     \* CHASE_RACE_LOCKOUT_SECONDS, in ticks
    Frequency,   \* chaseFrequencyDays
    MaxLevel,    \* maxLevel
    Thresholds,  \* LEVEL_THRESHOLDS: the days overdue at which a level begins
    LastTick     \* BOUND: the last tick

Levels == 1 .. 4

ASSUME ChasingAssumption ==
    /\ DayLength \in Nat \ {0} /\ Lockout \in Nat /\ Frequency \in Nat \ {0}
    /\ MaxLevel \in Levels
    /\ Thresholds \in [Levels -> Nat \ {0}] /\ Thresholds[1] = 1
    /\ \A k, l \in Levels : k < l => Thresholds[k] < Thresholds[l]
    /\ LastTick \in Nat

VARIABLES
    now,       \* the clock
    invoice,   \* the row of the invoice
    doNotChase, \* its do_not_chase
    chases,    \* payment_chases
    request,   \* the local state of every send
    target     \* the status each writer is about to write

\* No variables of the code, and read by no action.
VARIABLES
    planned,   \* no claim was made for a level somebody asked for, nor on a row
               \* that another send had claimed since it was read
    burnt,     \* a send ended between its claim and its chase
    settled    \* the status of the row is what a payment made it

vars == <<now, invoice, doNotChase, chases, request, target, planned, burnt, settled>>

-----------------------------------------------------------------------------
Time == 0 .. LastTick

Never == -1

\* "sent" stands for every status that is not final (a draft is kept from being chased
\* as do_not_chase keeps one), "void" for cancelled too.
Statuses == {"sent", "paid", "void"}
Terminal == {"paid", "void"}

\* level 0: not chased yet.  last: last_chased_at.
Invoice == [status : Statuses, level : 0 .. 4, last : Time \cup {Never}]

NoStatus == "none"

\* A single send of the next level, one of a level that is asked for, a bulk send.
Kinds == {"next", "asked", "bulk"}

\* by and kind are no columns; payment: paid_at is null, set, or the chase came late,
\* when the invoice was paid already.
Chase == [by : Requests, kind : Kinds, level : Levels, sentAt : Time,
          payment : {"open", "paid", "late"}]

\* row: whether another send has claimed the slot since the invoice was read.
Local == [step : {"idle", "stamp", "claim", "insert"}, kind : Kinds, level : Levels,
          sentAt : Time, row : {"fresh", "overtaken"}]

Sending(kind, level) ==
    [step |-> "stamp", kind |-> kind, level |-> level, sentAt |-> 0, row |-> "fresh"]

Resting == [Sending("next", 1) EXCEPT !.step = "idle"]

Init ==
    /\ now = 0
    /\ invoice = [status |-> "sent", level |-> 0, last |-> Never]
    /\ doNotChase = FALSE
    /\ chases = {}
    /\ request = [r \in Requests |-> Resting]
    /\ target = [w \in Writers |-> NoStatus]
    /\ planned = TRUE
    /\ burnt = FALSE
    /\ settled = FALSE

-----------------------------------------------------------------------------
(* payment-chasing.service.ts.  The invoice is due on day 0.                 *)

Day(t) == t \div DayLength

\* isOverdueAndChaseable
Chaseable == invoice.status = "sent" /\ ~doNotChase /\ Day(now) > 0

\* recommendedLevelFor
Recommended == CHOOSE k \in Levels :
    /\ Thresholds[k] <= Day(now) \/ k = 1
    /\ \A l \in Levels : l > k => Thresholds[l] > Day(now)

\* nextLevelFor: the empty set for null.
NextLevels ==
    {IF invoice.level < Recommended THEN Recommended ELSE invoice.level + 1} \cap 1 .. MaxLevel

\* Mutant: whatever was not chased at this moment.
FrequencyEligible_now == invoice.last # now

\* isFrequencyEligible
FrequencyEligible == invoice.last = Never \/ Day(now) - Day(invoice.last) >= Frequency

-----------------------------------------------------------------------------
(* The two sends                                                            *)

Begin(r, kind, level) ==
    /\ request[r].step = "idle" /\ Chaseable
    /\ request' = [request EXCEPT ![r] = Sending(kind, level)]
    /\ UNCHANGED <<now, invoice, doNotChase, chases, target, planned, burnt, settled>>

\* The next level, or the level of the body, whatever it is.
Send(r) ==
    \/ \E k \in NextLevels : Begin(r, "next", k)
    \/ \E k \in Levels : Begin(r, "asked", k)

BulkSend(r) == FrequencyEligible /\ \E k \in NextLevels : Begin(r, "bulk", k)

\* sentAt = new Date(), when the send gets to the invoice.
Stamp(r) ==
    /\ request[r].step = "stamp"
    /\ request' = [request EXCEPT ![r].step = "claim", ![r].sentAt = now]
    /\ UNCHANGED <<now, invoice, doNotChase, chases, target, planned, burnt, settled>>

\* Mutant: the slot is free if it was when the invoice was read.
SlotFree_read(r) == request[r].row = "fresh" \/ invoice.last = Never

\* last_chased_at IS NULL OR last_chased_at < cutoff
SlotFree(r) == invoice.last = Never \/ invoice.last < request[r].sentAt - Lockout

\* tryClaimChaseSlot: one UPDATE.
Claim(r) ==
    /\ request[r].step = "claim" /\ SlotFree(r)
    /\ invoice' = [invoice EXCEPT !.level = request[r].level, !.last = request[r].sentAt]
    /\ request' = [q \in Requests |->
          IF q = r THEN [request[r] EXCEPT !.step = "insert"]
          ELSE [request[q] EXCEPT !.row = "overtaken"]]
    /\ planned' = (planned /\ request[r].row = "fresh" /\ request[r].kind # "asked")
    /\ UNCHANGED <<now, doNotChase, chases, target, burnt, settled>>

SlotTaken(r) ==
    /\ request[r].step = "claim" /\ ~SlotFree(r)
    /\ request' = [request EXCEPT ![r] = Resting]
    /\ UNCHANGED <<now, invoice, doNotChase, chases, target, planned, burnt, settled>>

\* createPaymentChase
NewChase(r, sentAt) ==
    [by |-> r, kind |-> request[r].kind, level |-> request[r].level, sentAt |-> sentAt,
     payment |-> IF invoice.status = "paid" THEN "late" ELSE "open"]

\* Mutant: the chase is stamped when it is stored.
Insert_now(r) ==
    /\ request[r].step = "insert"
    /\ chases' = chases \cup {NewChase(r, now)}
    /\ request' = [request EXCEPT ![r] = Resting]
    /\ UNCHANGED <<now, invoice, doNotChase, target, planned, burnt, settled>>

Insert(r) ==
    /\ request[r].step = "insert"
    /\ chases' = chases \cup {NewChase(r, request[r].sentAt)}
    /\ request' = [request EXCEPT ![r] = Resting]
    /\ UNCHANGED <<now, invoice, doNotChase, target, planned, burnt, settled>>

\* A missing template, a failing call, or the end of the server.  A slot that is
\* claimed stays claimed.
GiveUp(r) ==
    /\ request[r].step # "idle"
    /\ request' = [request EXCEPT ![r] = Resting]
    /\ burnt' = (burnt \/ request[r].step = "insert")
    /\ UNCHANGED <<now, invoice, doNotChase, chases, target, planned, settled>>

-----------------------------------------------------------------------------
(* The invoice's own routes                                                 *)

\* Mutant: only the chase the customer answered is stamped.
Pay_last ==
    /\ invoice.status \notin Terminal
    /\ invoice' = [invoice EXCEPT !.status = "paid"]
    /\ chases' = {IF c.sentAt = invoice.last THEN [c EXCEPT !.payment = "paid"] ELSE c : c \in chases}
    /\ settled' = TRUE
    /\ UNCHANGED <<now, doNotChase, request, target, planned, burnt>>

\* recordInvoicePayment, of what is outstanding: one transaction, on the row as it is.
Pay ==
    /\ invoice.status \notin Terminal
    /\ invoice' = [invoice EXCEPT !.status = "paid"]
    /\ chases' = {[c EXCEPT !.payment = "paid"] : c \in chases}
    /\ settled' = TRUE
    /\ UNCHANGED <<now, doNotChase, request, target, planned, burnt>>

\* A PUT whose body names a status, whatever it is; a PATCH to void, which a paid
\* invoice may take too; a PATCH to paid that finds nothing outstanding.
BeginWrite(w, status) ==
    /\ target[w] = NoStatus
    /\ invoice.status \notin Terminal \/ (invoice.status = "paid" /\ status = "void")
    /\ target' = [target EXCEPT ![w] = status]
    /\ UNCHANGED <<now, invoice, doNotChase, chases, request, planned, burnt, settled>>

\* updateInvoice, updateInvoiceStatus: by id, over whatever the status is by now, and
\* without a look at the chases.
WriteStatus(w) ==
    /\ target[w] # NoStatus
    /\ invoice' = [invoice EXCEPT !.status = target[w]]
    /\ target' = [target EXCEPT ![w] = NoStatus]
    /\ settled' = FALSE
    /\ UNCHANGED <<now, doNotChase, chases, request, planned, burnt>>

\* PATCH do-not-chase
SetDoNotChase(value) ==
    /\ doNotChase' = value
    /\ UNCHANGED <<now, invoice, chases, request, target, planned, burnt, settled>>

Elapse ==
    /\ now < LastTick
    /\ now' = now + 1
    /\ UNCHANGED <<doNotChase, invoice, chases, request, target, planned, burnt, settled>>

-----------------------------------------------------------------------------
SendStep(r) ==
    \/ Send(r) \/ BulkSend(r) \/ Stamp(r) \/ Claim(r) \/ SlotTaken(r) \/ Insert(r) \/ GiveUp(r)

Next ==
    \/ \E r \in Requests : SendStep(r)
    \/ \E w \in Writers : WriteStatus(w) \/ \E status \in Statuses : BeginWrite(w, status)
    \/ Pay \/ Elapse
    \/ \E value \in BOOLEAN : SetDoNotChase(value)

Spec == Init /\ [][Next]_vars

-----------------------------------------------------------------------------
(* Properties *)

\* Rows, clock and sends have their types.
TypeOK ==
    /\ now \in Time
    /\ invoice \in Invoice
    /\ doNotChase \in BOOLEAN
    /\ chases \subseteq Chase
    /\ request \in [Requests -> Local]
    /\ target \in [Writers -> Statuses \cup {NoStatus}]
    /\ planned \in BOOLEAN /\ burnt \in BOOLEAN /\ settled \in BOOLEAN

\* Double clicks and bulk sends that run together never chase the customer twice
\* in a moment: the times of two chases are further apart than the lockout.
ChasesSpaced ==
    \A c, d \in chases : c # d =>
        c.sentAt < d.sentAt - Lockout \/ d.sentAt < c.sentAt - Lockout

\* The slot tells of the chase that was sent last, but for a send that is between
\* the two writes or died there.
SlotTellsLastChase ==
    burnt \/ (\E r \in Requests : request[r].step = "insert")
    \/ IF chases = {} THEN invoice.last = Never /\ invoice.level = 0
       ELSE \E c \in chases :
              /\ invoice.last = c.sentAt /\ invoice.level = c.level
              /\ \A d \in chases : d.sentAt <= c.sentAt

\* As long as no send overtakes another and nobody asks for a level, chases climb:
\* each is of a higher level than all before it, so a customer gets each letter
\* once, and a bulk send keeps the days of the frequency from all of them.
PlannedChasesClimb ==
    planned => \A c, d \in chases : c.sentAt < d.sentAt =>
        /\ c.level < d.level
        /\ d.kind = "bulk" => Day(d.sentAt) - Day(c.sentAt) >= Frequency

\* A payment that settles the invoice puts its date on every chase that came before
\* it: as long as the row is paid by that payment, all chases without the date are of
\* sends the payment fell into.  A status that PUT or PATCH writes stamps nothing.
PaymentStampsChases ==
    invoice.status = "paid" /\ settled => \A c \in chases : c.payment # "open"

=============================================================================
