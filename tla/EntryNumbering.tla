--------------------------- MODULE EntryNumbering ---------------------------
(***************************************************************************)
(* The numbers of the journal entries of one company and one day           *)
(* (JE-YYYYMMDD-NNN), and the database locks under which they are given    *)
(* out: storage.ts createJournalEntry, generateEntryNumber and the         *)
(* numbering part of recordInvoicePayment, over the connection pool of     *)
(* db.ts.                                                                  *)
(*                                                                         *)
(* generateEntryNumber locks, reads and unlocks with three calls to the    *)
(* pool, each on whatever connection is idle.  Its advisory lock belongs   *)
(* to the session of the connection that took it; the transaction of       *)
(* createJournalEntry takes the same lock, for as long as it lasts, on the *)
(* one connection it keeps.                                                *)
(***************************************************************************)
EXTENDS Integers, FiniteSets

CONSTANTS
    Callers,      \* calls that may be in progress at the same time
    Connections,  \* the connections of the pool (DB_POOL_MAX)
    NoConnection, \* what a call holds while it holds none
    MaxAttempts,  \* MAX_ATTEMPTS of createJournalEntry
    MaxEntryNumber,  \* BOUND: the highest number of the day
    MaxHolds      \* BOUND: how often a session may come to hold the lock

ASSUME EntryNumberingAssumption ==
    /\ NoConnection \notin Connections
    /\ MaxAttempts \in Nat /\ MaxEntryNumber \in Nat /\ MaxHolds \in Nat

VARIABLES
    numbers,  \* the numbers of the committed entries
    session,  \* how often the session of a connection holds the lock
    holder,   \* the connection whose transaction holds the lock
    call      \* the local state of every call

entryVars == <<numbers, session, holder, call>>

\* lock, lockWait, read, unlock: generateEntryNumber, called ahead of the
\* transaction; release: its finally block after a failure.
\* begin, txWait, txRead, insert: the transaction.
Steps == {"idle", "lock", "lockWait", "read", "unlock", "release",
          "begin", "txWait", "txRead", "insert"}

CallState == [step : Steps, conn : Connections \cup {NoConnection},
              number : 0..MaxEntryNumber, attempt : Nat]

At(step, attempt) == [step |-> step, conn |-> NoConnection, number |-> 0, attempt |-> attempt]

NoCall == At("idle", 0)

EntryInit ==
    /\ numbers = {}
    /\ session = [c \in Connections |-> 0]
    /\ holder = NoConnection
    /\ call = [r \in Callers |-> NoCall]

-----------------------------------------------------------------------------
Idle == {c \in Connections : \A r \in Callers : call[r].conn # c}

\* No other session has the lock: c is given it at once.
Free(c) ==
    /\ \A d \in Connections \ {c} : session[d] = 0
    /\ holder \in {NoConnection, c}

\* MAX over the entries of the day, plus one.
IsNext(n) == (\A m \in numbers : m < n) /\ (n = 1 \/ n - 1 \in numbers)

Goto(r, step, c) == call' = [call EXCEPT ![r].step = step, ![r].conn = c]

End(r) == call' = [call EXCEPT ![r] = NoCall]

-----------------------------------------------------------------------------
Active == {r \in Callers : call[r].step # "idle"}

\* The bounds leave every call that has begun its number and its hold.
WithinBounds ==
    /\ \A n \in numbers \cup {call[r].number : r \in Callers} : n + Cardinality(Active) < MaxEntryNumber
    /\ \A c \in Connections : session[c] + Cardinality(Active) < MaxHolds

\* A handler calls generateEntryNumber and then createJournalEntry, or records
\* a payment, whose transaction numbers its entry itself and is not retried.
StartCall(r) ==
    /\ call[r].step = "idle"
    /\ WithinBounds
    /\ \/ Goto(r, "lock", NoConnection)
       \/ call' = [call EXCEPT ![r] = At("begin", MaxAttempts)]
    /\ UNCHANGED <<numbers, session, holder>>

\* The pool hands out an idle connection, or gives up after connectionTimeoutMillis.
Checkout(r) ==
    /\ \/ \E c \in Idle :
             \/ call[r].step = "lock" /\ Goto(r, "lockWait", c)
             \/ call[r].step = "begin" /\ Goto(r, "txWait", c)
       \/ Idle = {} /\ call[r].step \in {"lock", "begin"} /\ End(r)
    /\ UNCHANGED <<numbers, session, holder>>

LockGranted(r) ==
    LET c == call[r].conn IN
    /\ call[r].step = "lockWait"
    /\ Free(c)
    /\ session' = [session EXCEPT ![c] = @ + 1]
    /\ Goto(r, "read", NoConnection)
    /\ UNCHANGED <<numbers, holder>>

\* Mutant: no statement_timeout.
Timeout_never(r) == FALSE

\* statement_timeout cancels a statement that waits for the lock.
Timeout(r) ==
    /\ call[r].step \in {"lockWait", "txWait"}
    /\ ~Free(call[r].conn)
    /\ End(r)
    /\ UNCHANGED <<numbers, session, holder>>

\* The number goes to the caller; without a connection the finally block runs.
Read(r) ==
    /\ call[r].step = "read"
    /\ \/ /\ Idle # {}
          /\ \E n \in 1..MaxEntryNumber :
                IsNext(n) /\ call' = [call EXCEPT ![r].step = "unlock", ![r].number = n]
       \/ Idle = {} /\ Goto(r, "release", NoConnection)
    /\ UNCHANGED <<numbers, session, holder>>

\* pg_advisory_unlock on some connection: it releases what that session holds,
\* and a failure is swallowed.
Unlock(r) ==
    /\ call[r].step \in {"unlock", "release"}
    /\ \/ \E c \in Idle : session' = [session EXCEPT ![c] = IF @ > 0 THEN @ - 1 ELSE 0]
       \/ Idle = {} /\ UNCHANGED session
    /\ IF call[r].step = "unlock" THEN Goto(r, "begin", NoConnection) ELSE End(r)
    /\ UNCHANGED <<numbers, holder>>

TxLockGranted(r) ==
    LET c == call[r].conn IN
    /\ call[r].step = "txWait"
    /\ Free(c)
    /\ holder' = c
    /\ Goto(r, "txRead", c)
    /\ UNCHANGED <<numbers, session>>

\* Mutant: the last number is not found (SUBSTRING with a text position).
TxRead_alwaysFirst(r) ==
    /\ call[r].step = "txRead"
    /\ call' = [call EXCEPT ![r].step = "insert", ![r].number = 1]
    /\ UNCHANGED <<numbers, session, holder>>

\* The number the caller read is overwritten.
TxRead(r) ==
    /\ call[r].step = "txRead"
    /\ \E n \in 1..MaxEntryNumber :
          IsNext(n) /\ call' = [call EXCEPT ![r].step = "insert", ![r].number = n]
    /\ UNCHANGED <<numbers, session, holder>>

\* The unique constraint on (company_id, entry_number) decides: commit, or roll
\* back and generate again, up to MaxAttempts times.
Insert(r) ==
    LET n == call[r].number IN
    /\ call[r].step = "insert"
    /\ holder' = NoConnection
    /\ \/ /\ n \notin numbers
          /\ numbers' = numbers \cup {n}
          /\ End(r)
       \/ /\ n \in numbers
          /\ IF call[r].attempt >= MaxAttempts THEN End(r)
             ELSE call' = [call EXCEPT ![r] = At("lock", call[r].attempt + 1)]
          /\ UNCHANGED numbers
    /\ UNCHANGED session

\* Any failure in the transaction rolls it back.
Rollback(r) ==
    /\ call[r].step \in {"txRead", "insert"}
    /\ holder' = NoConnection
    /\ End(r)
    /\ UNCHANGED <<numbers, session>>

\* DELETE /api/journal/:id takes a draft, and its number, away.
DeleteEntry(n) ==
    /\ numbers' = numbers \ {n}
    /\ UNCHANGED <<session, holder, call>>

\* The pool closes a connection that was idle for idleTimeoutMillis, and its
\* session ends with it.
CloseIdle(c) ==
    /\ c \in Idle
    /\ session' = [session EXCEPT ![c] = 0]
    /\ UNCHANGED <<numbers, holder, call>>

-----------------------------------------------------------------------------
Step(r) ==
    \/ Checkout(r) \/ LockGranted(r) \/ Timeout(r) \/ Read(r) \/ Unlock(r)
    \/ TxLockGranted(r) \/ TxRead(r) \/ Insert(r) \/ Rollback(r)

EntryNext ==
    \/ \E r \in Callers : StartCall(r) \/ Step(r)
    \/ \E n \in numbers : DeleteEntry(n)
    \/ \E c \in Connections : CloseIdle(c)

EntrySpec == EntryInit /\ [][EntryNext]_entryVars

\* The pool and the database answer or time out; nobody has to begin a call,
\* delete an entry or close a connection.
FairSpec == EntrySpec /\ \A r \in Callers : WF_entryVars(Step(r))

-----------------------------------------------------------------------------
EntryTypeOK ==
    /\ numbers \subseteq 1..MaxEntryNumber
    /\ session \in [Connections -> Nat]
    /\ holder \in Connections \cup {NoConnection}
    /\ call \in [Callers -> CallState]

\* Only one transaction at a time is between reading the last number and
\* inserting the next one, although every call may use any connection.
TxLockExclusive ==
    \A r, q \in Callers :
        call[r].step \in {"txRead", "insert"} /\ call[q].step \in {"txRead", "insert"} => r = q

\* No call comes to the insert with a number that is taken: the unique
\* constraint and the retries behind it are never needed.
NoCollision == \A r \in Callers : call[r].step = "insert" => call[r].number \notin numbers

\* A call ends, with its entry or with an error: nobody waits for ever for the
\* lock, for a connection, or in the retries.
EveryCallEnds == \A r \in Callers : call[r].step # "idle" ~> call[r].step = "idle"

\* The lock of generateEntryNumber is released when it exits (storage.ts:1647).
LockReleasedAtExit ==
    (\A r \in Callers : call[r].step = "idle") => \A c \in Connections : session[c] = 0
=============================================================================
