------------------------ MODULE GeneralLedger_proofs ------------------------
(***************************************************************************)
(* Proofs about what comes into the general ledger.                        *)
(*                                                                         *)
(* The numbers of journal entries, for any number of calls and any pool:   *)
(* the lock of a transaction lets one call number at a time, and the entry *)
(* numbers are collision-free.                                             *)
(*                                                                         *)
(* The suggestions of the AI and their reviews, for any number of lines,   *)
(* suggestions, entries, scans and reviews: types are kept; a suggestion   *)
(* that says it was decided on names a posted entry on the account that    *)
(* was decided, whatever crosses or dies; and on a line that no two        *)
(* processes were on at once a decision stands, and the ledger and the     *)
(* line follow it.                                                         *)
(*                                                                         *)
(* The month-end close, for any number of entries, closings and dates: a   *)
(* day is closed once, a sealed date is not closed, and in tidy books a    *)
(* close empties the month's accounts.                                     *)
(***************************************************************************)
EXTENDS EntryNumbering, SuggestionQueue, MonthEndClose, SumTheorems, TLAPS

(* The numbers of journal entries.                                           *)
USE EntryNumberingAssumption

\* The steps of a call that has a connection.
Connected == {"lockWait", "txWait", "txRead", "insert"}

Numbering == {"txRead", "insert"}

\* A connection serves one call, and the transaction that numbers is the one
\* of the connection that holds the lock.
ConnectionsAreExclusive ==
    /\ \A r \in Callers : call[r].step \in Connected => call[r].conn \in Connections
    /\ \A r, q \in Callers : call[r].conn = call[q].conn /\ call[r].conn # NoConnection => r = q

NumberingHasTheLock ==
    \A r \in Callers : call[r].step \in Numbering => call[r].conn = holder

\* An entry comes to the insert with a number.
InsertsAreNumbered == \A r \in Callers : call[r].step = "insert" => call[r].number > 0

EntryInv == EntryTypeOK /\ ConnectionsAreExclusive /\ NumberingHasTheLock /\ InsertsAreNumbered
        /\ NoCollision

-----------------------------------------------------------------------------
LEMMA EntryInitIInv == EntryInit => EntryInv
BY DEF EntryInit, EntryInv, EntryTypeOK, ConnectionsAreExclusive, NumberingHasTheLock, NoCollision, InsertsAreNumbered,
       NoCall, At, CallState, Steps, Connected, Numbering

\* The lock is on one connection, and a connection serves one call.
LEMMA OneNumbers == EntryInv => TxLockExclusive
BY DEF EntryInv, EntryTypeOK, ConnectionsAreExclusive, NumberingHasTheLock, TxLockExclusive,
       CallState, Connected, Numbering

\* What an update of one call has to respect.
LEMMA CallUpdate ==
  ASSUME EntryInv, NEW r \in Callers, NEW local \in CallState,
         call' = [call EXCEPT ![r] = local],
         session' = session,
         numbers' \subseteq 1..MaxEntryNumber,
         holder' \in Connections \cup {NoConnection},
         local.step \in Connected => local.conn \in Connections,
         local.conn \in {call[r].conn, NoConnection},
         local.step \in Numbering => local.conn = holder',
         local.step = "insert" => local.number > 0 /\ local.number \notin numbers',
         \A q \in Callers \ {r} : call[q].step \in Numbering =>
            call[q].conn = holder' /\ numbers' = numbers
  PROVE  EntryInv'
<1> USE DEF EntryInv
<1>1. call' \in [Callers -> CallState] /\ call'[r] = local
  BY DEF EntryTypeOK
<1>2. \A q \in Callers \ {r} : call'[q] = call[q]
  BY DEF EntryTypeOK
<1>3. EntryTypeOK'
  BY <1>1 DEF EntryTypeOK
<1>4. ConnectionsAreExclusive'
  BY <1>1, <1>2 DEF ConnectionsAreExclusive
<1>5. NumberingHasTheLock' /\ InsertsAreNumbered'
  BY <1>1, <1>2 DEF NumberingHasTheLock, InsertsAreNumbered
<1>6. NoCollision'
  BY <1>1, <1>2 DEF NoCollision, Numbering
<1> QED
  BY <1>3, <1>4, <1>5, <1>6

LEMMA BeginIInv == ASSUME EntryInv, NEW r \in Callers, StartCall(r) PROVE EntryInv'
<1>0. call[r].number \in 0..MaxEntryNumber /\ call[r].attempt \in Nat /\ call \in [Callers -> CallState]
  BY DEF EntryInv, EntryTypeOK, CallState
<1>1. CASE Goto(r, "lock", NoConnection)
  <2> DEFINE next == [call[r] EXCEPT !.step = "lock", !.conn = NoConnection]
  <2>1. call' = [call EXCEPT ![r] = next]
    BY <1>0, <1>1 DEF Goto
  <2>2. next \in CallState /\ next.step = "lock" /\ next.conn = NoConnection
    BY <1>0 DEF CallState, Steps
  <2> HIDE DEF next
  <2> QED
    BY <2>1, <2>2, CallUpdate DEF StartCall, EntryInv, EntryTypeOK, NumberingHasTheLock, Connected, Numbering
<1>2. CASE call' = [call EXCEPT ![r] = At("begin", MaxAttempts)]
  <2> DEFINE next == At("begin", MaxAttempts)
  <2>0. next = [step |-> "begin", conn |-> NoConnection, number |-> 0, attempt |-> MaxAttempts]
    BY DEF At
  <2>1. next \in CallState /\ next.step = "begin" /\ next.conn = NoConnection
    BY <2>0 DEF CallState, Steps
  <2> HIDE DEF next
  <2> QED
    BY <1>2, <2>1, CallUpdate DEF next, StartCall, EntryInv, EntryTypeOK, NumberingHasTheLock, Connected, Numbering
<1> QED BY <1>1, <1>2 DEF StartCall

LEMMA CheckoutIInv == ASSUME EntryInv, NEW r \in Callers, Checkout(r) PROVE EntryInv'
<1>1. CASE \E c \in Idle :
             \/ call[r].step = "lock" /\ Goto(r, "lockWait", c)
             \/ call[r].step = "begin" /\ Goto(r, "txWait", c)
  BY <1>1 DEF EntryInv, EntryTypeOK, ConnectionsAreExclusive, NumberingHasTheLock, NoCollision, InsertsAreNumbered,
       NoCall, At, CallState, Steps, Connected, Numbering, Checkout, Goto, Idle
<1>2. CASE End(r)
  BY <1>2 DEF EntryInv, EntryTypeOK, ConnectionsAreExclusive, NumberingHasTheLock, NoCollision, InsertsAreNumbered,
       NoCall, At, CallState, Steps, Connected, Numbering, Checkout, End
<1> QED BY <1>1, <1>2 DEF Checkout

LEMMA LockGrantedIInv == ASSUME EntryInv, NEW r \in Callers, LockGranted(r) PROVE EntryInv'
BY DEF EntryInv, EntryTypeOK, ConnectionsAreExclusive, NumberingHasTheLock, NoCollision, InsertsAreNumbered,
       NoCall, At, CallState, Steps, Connected, Numbering, LockGranted, Goto

LEMMA TimeoutIInv == ASSUME EntryInv, NEW r \in Callers, Timeout(r) PROVE EntryInv'
BY DEF EntryInv, EntryTypeOK, ConnectionsAreExclusive, NumberingHasTheLock, NoCollision, InsertsAreNumbered,
       NoCall, At, CallState, Steps, Connected, Numbering, Timeout, End

LEMMA ReadIInv == ASSUME EntryInv, NEW r \in Callers, Read(r) PROVE EntryInv'
<1>0. /\ call[r] \in CallState /\ call \in [Callers -> CallState] /\ call[r].conn \in Connections \cup {NoConnection}
      /\ UNCHANGED <<numbers, session, holder>> /\ numbers \subseteq 1..MaxEntryNumber
      /\ holder \in Connections \cup {NoConnection}
  BY DEF EntryInv, EntryTypeOK, CallState, Read
<1>1. \A q \in Callers \ {r} : call[q].step \in Numbering => call[q].conn = holder
  BY DEF EntryInv, NumberingHasTheLock
<1>2. ASSUME NEW n \in 1..MaxEntryNumber, call' = [call EXCEPT ![r].step = "unlock", ![r].number = n]
      PROVE  EntryInv'
  <2> DEFINE next == [call[r] EXCEPT !.step = "unlock", !.number = n]
  <2>1. call' = [call EXCEPT ![r] = next]
    BY <1>0, <1>2
  <2>2. next \in CallState /\ next.step = "unlock" /\ next.conn = call[r].conn
    <3>1. n \in 0..MaxEntryNumber
      BY DEF EntryInv, EntryTypeOK
    <3> QED BY <1>0, <3>1 DEF CallState, Steps
  <2> HIDE DEF next
  <2> QED BY <1>0, <1>1, <2>1, <2>2, CallUpdate DEF Connected, Numbering
<1>3. CASE Goto(r, "release", NoConnection)
  <2> DEFINE next == [call[r] EXCEPT !.step = "release", !.conn = NoConnection]
  <2>1. call' = [call EXCEPT ![r] = next] /\ next \in CallState /\ next.step = "release" /\ next.conn = NoConnection
    BY <1>0, <1>3 DEF Goto, CallState, Steps
  <2> HIDE DEF next
  <2> QED BY <1>0, <1>1, <2>1, CallUpdate DEF Connected, Numbering
<1> QED BY <1>2, <1>3 DEF Read

LEMMA UnlockIInv == ASSUME EntryInv, NEW r \in Callers, Unlock(r) PROVE EntryInv'
<1>1. session' \in [Connections -> Nat]
  BY DEF EntryInv, EntryTypeOK, Unlock
<1>2. CASE Goto(r, "begin", NoConnection)
  BY <1>1, <1>2 DEF EntryInv, EntryTypeOK, ConnectionsAreExclusive, NumberingHasTheLock, NoCollision, InsertsAreNumbered,
       NoCall, At, CallState, Steps, Connected, Numbering, Unlock, Goto
<1>3. CASE End(r)
  BY <1>1, <1>3 DEF EntryInv, EntryTypeOK, ConnectionsAreExclusive, NumberingHasTheLock, NoCollision, InsertsAreNumbered,
       NoCall, At, CallState, Steps, Connected, Numbering, Unlock, End
<1> QED BY <1>2, <1>3 DEF Unlock

\* The lock is free: no transaction was numbering.
LEMMA TxLockGrantedIInv == ASSUME EntryInv, NEW r \in Callers, TxLockGranted(r) PROVE EntryInv'
<1> DEFINE next == [call[r] EXCEPT !.step = "txRead", !.conn = call[r].conn]
<1>1. call[r].conn \in Connections /\ call[r] \in CallState /\ call \in [Callers -> CallState]
  BY DEF EntryInv, EntryTypeOK, ConnectionsAreExclusive, Connected, TxLockGranted
<1>2. call' = [call EXCEPT ![r] = next] /\ next \in CallState /\ next.step = "txRead"
      /\ next.conn = call[r].conn
  BY <1>1 DEF CallState, Steps, TxLockGranted, Goto
<1>3. \A q \in Callers \ {r} : call[q].step \notin Numbering
  BY <1>1 DEF EntryInv, ConnectionsAreExclusive, NumberingHasTheLock, Connected, Numbering,
              TxLockGranted, Free
<1> HIDE DEF next
<1> QED
  BY <1>1, <1>2, <1>3, CallUpdate DEF TxLockGranted, EntryInv, EntryTypeOK, Connected, Numbering

\* The number read is above every number of the day.
LEMMA TxReadIInv == ASSUME EntryInv, NEW r \in Callers, TxRead(r) PROVE EntryInv'
<1> PICK n \in 1..MaxEntryNumber :
      IsNext(n) /\ call' = [call EXCEPT ![r].step = "insert", ![r].number = n]
  BY DEF TxRead
<1> DEFINE next == [call[r] EXCEPT !.step = "insert", !.number = n]
<1>1. n \notin numbers /\ n > 0 /\ n \in 0..MaxEntryNumber
  BY DEF EntryInv, EntryTypeOK, IsNext
<1>2. call[r] \in CallState /\ call[r].conn \in Connections /\ call[r].conn = holder
  BY DEF EntryInv, EntryTypeOK, ConnectionsAreExclusive, NumberingHasTheLock, Connected, Numbering, TxRead
<1>3. call' = [call EXCEPT ![r] = next] /\ next \in CallState /\ next.step = "insert"
      /\ next.conn = call[r].conn /\ next.number = n
  BY <1>1, <1>2 DEF CallState, Steps, EntryInv, EntryTypeOK
<1>4. numbers' = numbers /\ session' = session /\ holder' = holder
  BY DEF TxRead
<1>5. \A q \in Callers \ {r} : call[q].step \in Numbering => call[q].conn = holder
  BY DEF EntryInv, NumberingHasTheLock
<1>6. numbers \subseteq 1..MaxEntryNumber /\ holder \in Connections \cup {NoConnection}
  BY DEF EntryInv, EntryTypeOK
<1> HIDE DEF next
<1> QED
  BY <1>1, <1>2, <1>3, <1>4, <1>5, <1>6, CallUpdate

\* Nobody else is at the insert.
LEMMA InsertIInv == ASSUME EntryInv, NEW r \in Callers, Insert(r) PROVE EntryInv'
<1>1. TxLockExclusive
  BY OneNumbers
<1>2. /\ call[r].number \notin numbers
      /\ call[r].number \in 1..MaxEntryNumber
  BY DEF EntryInv, EntryTypeOK, CallState, NoCollision, InsertsAreNumbered, Insert
<1>3. call' = [call EXCEPT ![r] = NoCall] /\ numbers' = numbers \cup {call[r].number}
  BY <1>2 DEF Insert, End
<1>4. NoCall \in CallState /\ NoCall.step = "idle" /\ NoCall.conn = NoConnection
  BY DEF NoCall, At, CallState, Steps
<1>5. \A q \in Callers \ {r} : call[q].step \notin Numbering
  BY <1>1 DEF TxLockExclusive, Insert, Numbering
<1> QED
  BY <1>2, <1>3, <1>4, <1>5, CallUpdate DEF Insert, EntryInv, EntryTypeOK, Connected, Numbering

LEMMA RollbackIInv == ASSUME EntryInv, NEW r \in Callers, Rollback(r) PROVE EntryInv'
<1>1. TxLockExclusive
  BY OneNumbers
<1> QED
  BY <1>1 DEF EntryInv, EntryTypeOK, ConnectionsAreExclusive, NumberingHasTheLock, NoCollision,
       InsertsAreNumbered, NoCall, At, CallState, Steps, Connected, Numbering, Rollback, End,
       TxLockExclusive

LEMMA EnvironmentIInv ==
  ASSUME EntryInv,
         \/ \E n \in numbers : DeleteEntry(n)
         \/ \E c \in Connections : CloseIdle(c)
  PROVE  EntryInv'
<1>1. numbers' \subseteq numbers /\ holder' = holder /\ call' = call
  BY DEF DeleteEntry, CloseIdle
<1>2. session' \in [Connections -> Nat]
  BY DEF EntryInv, EntryTypeOK, DeleteEntry, CloseIdle
<1> QED
  BY <1>1, <1>2 DEF EntryInv, EntryTypeOK, ConnectionsAreExclusive, NumberingHasTheLock, NoCollision,
                    InsertsAreNumbered

LEMMA EntryNextIInv == EntryInv /\ [EntryNext]_entryVars => EntryInv'
<1> SUFFICES ASSUME EntryInv, [EntryNext]_entryVars PROVE EntryInv'
  OBVIOUS
<1>1. ASSUME NEW r \in Callers, StartCall(r) \/ Step(r) PROVE EntryInv'
  BY <1>1, BeginIInv, CheckoutIInv, LockGrantedIInv, TimeoutIInv, ReadIInv, UnlockIInv,
     TxLockGrantedIInv, TxReadIInv, InsertIInv, RollbackIInv DEF Step
<1>2. CASE UNCHANGED entryVars
  BY <1>2 DEF entryVars, EntryInv, EntryTypeOK, ConnectionsAreExclusive, NumberingHasTheLock, NoCollision,
              InsertsAreNumbered
<1> QED
  BY <1>1, <1>2, EnvironmentIInv DEF EntryNext

LEMMA EntryInvariance == EntrySpec => []EntryInv
BY EntryInitIInv, EntryNextIInv, PTL DEF EntrySpec

-----------------------------------------------------------------------------
\* The variables keep their types; in particular every committed entry of the
\* day has a number of its own from 1 on.
THEOREM EntryTypeCorrect == EntrySpec => []EntryTypeOK
<1>1. EntryInv => EntryTypeOK
  BY DEF EntryInv
<1> QED
  BY <1>1, EntryInvariance, PTL

\* Whatever the size of the pool and however many calls compete for it, the
\* advisory lock of the transaction lets one call at a time read the last
\* number and insert the next.
THEOREM OneTransactionNumbers == EntrySpec => []TxLockExclusive
BY OneNumbers, EntryInvariance, PTL

\* The number of createJournalEntry is free when it is inserted: its retry on
\* the unique constraint is never taken.
THEOREM NumbersNeverCollide == EntrySpec => []NoCollision
<1>1. EntryInv => NoCollision
  BY DEF EntryInv
<1> QED
  BY <1>1, EntryInvariance, PTL

-----------------------------------------------------------------------------
(* The suggestions of the AI and their reviews.                              *)
USE QueueAssumption

\* e is an entry of line l, on this account unless a PUT has rewritten it.
IsEntryOf(e, l, account) ==
    /\ e \in Entries /\ entry[e].state # "absent" /\ entry[e].line = l
    /\ entry[e].account \in {account, "rewritten"}

\* A PUT may also take an entry back that it has read as a draft.
OnTheBooks(e) == entry[e].state = "posted" \/ entry[e].account = "rewritten"

Account(verdict) == IF verdict = "accepted" THEN "suggested" ELSE "chosen"

\* A suggestion that can still be reviewed names no entry, or a draft of its own.
ItemOK(i) ==
    /\ item[i].state \in {"accepted", "corrected"} =>
          IsEntryOf(item[i].entry, item[i].line, Account(item[i].state)) /\ OnTheBooks(item[i].entry)
    /\ Reviewable(i) /\ item[i].entry # None => IsEntryOf(item[i].entry, item[i].line, "suggested")

ScanOK(s) ==
    /\ \A i \in scan[s].items : item[i].state # "absent"
    /\ scan[s].step = "mark" =>
          /\ item[scan[s].item].state # "absent"
          /\ IsEntryOf(scan[s].entry, item[scan[s].item].line, "suggested")

\* A review remembers a suggestion of its line, and an entry to match its verdict.
RequestOK(r) ==
    LET local == request[r] IN
    /\ local.step \in {"insert", "post", "setItem"} /\ local.verdict # "manual" =>
          item[local.item].state # "absent" /\ item[local.item].line = local.line
    /\ local.step = "insert" => local.verdict # "rejected"
    /\ local.step = "post" => local.verdict = "accepted" /\ IsEntryOf(local.entry, local.line, "suggested")
    /\ local.step = "setItem" => local.verdict # "manual"
    /\ local.step = "setItem" /\ local.verdict # "rejected" =>
          IsEntryOf(local.entry, local.line, Account(local.verdict)) /\ OnTheBooks(local.entry)
    /\ local.step = "rewrite" => local.entry \in Entries

QueueInv ==
    /\ \A i \in Items : ItemOK(i)
    /\ \A s \in Scans : ScanOK(s)
    /\ \A r \in Requests : RequestOK(r)

\* Only a PUT takes an entry back or gives it other lines; rows keep what they are about.
Grows ==
    /\ \A e \in Entries : entry[e].state # "absent" =>
          /\ entry'[e].state # "absent" /\ entry'[e].line = entry[e].line
          /\ entry'[e].account \in {entry[e].account, "rewritten"}
          /\ entry[e].state = "posted" => entry'[e].state = "posted" \/ entry'[e].account = "rewritten"
    /\ \A i \in Items : item[i].state # "absent" =>
          item'[i].state # "absent" /\ item'[i].line = item[i].line

-----------------------------------------------------------------------------
LEMMA RestType ==
    /\ AnyLine \in Lines /\ AnyItem \in Items /\ NoItem \in ItemRow /\ NoEntry \in EntryRow
    /\ ScanRests \in ScanState /\ ScanRests.step = "idle" /\ ScanRests.items = {}
    /\ Resting \in RequestState /\ Resting.step = "idle"
<1>1. AnyLine \in Lines /\ AnyItem \in Items
  BY DEF AnyLine, AnyItem
<1> QED BY <1>1 DEF NoItem, NoEntry, ScanRests, Resting, ItemRow, EntryRow, ScanState, RequestState

LEMMA InitType == Init => TypeOK
<1>1. [state |-> "open", booked |-> None] \in LineRow
  BY DEF LineRow
<1> QED BY <1>1, RestType DEF Init, TypeOK

\* Meeting and tearing only mark lines.
LEMMA PastType ==
    ASSUME TypeOK,
           \/ UNCHANGED past \/ (\E S : Tears(S)) \/ \E p, S : Meets(p, S)
    PROVE  past' \in [Lines -> {"clean", "torn", "crossed"}]
BY DEF TypeOK, Tears, Meets

LEMMA ScanType ==
    ASSUME TypeOK, NEW s \in Scans, ScanStep(s)
    PROVE  TypeOK'
<1> USE DEF TypeOK
<1>1. scan[s] \in ScanState
  OBVIOUS
<1>2. CASE ScanBegin(s)
  <2>1. Unqueued \in SUBSET Lines
    BY DEF Unqueued
  <2>2. scan' \in [Scans -> ScanState]
    <3>1. [scan[s] EXCEPT !.step = "classify", !.lines = Unqueued] \in ScanState
      BY <1>1, <2>1 DEF ScanState
    <3>2. scan' = [scan EXCEPT ![s] = [scan[s] EXCEPT !.step = "classify", !.lines = Unqueued]]
      BY <1>2 DEF ScanBegin
    <3> QED BY <3>1, <3>2
  <2>3. past' \in [Lines -> {"clean", "torn", "crossed"}]
    BY <1>2, PastType DEF ScanBegin
  <2> QED BY <1>2, <2>2, <2>3 DEF ScanBegin, stored
<1>3. CASE ListSure(s)
  <2>1. Sure \in SUBSET Items
    BY DEF Sure
  <2>2. scan' \in [Scans -> ScanState]
    <3>1. [scan[s] EXCEPT !.step = "draft", !.items = Sure] \in ScanState
      BY <1>1, <2>1 DEF ScanState
    <3>2. scan' = [scan EXCEPT ![s] = [scan[s] EXCEPT !.step = "draft", !.items = Sure]]
      BY <1>3 DEF ListSure
    <3> QED BY <3>1, <3>2
  <2>3. past' \in [Lines -> {"clean", "torn", "crossed"}]
    BY <1>3, PastType DEF ListSure
  <2> QED BY <1>3, <2>2, <2>3 DEF ListSure, stored
<1>4. CASE ScanEnd(s)
  <2>1. past' \in [Lines -> {"clean", "torn", "crossed"}]
    BY <1>4, PastType DEF ScanEnd
  <2> QED BY <1>4, <2>1, RestType DEF ScanEnd, stored
<1>5. ASSUME NEW i \in Items, NEW l \in Lines, Classify(s, l, i) PROVE TypeOK'
  <2>1. \A advice \in {"none", "some", "sure"} :
           [NoItem EXCEPT !.state = "pending_review", !.line = l, !.advice = advice] \in ItemRow
    BY RestType DEF ItemRow
  <2>2. [scan[s] EXCEPT !.lines = @ \ {l}] \in ScanState
    BY <1>1 DEF ScanState
  <2>3. scan' = [scan EXCEPT ![s] = [scan[s] EXCEPT !.lines = @ \ {l}]]
    BY <1>5 DEF Classify
  <2> QED BY <1>5, <2>1, <2>2, <2>3 DEF Classify
<1>6. ASSUME NEW i \in Items, NEW e \in Entries, Draft(s, i, e) PROVE TypeOK'
  <2>1. [state |-> "draft", line |-> item[i].line, account |-> "suggested"] \in EntryRow
    BY DEF EntryRow, ItemRow
  <2>2. [scan[s] EXCEPT !.step = "mark", !.item = i, !.entry = e] \in ScanState
    BY <1>1 DEF ScanState
  <2>3. scan' = [scan EXCEPT ![s] = [scan[s] EXCEPT !.step = "mark", !.item = i, !.entry = e]]
    BY <1>6 DEF Draft
  <2> QED BY <1>6, <2>1, <2>2, <2>3 DEF Draft
<1>7. ASSUME NEW i \in Items,
             scan' = [scan EXCEPT ![s].step = "draft", ![s].items = @ \ {i},
                                  ![s].item = AnyItem, ![s].entry = None]
      PROVE  scan' \in [Scans -> ScanState]
  <2> DEFINE new == [scan[s] EXCEPT !.step = "draft", !.items = @ \ {i}, !.item = AnyItem,
                                    !.entry = None]
  <2>1. new \in ScanState
    BY <1>1, RestType DEF ScanState
  <2>2. scan' = [scan EXCEPT ![s] = new]
    BY <1>7
  <2> HIDE DEF new
  <2> QED BY <2>1, <2>2
<1>8. ASSUME NEW i \in Items, Mark(s, i) PROVE TypeOK'
  <2>1. [item[i] EXCEPT !.state = "auto_posted", !.entry = scan[s].entry] \in ItemRow
    <3>1. item[i] \in ItemRow
      OBVIOUS
    <3> QED BY <1>1, <3>1 DEF ItemRow, ScanState
  <2>2. item' = [item EXCEPT ![i] = [item[i] EXCEPT !.state = "auto_posted", !.entry = scan[s].entry]]
    BY <1>8 DEF Mark
  <2>3. item' \in [Items -> ItemRow]
    BY <2>1, <2>2
  <2> QED BY <1>7, <1>8, <2>3 DEF Mark
<1>9. ASSUME NEW i \in Items, SkipItem(s, i) PROVE TypeOK'
  <2>1. past' \in [Lines -> {"clean", "torn", "crossed"}]
    BY <1>9, PastType DEF SkipItem
  <2> QED BY <1>7, <1>9, <2>1 DEF SkipItem, stored
<1> QED BY <1>2, <1>3, <1>4, <1>5, <1>6, <1>8, <1>9 DEF ScanStep

LEMMA ReviewType ==
    ASSUME TypeOK, NEW r \in Requests, NEW i \in Items, NEW step \in {"insert", "post", "setItem"},
           NEW verdict \in {"accepted", "corrected", "rejected"}, Review(r, i, verdict, step)
    PROVE  TypeOK'
<1> USE DEF TypeOK
<1>1. [step |-> step, line |-> item[i].line, item |-> i, verdict |-> verdict,
       entry |-> item[i].entry] \in RequestState
  BY DEF RequestState, ItemRow
<1>2. past' \in [Lines -> {"clean", "torn", "crossed"}]
  BY PastType DEF Review, Begin
<1> QED BY <1>1, <1>2 DEF Review, Begin, stored

LEMMA RequestType ==
    ASSUME TypeOK, NEW r \in Requests, RequestOK(r), RequestStep(r)
    PROVE  TypeOK'
<1> USE DEF TypeOK
<1>1. request[r] \in RequestState
  OBVIOUS
<1>2. ASSUME NEW i \in Items, Accept(r, i) \/ Correct(r, i) \/ Reject(r, i) PROVE TypeOK'
  BY <1>2, ReviewType DEF Accept, Correct, Reject
<1>3. ASSUME NEW l \in Lines, Book(r, l) PROVE TypeOK'
  <2>1. [Resting EXCEPT !.step = "insert", !.line = l] \in RequestState
    BY RestType DEF RequestState
  <2>2. past' \in [Lines -> {"clean", "torn", "crossed"}]
    BY <1>3, PastType DEF Book, Begin
  <2> QED BY <1>3, <2>1, <2>2 DEF Book, Begin, stored
<1>4. ASSUME NEW e \in Entries, InsertPosted(r, e) PROVE TypeOK'
  <2> DEFINE new == [request[r] EXCEPT !.entry = e,
                        !.step = IF request[r].verdict = "manual" THEN "setLine" ELSE "setItem"]
             row == [state |-> "posted", line |-> request[r].line,
                     account |-> IF request[r].verdict = "accepted" THEN "suggested" ELSE "chosen"]
  <2>1. new \in RequestState /\ row \in EntryRow
    BY <1>1 DEF RequestState, EntryRow
  <2>2. request' = [request EXCEPT ![r] = new] /\ entry' = [entry EXCEPT ![e] = row]
    BY <1>4 DEF InsertPosted
  <2> HIDE DEF new, row
  <2>3. request' \in [Requests -> RequestState] /\ entry' \in [Entries -> EntryRow]
    BY <2>1, <2>2
  <2> QED BY <1>4, <2>3 DEF InsertPosted
<1>5. CASE PostDraft(r)
  <2>1. [request[r] EXCEPT !.step = "setItem"] \in RequestState
    BY <1>1 DEF RequestState
  <2>2. request' = [request EXCEPT ![r] = [request[r] EXCEPT !.step = "setItem"]]
    BY <1>5 DEF PostDraft
  <2>3. entry' \in [Entries -> EntryRow]
    BY <1>5 DEF PostDraft, EntryRow
  <2> QED BY <1>5, <2>1, <2>2, <2>3 DEF PostDraft
<1>6. CASE SetItem(r)
  <2> DEFINE i == request[r].item
             new == IF request[r].verdict = "rejected" THEN Resting
                    ELSE [request[r] EXCEPT !.step = "setLine"]
             row == [item[i] EXCEPT !.state = request[r].verdict,
                        !.entry = IF request[r].verdict = "rejected" THEN @ ELSE request[r].entry]
  <2>0. i \in Items /\ request[r].entry \in Entries \cup {None} /\ item[i] \in ItemRow
    BY <1>1 DEF RequestState
  <2>1. new \in RequestState
    BY <1>1, RestType DEF RequestState
  <2>2. request[r].verdict # "manual" => row \in ItemRow
    BY <1>1, <2>0 DEF RequestState, ItemRow
  <2>3. request' = [request EXCEPT ![r] = new] /\ item' = [item EXCEPT ![i] = row]
    BY <1>6 DEF SetItem
  <2>4. request[r].verdict # "manual"
    BY <1>6 DEF SetItem, RequestOK
  <2> HIDE DEF new, row
  <2> QED BY <1>6, <2>0, <2>1, <2>2, <2>3, <2>4 DEF SetItem
<1>7. CASE SetLine(r)
  <2>1. [state |-> "reconciled", booked |-> request[r].entry] \in LineRow
    BY <1>1 DEF RequestState, LineRow
  <2> QED BY <1>7, <2>1, RestType DEF SetLine
<1>8. CASE GiveUp(r)
  <2>1. past' \in [Lines -> {"clean", "torn", "crossed"}]
    BY <1>8, PastType DEF GiveUp
  <2> QED BY <1>8, <2>1, RestType DEF GiveUp, stored
<1>9. ASSUME NEW e \in Entries, RewriteBegin(r, e) PROVE TypeOK'
  <2>1. [Resting EXCEPT !.step = "rewrite", !.line = entry[e].line, !.entry = e] \in RequestState
    BY RestType DEF RequestState, EntryRow
  <2> QED BY <1>9, <2>1 DEF RewriteBegin, stored
<1>10. CASE Rewrite(r)
  <2>1. PICK e \in Entries : e = request[r].entry
    BY <1>10 DEF Rewrite, RequestOK
  <2>2. PICK status \in {entry[e].state, "draft", "posted"} :
           entry' = [entry EXCEPT ![e] = [entry[e] EXCEPT !.state = status, !.account = "rewritten"]]
    BY <1>10, <2>1 DEF Rewrite
  <2>3. [entry[e] EXCEPT !.state = status, !.account = "rewritten"] \in EntryRow
        /\ entry[e].line \in Lines
    <3>1. entry[e] \in EntryRow
      BY <2>1
    <3> QED BY <3>1 DEF EntryRow
  <2>4. entry' \in [Entries -> EntryRow]
    BY <2>2, <2>3
  <2> QED BY <1>10, <2>1, <2>3, <2>4, RestType DEF Rewrite
<1> QED BY <1>2, <1>3, <1>4, <1>5, <1>6, <1>7, <1>8, <1>9, <1>10 DEF RequestStep

\* What a PUT writes, and the line it marks.
LEMMA RewriteWrites ==
    ASSUME TypeOK, NEW r \in Requests, RequestOK(r), Rewrite(r)
    PROVE  \E e \in Entries :
              /\ \A f \in Entries \ {e} : entry'[f] = entry[f]
              /\ entry'[e].state \in {entry[e].state, "draft", "posted"}
              /\ entry'[e].line = entry[e].line /\ entry'[e].account = "rewritten"
              /\ byHand' = byHand \cup {entry[e].line}
              /\ request'[r] = Resting /\ Grows
<1>1. PICK e \in Entries : e = request[r].entry
  BY DEF Rewrite, RequestOK
<1>2. PICK status \in {entry[e].state, "draft", "posted"} :
         entry' = [entry EXCEPT ![e] = [entry[e] EXCEPT !.state = status, !.account = "rewritten"]]
  BY <1>1 DEF Rewrite
<1>3. entry[e] \in EntryRow
  BY <1>1 DEF TypeOK
<1>4. /\ \A f \in Entries \ {e} : entry'[f] = entry[f]
      /\ entry'[e].state \in {entry[e].state, "draft", "posted"}
      /\ entry'[e].line = entry[e].line /\ entry'[e].account = "rewritten"
  BY <1>1, <1>2, <1>3 DEF TypeOK, EntryRow
<1>5. item' = item /\ byHand' = byHand \cup {entry[e].line} /\ request'[r] = Resting
  BY <1>1 DEF Rewrite, TypeOK
<1>6. Grows
  BY <1>4, <1>5 DEF Grows
<1> QED BY <1>1, <1>4, <1>5, <1>6

LEMMA TypeStep == TypeOK /\ QueueInv /\ [Next]_vars => TypeOK'
<1> SUFFICES ASSUME TypeOK, QueueInv, [Next]_vars PROVE TypeOK'
  OBVIOUS
<1>1. ASSUME NEW l \in Lines, NEW e \in Entries, Match(l, e) PROVE TypeOK'
  BY <1>1 DEF Match, TypeOK, LineRow
<1>2. ASSUME NEW l \in Lines, Unmatch(l) PROVE TypeOK'
  BY <1>2 DEF Unmatch, TypeOK, LineRow
<1>3. ASSUME NEW e \in Entries, PostByHand(e) PROVE TypeOK'
  <2>1. entry[e] \in EntryRow
    BY DEF TypeOK
  <2>2. [entry[e] EXCEPT !.state = "posted"] \in EntryRow /\ entry[e].line \in Lines
    BY <2>1 DEF EntryRow
  <2> QED BY <1>3, <2>2 DEF PostByHand, TypeOK
<1>4. CASE UNCHANGED vars
  BY <1>4 DEF vars, TypeOK
<1> QED BY <1>1, <1>2, <1>3, <1>4, ScanType, RequestType DEF Next, ByHand, QueueInv

-----------------------------------------------------------------------------
(* What grows stays true: a row or a process that a step leaves alone is as   *)
(* right after it as before.                                                 *)

LEMMA BooksOn ==
    ASSUME Grows, NEW e, NEW l, NEW account, IsEntryOf(e, l, account)
    PROVE  /\ IsEntryOf(e, l, account)'
           /\ OnTheBooks(e) => OnTheBooks(e)'
BY DEF IsEntryOf, Grows, OnTheBooks

LEMMA ItemOn ==
    ASSUME Grows, NEW i \in Items, ItemOK(i), item'[i] = item[i]
    PROVE  ItemOK(i)'
<1>1. item[i].state \in {"accepted", "corrected"} =>
         /\ IsEntryOf(item[i].entry, item[i].line, Account(item[i].state))'
         /\ OnTheBooks(item[i].entry)'
  BY BooksOn DEF ItemOK
<1>2. Reviewable(i) /\ item[i].entry # None => IsEntryOf(item[i].entry, item[i].line, "suggested")'
  BY BooksOn DEF ItemOK
<1> QED BY <1>1, <1>2 DEF ItemOK, Reviewable, IsEntryOf, OnTheBooks

LEMMA ScanOn ==
    ASSUME TypeOK, Grows, NEW s \in Scans, ScanOK(s), scan'[s] = scan[s]
    PROVE  ScanOK(s)'
<1>1. scan[s] \in ScanState
  BY DEF TypeOK
<1>2. /\ scan[s].item \in Items /\ scan[s].items \subseteq Items
      /\ scan[s].step = "mark" => IsEntryOf(scan[s].entry, item[scan[s].item].line, "suggested")'
  BY <1>1, BooksOn DEF ScanOK, ScanState, Grows, IsEntryOf
<1> QED BY <1>2 DEF ScanOK, Grows, IsEntryOf

LEMMA RequestOn ==
    ASSUME TypeOK, Grows, NEW r \in Requests, RequestOK(r), request'[r] = request[r]
    PROVE  RequestOK(r)'
<1> DEFINE local == request[r]
<1>1. local \in RequestState
  BY DEF TypeOK
<1>2. local.item \in Items
  BY <1>1 DEF RequestState
<1>3. local.step = "post" => IsEntryOf(local.entry, local.line, "suggested")'
  BY BooksOn DEF RequestOK
<1>4. local.step = "setItem" /\ local.verdict # "rejected" =>
         IsEntryOf(local.entry, local.line, Account(local.verdict))' /\ OnTheBooks(local.entry)'
  BY BooksOn DEF RequestOK
<1> QED BY <1>2, <1>3, <1>4 DEF RequestOK, Grows, IsEntryOf, OnTheBooks

\* A step that changes no row.
LEMMA SameGrows == ASSUME UNCHANGED <<item, entry>> PROVE Grows
BY DEF Grows

LEMMA AllOn ==
    ASSUME TypeOK, QueueInv, Grows,
           \A i \in Items : item'[i] = item[i] \/ ItemOK(i)',
           \A s \in Scans : scan'[s] = scan[s] \/ ScanOK(s)',
           \A r \in Requests : request'[r] = request[r] \/ RequestOK(r)'
    PROVE  QueueInv'
BY ItemOn, ScanOn, RequestOn DEF QueueInv

LEMMA ScanInv ==
    ASSUME TypeOK, QueueInv, NEW s \in Scans, ScanStep(s)
    PROVE  QueueInv'
<1>1. scan[s] \in ScanState /\ ScanOK(s)
  BY DEF TypeOK, QueueInv
<1>2. \A t \in Scans \ {s} : scan'[t] = scan[t]
  BY DEF ScanStep, ScanBegin, Classify, ListSure, Draft, Mark, SkipItem, ScanEnd, TypeOK
<1>3. request' = request
  BY DEF ScanStep, ScanBegin, Classify, ListSure, Draft, Mark, SkipItem, ScanEnd
<1>4. CASE ScanBegin(s)
  <2>1. UNCHANGED <<item, entry>>
    BY <1>4 DEF ScanBegin, stored
  <2>2. scan'[s].step = "classify" /\ scan'[s].items = scan[s].items
    BY <1>1, <1>4 DEF ScanBegin, TypeOK, ScanState
  <2>3. ScanOK(s)'
    BY <1>1, <2>1, <2>2 DEF ScanOK
  <2> QED BY <1>2, <1>3, <2>1, <2>3, SameGrows, AllOn
<1>5. CASE ListSure(s)
  <2>1. UNCHANGED <<item, entry>>
    BY <1>5 DEF ListSure, stored
  <2>2. scan'[s].step = "draft" /\ scan'[s].items = Sure
    BY <1>1, <1>5 DEF ListSure, TypeOK, ScanState
  <2>3. ScanOK(s)'
    BY <2>1, <2>2 DEF ScanOK, Sure
  <2> QED BY <1>2, <1>3, <2>1, <2>3, SameGrows, AllOn
<1>6. CASE ScanEnd(s)
  <2>1. UNCHANGED <<item, entry>> /\ scan'[s] = ScanRests
    BY <1>6 DEF ScanEnd, stored, TypeOK
  <2>2. ScanOK(s)'
    BY <2>1, RestType DEF ScanOK
  <2> QED BY <1>2, <1>3, <2>1, <2>2, SameGrows, AllOn
<1>7. ASSUME NEW i \in Items, NEW l \in Lines, Classify(s, l, i) PROVE QueueInv'
  <2>1. PICK advice \in {"none", "some", "sure"} :
           item' = [item EXCEPT ![i] = [NoItem EXCEPT !.state = "pending_review", !.line = l,
                                                      !.advice = advice]]
    BY <1>7 DEF Classify
  <2>2. item[i].state = "absent" /\ entry' = entry
    BY <1>7 DEF Classify
  <2>3. /\ \A j \in Items \ {i} : item'[j] = item[j]
        /\ item'[i].state = "pending_review" /\ item'[i].entry = None
    BY <2>1 DEF TypeOK, NoItem
  <2>4. Grows
    BY <2>2, <2>3 DEF Grows
  <2>5. ItemOK(i)'
    BY <2>3 DEF ItemOK
  <2>6. ScanOK(s)'
    <3>1. scan'[s].step = scan[s].step /\ scan'[s].items = scan[s].items
          /\ scan'[s].item = scan[s].item /\ scan'[s].entry = scan[s].entry
      BY <1>1, <1>7 DEF Classify, TypeOK, ScanState
    <3>2. scan[s].items \subseteq Items /\ scan[s].item \in Items
      BY <1>1 DEF ScanState
    <3> QED BY <1>1, <2>2, <2>4, <3>1, <3>2 DEF ScanOK, Grows, IsEntryOf
  <2> QED BY <1>2, <1>3, <2>3, <2>4, <2>5, <2>6, AllOn
<1>8. ASSUME NEW i \in Items, NEW e \in Entries, Draft(s, i, e) PROVE QueueInv'
  <2>1. /\ entry' = [entry EXCEPT ![e] = [state |-> "draft", line |-> item[i].line,
                                          account |-> "suggested"]]
        /\ item' = item /\ entry[e].state = "absent" /\ i \in scan[s].items
    BY <1>8 DEF Draft
  <2>2. Grows
    BY <2>1 DEF Grows, TypeOK
  <2>3. /\ scan'[s].step = "mark" /\ scan'[s].items = scan[s].items
        /\ scan'[s].item = i /\ scan'[s].entry = e
    BY <1>1, <1>8 DEF Draft, TypeOK, ScanState
  <2>4. ScanOK(s)'
    BY <1>1, <2>1, <2>3 DEF ScanOK, IsEntryOf, TypeOK
  <2> QED BY <1>2, <1>3, <2>1, <2>2, <2>4, AllOn
<1>9. ASSUME NEW i \in Items, Mark(s, i) PROVE QueueInv'
  <2>1. /\ i = scan[s].item /\ scan[s].step = "mark" /\ entry' = entry
        /\ item' = [item EXCEPT ![i].state = "auto_posted", ![i].entry = scan[s].entry]
    BY <1>9 DEF Mark
  <2>2. /\ \A j \in Items \ {i} : item'[j] = item[j]
        /\ item'[i].state = "auto_posted" /\ item'[i].entry = scan[s].entry
        /\ item'[i].line = item[i].line
    BY <2>1 DEF TypeOK, ItemRow
  <2>3. Grows
    BY <2>1, <2>2 DEF Grows
  <2>4. ItemOK(i)'
    BY <1>1, <2>1, <2>2 DEF ItemOK, ScanOK, IsEntryOf
  <2>5. scan'[s].step = "draft" /\ scan'[s].items \subseteq scan[s].items
    BY <1>1, <1>9 DEF Mark, TypeOK, ScanState
  <2>6. ScanOK(s)'
    BY <1>1, <2>3, <2>5 DEF ScanOK, Grows, ScanState
  <2> QED BY <1>2, <1>3, <2>2, <2>3, <2>4, <2>6, AllOn
<1>10. ASSUME NEW i \in Items, SkipItem(s, i) PROVE QueueInv'
  <2>1. UNCHANGED <<item, entry>>
    BY <1>10 DEF SkipItem, stored
  <2>2. scan'[s].step = "draft" /\ scan'[s].items \subseteq scan[s].items
    BY <1>1, <1>10 DEF SkipItem, TypeOK, ScanState
  <2>3. ScanOK(s)'
    BY <1>1, <2>1, <2>2 DEF ScanOK
  <2> QED BY <1>2, <1>3, <2>1, <2>3, SameGrows, AllOn
<1> QED BY <1>4, <1>5, <1>6, <1>7, <1>8, <1>9, <1>10 DEF ScanStep

LEMMA RequestInv ==
    ASSUME TypeOK, QueueInv, NEW r \in Requests, RequestStep(r)
    PROVE  QueueInv'
<1> DEFINE local == request[r]
<1>1. local \in RequestState /\ RequestOK(r) /\ local.item \in Items
  BY DEF TypeOK, QueueInv, RequestState
<1>2. \A q \in Requests \ {r} : request'[q] = request[q]
  BY DEF RequestStep, Accept, Correct, Reject, Review, Book, Begin, InsertPosted, PostDraft, SetItem,
         SetLine, GiveUp, RewriteBegin, Rewrite, TypeOK
<1>3. scan' = scan
  BY DEF RequestStep, Accept, Correct, Reject, Review, Book, Begin, InsertPosted, PostDraft, SetItem,
         SetLine, GiveUp, RewriteBegin, Rewrite
<1>4. ASSUME UNCHANGED <<item, entry>>, RequestOK(r)' PROVE QueueInv'
  BY <1>2, <1>3, <1>4, SameGrows, AllOn
<1>5. ASSUME NEW i \in Items, Accept(r, i) \/ Correct(r, i) \/ Reject(r, i) PROVE QueueInv'
  <2>1. ItemOK(i)
    BY DEF QueueInv
  <2>2. PICK verdict, step :
           /\ Review(r, i, verdict, step)
           /\ \/ step = "insert" /\ verdict \in {"accepted", "corrected"}
              \/ step = "post" /\ verdict = "accepted" /\ item[i].entry # None
              \/ step = "setItem" /\ verdict = "rejected"
    BY <1>5 DEF Accept, Correct, Reject
  <2>3. /\ request'[r] = [step |-> step, line |-> item[i].line, item |-> i,
                          verdict |-> verdict, entry |-> item[i].entry]
        /\ Reviewable(i) /\ UNCHANGED <<item, entry>>
    BY <2>2 DEF Review, Begin, stored, TypeOK
  <2>4. RequestOK(r)'
    BY <2>1, <2>2, <2>3 DEF RequestOK, ItemOK, Reviewable, IsEntryOf
  <2> QED BY <1>4, <2>3, <2>4
<1>6. ASSUME NEW l \in Lines, Book(r, l) PROVE QueueInv'
  <2>1. UNCHANGED <<item, entry>> /\ request'[r].step = "insert" /\ request'[r].verdict = "manual"
    BY <1>6 DEF Book, Begin, stored, TypeOK, Resting
  <2> QED BY <1>4, <2>1 DEF RequestOK
<1>7. ASSUME NEW e \in Entries, InsertPosted(r, e) PROVE QueueInv'
  <2>1. /\ local.step = "insert" /\ entry[e].state = "absent" /\ item' = item
        /\ entry' = [entry EXCEPT ![e] =
              [state |-> "posted", line |-> local.line,
               account |-> IF local.verdict = "accepted" THEN "suggested" ELSE "chosen"]]
    BY <1>7 DEF InsertPosted
  <2>2. Grows
    BY <2>1 DEF Grows, TypeOK
  <2>3. /\ request'[r].step = IF local.verdict = "manual" THEN "setLine" ELSE "setItem"
        /\ request'[r].entry = e /\ request'[r].verdict = local.verdict
        /\ request'[r].line = local.line /\ request'[r].item = local.item
    BY <1>1, <1>7 DEF InsertPosted, TypeOK, RequestState
  <2>4. /\ entry'[e].state = "posted" /\ entry'[e].line = local.line
        /\ entry'[e].account = Account(local.verdict)
    BY <2>1 DEF TypeOK, Account
  <2>5. RequestOK(r)'
    BY <1>1, <2>1, <2>3, <2>4 DEF RequestOK, IsEntryOf, OnTheBooks
  <2> QED BY <1>2, <1>3, <2>1, <2>2, <2>5, AllOn
<1>8. CASE PostDraft(r)
  <2>1. local.step = "post" /\ item' = item
        /\ entry' = [entry EXCEPT ![local.entry].state = "posted"]
    BY <1>8 DEF PostDraft
  <2>2. local.verdict = "accepted" /\ IsEntryOf(local.entry, local.line, "suggested")
        /\ item[local.item].state # "absent" /\ item[local.item].line = local.line
    BY <1>1, <2>1 DEF RequestOK
  <2>3. entry[local.entry] \in EntryRow /\ local.entry \in Entries
    BY <2>2 DEF IsEntryOf, TypeOK
  <2>4. /\ \A f \in Entries \ {local.entry} : entry'[f] = entry[f]
        /\ entry'[local.entry].state = "posted" /\ entry'[local.entry].line = entry[local.entry].line
        /\ entry'[local.entry].account = entry[local.entry].account
    BY <2>1, <2>3 DEF TypeOK, EntryRow
  <2>5. Grows
    BY <2>1, <2>4 DEF Grows
  <2>6. /\ request'[r].step = "setItem" /\ request'[r].entry = local.entry
        /\ request'[r].verdict = local.verdict /\ request'[r].line = local.line
        /\ request'[r].item = local.item
    BY <1>1, <1>8 DEF PostDraft, TypeOK, RequestState
  <2>7. RequestOK(r)'
    BY <2>1, <2>2, <2>4, <2>6 DEF RequestOK, IsEntryOf, Account, OnTheBooks
  <2> QED BY <1>2, <1>3, <2>1, <2>5, <2>7, AllOn
<1>9. CASE SetItem(r)
  <2>0. PICK i \in Items : i = local.item
    BY <1>1
  <2>1. /\ local.step = "setItem" /\ entry' = entry
        /\ item' = [item EXCEPT ![i].state = local.verdict,
                       ![i].entry = IF local.verdict = "rejected" THEN @ ELSE local.entry]
    BY <1>9, <2>0 DEF SetItem
  <2>2. /\ item[i].state # "absent" /\ item[i].line = local.line /\ local.verdict # "manual"
        /\ local.verdict # "rejected" =>
              /\ IsEntryOf(local.entry, local.line, Account(local.verdict))
              /\ OnTheBooks(local.entry)
    BY <1>1, <2>0, <2>1 DEF RequestOK
  <2>3. item[i] \in ItemRow /\ local.verdict \in {"accepted", "corrected", "rejected"}
    BY <1>1, <2>0, <2>2 DEF TypeOK, RequestState
  <2>4. /\ \A j \in Items \ {i} : item'[j] = item[j]
        /\ item'[i].state = local.verdict /\ item'[i].line = item[i].line
        /\ local.verdict # "rejected" => item'[i].entry = local.entry
    BY <1>1, <2>1, <2>3 DEF TypeOK, ItemRow
  <2>5. Grows
    BY <2>1, <2>3, <2>4 DEF Grows
  <2>6. ItemOK(i)'
    <3>1. CASE local.verdict = "rejected"
      BY <2>4, <3>1 DEF ItemOK, Reviewable
    <3>2. CASE local.verdict # "rejected"
      <4>1. IsEntryOf(item[i].entry, item[i].line, Account(item[i].state))'
            /\ OnTheBooks(item[i].entry)'
        BY <2>1, <2>2, <2>4, <3>2 DEF IsEntryOf, OnTheBooks
      <4> QED BY <2>3, <2>4, <4>1 DEF ItemOK, Reviewable
    <3> QED BY <3>1, <3>2
  <2>7. request'[r].step \in {"idle", "setLine"}
    BY <1>1, <1>9, RestType DEF SetItem, TypeOK, RequestState
  <2>8. RequestOK(r)'
    BY <2>7 DEF RequestOK
  <2>9. \A j \in Items : item'[j] = item[j] \/ ItemOK(j)'
    BY <2>4, <2>6
  <2> QED BY <1>2, <1>3, <2>5, <2>8, <2>9, AllOn
<1>10. CASE SetLine(r) \/ GiveUp(r)
  <2>1. UNCHANGED <<item, entry>> /\ request'[r].step = "idle"
    BY <1>10, RestType DEF SetLine, GiveUp, RewriteBegin, Rewrite, stored, TypeOK
  <2> QED BY <1>4, <2>1 DEF RequestOK
<1>11. ASSUME NEW e \in Entries, RewriteBegin(r, e) PROVE QueueInv'
  <2>1. UNCHANGED <<item, entry>> /\ request'[r].step = "rewrite" /\ request'[r].entry = e
    BY <1>11, RestType DEF RewriteBegin, stored, TypeOK, RequestState
  <2> QED BY <1>4, <2>1 DEF RequestOK
<1>12. CASE Rewrite(r)
  <2>1. Grows /\ request'[r].step = "idle" /\ item' = item
    BY <1>1, <1>12, RewriteWrites, RestType DEF Rewrite
  <2>2. RequestOK(r)'
    BY <2>1 DEF RequestOK
  <2> QED BY <1>2, <1>3, <2>1, <2>2, AllOn
<1> QED BY <1>5, <1>6, <1>7, <1>8, <1>9, <1>10, <1>11, <1>12 DEF RequestStep

LEMMA InvStep == TypeOK /\ QueueInv /\ [Next]_vars => QueueInv'
<1> SUFFICES ASSUME TypeOK, QueueInv, [Next]_vars PROVE QueueInv'
  OBVIOUS
<1>1. ASSUME UNCHANGED <<item, scan, request>>, Grows PROVE QueueInv'
  BY <1>1, AllOn
<1>2. ASSUME NEW l \in Lines, Unmatch(l) \/ \E e \in Entries : Match(l, e) PROVE QueueInv'
  BY <1>1, <1>2, SameGrows DEF Match, Unmatch
<1>3. ASSUME NEW e \in Entries, PostByHand(e) PROVE QueueInv'
  <2>1. entry[e] \in EntryRow
    BY DEF TypeOK
  <2>2. /\ \A f \in Entries \ {e} : entry'[f] = entry[f]
        /\ entry'[e].state = "posted" /\ entry'[e].line = entry[e].line
        /\ entry'[e].account = entry[e].account
    BY <1>3, <2>1 DEF PostByHand, TypeOK, EntryRow
  <2>3. Grows
    BY <1>3, <2>2 DEF Grows, PostByHand
  <2> QED BY <1>1, <1>3, <2>3 DEF PostByHand
<1>4. CASE UNCHANGED vars
  BY <1>1, <1>4, SameGrows DEF vars
<1> QED BY <1>2, <1>3, <1>4, ScanInv, RequestInv DEF Next, ByHand

LEMMA QueueInvariant == Spec => [](TypeOK /\ QueueInv)
<1>1. Init => QueueInv
  BY RestType DEF Init, QueueInv, ItemOK, ScanOK, RequestOK, NoItem, Reviewable
<1> QED BY <1>1, InitType, TypeStep, InvStep, PTL DEF Spec

\* Rows and processes keep their types.
THEOREM TypesKept == Spec => []TypeOK
<1> QED BY QueueInvariant, PTL

\* Whatever crosses or dies, and whatever is booked, matched or posted by hand, an
\* accepted or corrected suggestion names an entry of its line, posted on the account
\* that was decided unless a PUT has rewritten the entry's lines.
THEOREM DecisionsReachTheLedger == Spec => []DecisionsArePosted
<1>1. ASSUME TypeOK, QueueInv PROVE DecisionsArePosted
  <2>1. ASSUME NEW i \in Items, item[i].state \in {"accepted", "corrected"}
        PROVE  IsEntryOf(item[i].entry, item[i].line, Account(item[i].state))
               /\ OnTheBooks(item[i].entry) /\ item[i].entry # None
    BY <1>1, <2>1 DEF QueueInv, ItemOK, IsEntryOf
  <2> QED BY <2>1 DEF DecisionsArePosted, IsEntryOf, OnTheBooks, Account
<1> QED BY <1>1, QueueInvariant, PTL

-----------------------------------------------------------------------------
(* Decisions stand: on a line nobody has crossed there is one process at     *)
(* most, so what it read of a suggestion is still so when it writes.         *)

Process == Scans \cup Requests

Apart ==
    \A l \in Lines, p, q \in Process :
        past[l] # "crossed" /\ l \in On(p) /\ l \in On(q) => p = q

ScanKnows(s) ==
    /\ scan[s].step \in {"idle", "classify"} => scan[s].items = {}
    /\ scan[s].step # "classify" => scan[s].lines = {}
    /\ scan[s].step = "mark" => scan[s].item \in scan[s].items
    /\ \A i \in scan[s].items : past[item[i].line] # "crossed" => Reviewable(i)

Deciding(r) == request[r].step \in {"insert", "post", "setItem"} /\ request[r].verdict # "manual"

RequestKnows(r) ==
    Deciding(r) /\ past[request[r].line] # "crossed" => Reviewable(request[r].item)

KnowInv ==
    /\ Apart
    /\ \A s \in Scans : ScanKnows(s)
    /\ \A r \in Requests : RequestKnows(r)

\* No line that was crossed is ever uncrossed.
Marks == \A l \in Lines : past'[l] # "crossed" => past[l] # "crossed"

LEMMA Marking ==
    ASSUME TypeOK,
           \/ UNCHANGED past \/ (\E S : Tears(S)) \/ \E p, S : Meets(p, S)
    PROVE  Marks
BY DEF TypeOK, Tears, Meets, Marks

\* A process that leaves lines, or comes onto those it has met everybody on.
LEMMA ApartLeaving ==
    ASSUME Apart, Marks, \A q \in Process : On(q)' \subseteq On(q)
    PROVE  Apart'
BY DEF Apart, Marks

LEMMA ApartComing ==
    ASSUME TypeOK, Apart, NEW p \in Process, NEW S \in SUBSET Lines, Meets(p, S),
           On(p)' \subseteq On(p) \cup S, \A q \in Process \ {p} : On(q)' = On(q)
    PROVE  Apart'
<1> SUFFICES ASSUME NEW l \in Lines, NEW a \in Process, NEW b \in Process,
                    past'[l] # "crossed", l \in On(a)', l \in On(b)'
             PROVE  a = b
  BY DEF Apart
<1>1. Marks
  BY Marking
<1>2. l \in S => \A q \in Process \ {p} : l \notin On(q)
  BY DEF Meets, TypeOK, Process
<1> QED BY <1>1, <1>2 DEF Apart, Marks

\* What a process knows stays so while the suggestions it is on are left alone.
LEMMA ScanKnowsOn ==
    ASSUME TypeOK, QueueInv, Marks, NEW s \in Scans, ScanKnows(s), scan'[s] = scan[s],
           \A i \in scan[s].items : item'[i] = item[i] \/ past[item[i].line] = "crossed",
           \A i \in scan[s].items : item'[i].line = item[i].line
    PROVE  ScanKnows(s)'
<1>1. \A i \in scan[s].items : i \in Items /\ item[i].line \in Lines
  BY DEF TypeOK, ScanState, ItemRow
<1> QED BY <1>1 DEF ScanKnows, Marks, Reviewable

LEMMA RequestKnowsOn ==
    ASSUME TypeOK, Marks, NEW r \in Requests, RequestKnows(r), request'[r] = request[r],
           Deciding(r) => item'[request[r].item].state = item[request[r].item].state
                          \/ past[request[r].line] = "crossed"
    PROVE  RequestKnows(r)'
<1>1. request[r].line \in Lines
  BY DEF TypeOK, RequestState
<1> QED BY <1>1 DEF RequestKnows, Deciding, Marks, Reviewable

\* Who holds a suggestion is on its line.
LEMMA OnItsLine ==
    ASSUME TypeOK, QueueInv
    PROVE  /\ \A s \in Scans : \A i \in scan[s].items : s \in Process /\ item[i].line \in On(s)
           /\ \A r \in Requests : Deciding(r) =>
                 r \in Process /\ request[r].line \in On(r)
                 /\ item[request[r].item].line = request[r].line
<1>1. \A s \in Scans : s \notin Requests
  BY DEF QueueAssumption
<1> QED BY <1>1 DEF On, Process, Deciding, QueueInv, RequestOK

\* A step of p that writes at most suggestion i, of a line p is on.
LEMMA OthersKnow ==
    ASSUME TypeOK, QueueInv, KnowInv, Marks, Grows, NEW p \in Process, NEW i \in Items,
           \A j \in Items \ {i} : item'[j] = item[j],
           item[i].state = "absent" \/ item[i].line \in On(p),
           \A s \in Scans \ {p} : scan'[s] = scan[s],
           \A r \in Requests \ {p} : request'[r] = request[r]
    PROVE  /\ \A s \in Scans \ {p} : ScanKnows(s)'
           /\ \A r \in Requests \ {p} : RequestKnows(r)'
<1>1. ASSUME NEW s \in Scans \ {p} PROVE ScanKnows(s)'
  <2>1. ASSUME NEW j \in scan[s].items
        PROVE  /\ item'[j] = item[j] \/ past[item[j].line] = "crossed"
               /\ item'[j].line = item[j].line
    <3>1. j \in Items /\ item[j].state # "absent" /\ item[j].line \in On(s) /\ s \in Process
      BY <2>1, OnItsLine DEF TypeOK, ScanState, QueueInv, ScanOK
    <3>2. item[j].line \in Lines
      BY <3>1 DEF TypeOK, ItemRow
    <3>3. j = i => past[item[j].line] = "crossed"
      BY <3>1, <3>2 DEF KnowInv, Apart
    <3> QED BY <3>1, <3>3 DEF Grows
  <2> QED BY <2>1, ScanKnowsOn DEF KnowInv
<1>2. ASSUME NEW r \in Requests \ {p} PROVE RequestKnows(r)'
  <2>1. ASSUME Deciding(r)
        PROVE  item'[request[r].item].state = item[request[r].item].state
               \/ past[request[r].line] = "crossed"
    <3> DEFINE j == request[r].item
    <3>1. /\ j \in Items /\ item[j].state # "absent" /\ item[j].line = request[r].line
          /\ item[j].line \in On(r) /\ r \in Process
      BY <2>1, OnItsLine DEF TypeOK, RequestState, QueueInv, RequestOK, Deciding
    <3>2. item[j].line \in Lines
      BY <3>1 DEF TypeOK, ItemRow
    <3>3. j = i => past[item[j].line] = "crossed"
      BY <3>1, <3>2 DEF KnowInv, Apart
    <3> QED BY <3>1, <3>3
  <2> QED BY <2>1, RequestKnowsOn DEF KnowInv
<1> QED BY <1>1, <1>2

\* A step that writes no suggestion.
LEMMA OthersKnowStill ==
    ASSUME TypeOK, QueueInv, KnowInv, Marks, UNCHANGED item, NEW p,
           \A s \in Scans \ {p} : scan'[s] = scan[s],
           \A r \in Requests \ {p} : request'[r] = request[r]
    PROVE  /\ \A s \in Scans \ {p} : ScanKnows(s)'
           /\ \A r \in Requests \ {p} : RequestKnows(r)'
<1>1. ASSUME NEW s \in Scans \ {p} PROVE ScanKnows(s)'
  BY ScanKnowsOn DEF KnowInv
<1>2. ASSUME NEW r \in Requests \ {p} PROVE RequestKnows(r)'
  BY RequestKnowsOn DEF KnowInv
<1> QED BY <1>1, <1>2

\* The lines of a scan that keeps its suggestions' rows.
LEMMA OnScan ==
    ASSUME NEW s \in Scans
    PROVE  /\ On(s) = scan[s].lines \cup {item[i].line : i \in scan[s].items}
           /\ On(s)' = scan'[s].lines \cup {item'[i].line : i \in scan'[s].items}
BY DEF On, QueueAssumption

\* Where processes are does not change for those a step leaves alone.
LEMMA OnOthers ==
    ASSUME TypeOK, QueueInv, Grows, NEW p,
           \A s \in Scans \ {p} : scan'[s] = scan[s],
           \A r \in Requests \ {p} : request'[r] = request[r]
    PROVE  \A q \in Process \ {p} : On(q)' = On(q)
<1>1. ASSUME NEW s \in Scans \ {p} PROVE On(s)' = On(s)
  <2>1. \A i \in scan[s].items : item'[i].line = item[i].line
    BY DEF TypeOK, ScanState, QueueInv, ScanOK, Grows
  <2>2. scan'[s] = scan[s]
    OBVIOUS
  <2>3. {item'[i].line : i \in scan'[s].items} = {item[i].line : i \in scan[s].items}
    BY <2>1, <2>2
  <2> QED BY <2>2, <2>3, OnScan
<1>2. ASSUME NEW r \in Requests \ {p} PROVE On(r)' = On(r)
  BY DEF On
<1> QED BY <1>1, <1>2 DEF Process

LEMMA ScanStepKnows ==
    ASSUME TypeOK, QueueInv, KnowInv, NEW s \in Scans, ScanStep(s)
    PROVE  KnowInv'
<1>0. s \in Process /\ s \notin Requests /\ \A r \in Requests \ {s} : request'[r] = request[r]
  BY DEF Process, QueueAssumption, ScanStep, ScanBegin, Classify, ListSure, Draft, Mark, SkipItem,
         ScanEnd
<1>1. scan[s] \in ScanState /\ ScanOK(s) /\ ScanKnows(s)
  BY DEF TypeOK, QueueInv, KnowInv
<1>2. \A t \in Scans \ {s} : scan'[t] = scan[t]
  BY DEF ScanStep, ScanBegin, Classify, ListSure, Draft, Mark, SkipItem, ScanEnd, TypeOK
<1>3. Marks
  BY Marking DEF ScanStep, ScanBegin, Classify, ListSure, Draft, Mark, SkipItem, ScanEnd
<1>4. ASSUME Apart', ScanKnows(s)',
             \A t \in Scans \ {s} : ScanKnows(t)', \A r \in Requests \ {s} : RequestKnows(r)'
      PROVE  KnowInv'
  BY <1>0, <1>4 DEF KnowInv
<1>5. ASSUME UNCHANGED item, On(s)' \subseteq On(s), ScanKnows(s)', Grows PROVE KnowInv'
  <2>1. Apart'
    BY <1>0, <1>2, <1>3, <1>5, OnOthers, ApartLeaving DEF KnowInv
  <2> QED BY <1>0, <1>2, <1>3, <1>4, <1>5, <2>1, OthersKnowStill
<1>6. CASE ScanBegin(s)
  <2>1. /\ UNCHANGED <<item, entry>> /\ scan[s].items = {} /\ scan[s].lines = {}
        /\ Meets(s, Unqueued) /\ Unqueued \in SUBSET Lines
    BY <1>1, <1>6 DEF ScanBegin, stored, ScanKnows, Unqueued
  <2>2. scan'[s].step = "classify" /\ scan'[s].items = {} /\ scan'[s].lines = Unqueued
    BY <1>1, <1>6, <2>1 DEF ScanBegin, TypeOK, ScanState
  <2>3. On(s)' = Unqueued
    BY <2>2, OnScan
  <2>4. Apart'
    BY <1>0, <1>2, <2>1, <2>3, SameGrows, OnOthers, ApartComing DEF KnowInv
  <2>5. ScanKnows(s)'
    BY <2>2 DEF ScanKnows
  <2> QED BY <1>0, <1>2, <1>3, <1>4, <2>1, <2>4, <2>5, OthersKnowStill
<1>7. CASE ListSure(s)
  <2> DEFINE S == {item[i].line : i \in Sure}
  <2>1. UNCHANGED <<item, entry>> /\ scan[s].lines = {} /\ Meets(s, S) /\ S \in SUBSET Lines
    BY <1>7 DEF ListSure, stored, Sure, TypeOK, ItemRow
  <2>2. scan'[s].step = "draft" /\ scan'[s].items = Sure /\ scan'[s].lines = {}
    BY <1>1, <1>7, <2>1 DEF ListSure, TypeOK, ScanState
  <2>3. On(s)' = S
    BY <2>1, <2>2, OnScan
  <2>4. Apart'
    BY <1>0, <1>2, <2>1, <2>3, SameGrows, OnOthers, ApartComing DEF KnowInv
  <2>5. ScanKnows(s)'
    BY <2>1, <2>2 DEF ScanKnows, Sure, Reviewable
  <2> QED BY <1>0, <1>2, <1>3, <1>4, <2>1, <2>4, <2>5, OthersKnowStill
<1>8. CASE ScanEnd(s)
  <2>1. UNCHANGED <<item, entry>> /\ scan'[s] = ScanRests
    BY <1>8 DEF ScanEnd, stored, TypeOK
  <2>2. ScanKnows(s)' /\ On(s)' = {}
    BY <2>1, OnScan DEF ScanKnows, ScanRests
  <2> QED BY <1>5, <2>1, <2>2, SameGrows
<1>9. ASSUME NEW i \in Items, NEW l \in Lines, Classify(s, l, i) PROVE KnowInv'
  <2>1. PICK advice \in {"none", "some", "sure"} :
           item' = [item EXCEPT ![i] = [NoItem EXCEPT !.state = "pending_review", !.line = l,
                                                      !.advice = advice]]
    BY <1>9 DEF Classify
  <2>2. item[i].state = "absent" /\ entry' = entry /\ UNCHANGED past
    BY <1>9 DEF Classify
  <2>3. (\A j \in Items \ {i} : item'[j] = item[j]) /\ item'[i].state = "pending_review"
    BY <2>1 DEF TypeOK, NoItem
  <2>4. Grows
    BY <2>2, <2>3 DEF Grows
  <2>5. /\ scan'[s].step = scan[s].step /\ scan'[s].items = scan[s].items
        /\ scan'[s].item = scan[s].item /\ scan'[s].lines \subseteq scan[s].lines
    BY <1>1, <1>9 DEF Classify, TypeOK, ScanState
  <2>6. \A j \in scan[s].items : j \in Items \ {i}
    BY <1>1, <2>2 DEF ScanState, ScanOK
  <2>7. ScanKnows(s)'
    BY <1>1, <2>2, <2>3, <2>5, <2>6 DEF ScanKnows, Reviewable
  <2>8. On(s)' \subseteq On(s)
    BY <2>3, <2>5, <2>6, OnScan
  <2>9. Apart'
    BY <1>0, <1>2, <1>3, <2>4, <2>8, OnOthers, ApartLeaving DEF KnowInv
  <2> QED BY <1>0, <1>2, <1>3, <1>4, <2>2, <2>3, <2>4, <2>7, <2>9, OthersKnow
<1>10. ASSUME NEW i \in Items, NEW e \in Entries, Draft(s, i, e) PROVE KnowInv'
  <2>1. /\ UNCHANGED <<item, past>> /\ entry[e].state = "absent" /\ i \in scan[s].items
        /\ \A f \in Entries \ {e} : entry'[f] = entry[f]
    BY <1>10 DEF Draft, TypeOK
  <2>2. Grows
    BY <2>1 DEF Grows
  <2>3. /\ scan'[s].step = "mark" /\ scan'[s].items = scan[s].items
        /\ scan'[s].item = i /\ scan'[s].lines = scan[s].lines /\ scan[s].step = "draft"
    BY <1>1, <1>10 DEF Draft, TypeOK, ScanState
  <2>4. ScanKnows(s)'
    BY <1>1, <2>1, <2>3 DEF ScanKnows, Reviewable
  <2>5. On(s)' = On(s)
    BY <2>1, <2>3, OnScan
  <2> QED BY <1>5, <2>1, <2>2, <2>4, <2>5
<1>11. ASSUME NEW i \in Items, scan'[s].step = "draft", scan'[s].items = scan[s].items \ {i},
              scan'[s].lines = scan[s].lines, scan[s].step # "classify",
              \A j \in Items \ {i} : item'[j] = item[j]
       PROVE  ScanKnows(s)' /\ On(s)' \subseteq On(s)
  <2>1. \A j \in scan'[s].items : j \in Items \ {i} /\ item[j].line \in Lines
    BY <1>1, <1>11 DEF ScanState, TypeOK, ItemRow
  <2>2. ScanKnows(s)'
    BY <1>1, <1>3, <1>11, <2>1 DEF ScanKnows, Reviewable, Marks
  <2> QED BY <1>11, <2>1, <2>2, OnScan
<1>12. ASSUME NEW i \in Items, Mark(s, i) PROVE KnowInv'
  <2>1. /\ i = scan[s].item /\ scan[s].step = "mark" /\ entry' = entry
        /\ item' = [item EXCEPT ![i].state = "auto_posted", ![i].entry = scan[s].entry]
    BY <1>12 DEF Mark
  <2>2. /\ \A j \in Items \ {i} : item'[j] = item[j]
        /\ item'[i].state = "auto_posted" /\ item'[i].line = item[i].line
    BY <2>1 DEF TypeOK, ItemRow
  <2>3. Grows
    BY <2>1, <2>2 DEF Grows
  <2>4. scan'[s].step = "draft" /\ scan'[s].items = scan[s].items \ {i}
        /\ scan'[s].lines = scan[s].lines
    BY <1>1, <1>12 DEF Mark, TypeOK, ScanState
  <2>5. ScanKnows(s)' /\ On(s)' \subseteq On(s)
    BY <1>11, <2>1, <2>2, <2>4
  <2>6. Apart'
    BY <1>0, <1>2, <1>3, <2>3, <2>5, OnOthers, ApartLeaving DEF KnowInv
  <2>7. item[i].line \in On(s)
    BY <1>1, <2>1, OnItsLine DEF ScanKnows
  <2> QED BY <1>0, <1>2, <1>3, <1>4, <2>2, <2>3, <2>5, <2>6, <2>7, OthersKnow
<1>13. ASSUME NEW i \in Items, SkipItem(s, i) PROVE KnowInv'
  <2>1. UNCHANGED <<item, entry>> /\ i \in scan[s].items
    BY <1>13 DEF SkipItem, stored
  <2>2. scan'[s].step = "draft" /\ scan'[s].items = scan[s].items \ {i}
        /\ scan'[s].lines = scan[s].lines /\ scan[s].step # "classify"
    BY <1>1, <1>13 DEF SkipItem, TypeOK, ScanState, ScanKnows
  <2>3. ScanKnows(s)' /\ On(s)' \subseteq On(s)
    BY <1>11, <2>1, <2>2
  <2> QED BY <1>5, <2>1, <2>3, SameGrows
<1> QED BY <1>6, <1>7, <1>8, <1>9, <1>10, <1>12, <1>13 DEF ScanStep

LEMMA RequestStepKnows ==
    ASSUME TypeOK, QueueInv, KnowInv, NEW r \in Requests, RequestStep(r)
    PROVE  KnowInv'
<1> DEFINE local == request[r]
<1>0. r \in Process /\ r \notin Scans /\ \A s \in Scans \ {r} : scan'[s] = scan[s]
  BY DEF Process, QueueAssumption, RequestStep, Accept, Correct, Reject, Review, Book, Begin,
         InsertPosted, PostDraft, SetItem, SetLine, GiveUp, RewriteBegin, Rewrite
<1>1. local \in RequestState /\ RequestOK(r) /\ RequestKnows(r) /\ local.line \in Lines
  BY DEF TypeOK, QueueInv, KnowInv, RequestState
<1>2. \A q \in Requests \ {r} : request'[q] = request[q]
  BY DEF RequestStep, Accept, Correct, Reject, Review, Book, Begin, InsertPosted, PostDraft, SetItem,
         SetLine, GiveUp, RewriteBegin, Rewrite, TypeOK
<1>3. Marks
  BY Marking DEF RequestStep, Accept, Correct, Reject, Review, Book, Begin, InsertPosted, PostDraft,
                 SetItem, SetLine, GiveUp, RewriteBegin, Rewrite
<1>4. ASSUME Apart', RequestKnows(r)',
             \A s \in Scans \ {r} : ScanKnows(s)', \A q \in Requests \ {r} : RequestKnows(q)'
      PROVE  KnowInv'
  BY <1>0, <1>4 DEF KnowInv
<1>5. ASSUME \/ request'[r].step \in {"idle", "rewrite"}
             \/ request'[r].line = local.line /\ local.step \notin {"idle", "rewrite"}
      PROVE  On(r)' \subseteq On(r)
  BY <1>5 DEF On
<1>6. ASSUME UNCHANGED item, On(r)' \subseteq On(r), RequestKnows(r)', Grows PROVE KnowInv'
  <2>1. Apart'
    BY <1>0, <1>2, <1>3, <1>6, OnOthers, ApartLeaving DEF KnowInv
  <2> QED BY <1>0, <1>2, <1>3, <1>4, <1>6, <2>1, OthersKnowStill
<1>7. ASSUME NEW l \in Lines, NEW new, Begin(r, l, new), new.line = l, UNCHANGED <<item, entry>>,
             RequestKnows(r)'
      PROVE  KnowInv'
  <2>1. Meets(r, {l}) /\ On(r)' \subseteq {l}
    BY <1>7 DEF Begin, On, TypeOK
  <2>2. Apart'
    BY <1>0, <1>2, <1>7, <2>1, SameGrows, OnOthers, ApartComing DEF KnowInv
  <2> QED BY <1>0, <1>2, <1>3, <1>4, <1>7, <2>2, OthersKnowStill
<1>8. ASSUME NEW i \in Items, Accept(r, i) \/ Correct(r, i) \/ Reject(r, i) PROVE KnowInv'
  <2>1. PICK verdict, step : Review(r, i, verdict, step)
    BY <1>8 DEF Accept, Correct, Reject
  <2> DEFINE new == [step |-> step, line |-> item[i].line, item |-> i, verdict |-> verdict,
                     entry |-> item[i].entry]
  <2>2. Begin(r, item[i].line, new) /\ Reviewable(i) /\ UNCHANGED <<item, entry>>
        /\ request'[r] = new /\ item[i].line \in Lines
    BY <2>1 DEF Review, Begin, stored, TypeOK, ItemRow
  <2>3. RequestKnows(r)'
    BY <2>2 DEF RequestKnows, Reviewable
  <2>4. new.line = item[i].line
    OBVIOUS
  <2> HIDE DEF new
  <2> QED BY <1>7, <2>2, <2>3, <2>4
<1>9. ASSUME NEW l \in Lines, Book(r, l) PROVE KnowInv'
  <2> DEFINE new == [Resting EXCEPT !.step = "insert", !.line = l]
  <2>1. Begin(r, l, new) /\ UNCHANGED <<item, entry>> /\ request'[r] = new
    BY <1>9 DEF Book, Begin, stored, TypeOK
  <2>2. new.line = l /\ new.verdict = "manual"
    BY DEF Resting
  <2> HIDE DEF new
  <2>3. RequestKnows(r)'
    BY <2>1, <2>2 DEF RequestKnows, Deciding
  <2> QED BY <1>7, <2>1, <2>2, <2>3
<1>10. ASSUME NEW e \in Entries, InsertPosted(r, e) PROVE KnowInv'
  <2>1. /\ local.step = "insert" /\ UNCHANGED <<item, past>> /\ entry[e].state = "absent"
        /\ \A f \in Entries \ {e} : entry'[f] = entry[f]
    BY <1>10 DEF InsertPosted, TypeOK
  <2>2. Grows
    BY <2>1 DEF Grows
  <2>3. /\ request'[r].verdict = local.verdict /\ request'[r].line = local.line
        /\ request'[r].item = local.item
    BY <1>1, <1>10 DEF InsertPosted, TypeOK, RequestState
  <2>4. RequestKnows(r)'
    BY <1>1, <2>1, <2>3 DEF RequestKnows, Deciding, Reviewable
  <2> QED BY <1>5, <1>6, <2>1, <2>2, <2>3, <2>4
<1>11. CASE PostDraft(r)
  <2>1. /\ local.step = "post" /\ UNCHANGED <<item, past>>
        /\ entry' = [entry EXCEPT ![local.entry].state = "posted"]
    BY <1>11 DEF PostDraft
  <2>2. local.entry \in Entries /\ entry[local.entry] \in EntryRow
        /\ entry[local.entry].state # "absent" /\ local.verdict = "accepted"
    BY <1>1, <2>1 DEF RequestOK, IsEntryOf, TypeOK
  <2>3. Grows
    BY <2>1, <2>2 DEF Grows, TypeOK, EntryRow
  <2>4. /\ request'[r].verdict = local.verdict /\ request'[r].line = local.line
        /\ request'[r].item = local.item
    BY <1>1, <1>11 DEF PostDraft, TypeOK, RequestState
  <2>5. RequestKnows(r)'
    BY <1>1, <2>1, <2>2, <2>4 DEF RequestKnows, Deciding, Reviewable
  <2> QED BY <1>5, <1>6, <2>1, <2>3, <2>4, <2>5
<1>12. CASE SetItem(r)
  <2>0. PICK i \in Items : i = local.item
    BY <1>1 DEF RequestState
  <2>1. /\ local.step = "setItem" /\ UNCHANGED <<entry, past>>
        /\ item' = [item EXCEPT ![i].state = local.verdict,
                       ![i].entry = IF local.verdict = "rejected" THEN @ ELSE local.entry]
    BY <1>12, <2>0 DEF SetItem
  <2>2. Deciding(r) /\ local.verdict \in {"accepted", "corrected", "rejected"}
    BY <1>1, <2>1 DEF RequestOK, RequestState, Deciding
  <2>3. /\ \A j \in Items \ {i} : item'[j] = item[j]
        /\ item'[i].state # "absent" /\ item'[i].line = item[i].line
    BY <2>1, <2>2 DEF TypeOK, ItemRow
  <2>4. Grows
    BY <2>1, <2>3 DEF Grows
  <2>5. item[i].line \in On(r)
    BY <2>0, <2>2, OnItsLine
  <2>6. request'[r].step = "idle" \/ (request'[r].step = "setLine" /\ request'[r].line = local.line)
    <3>1. request'[r] = IF local.verdict = "rejected" THEN Resting
                        ELSE [local EXCEPT !.step = "setLine"]
      BY <1>12 DEF SetItem, TypeOK
    <3> QED BY <1>1, <3>1, RestType DEF RequestState
  <2>7. RequestKnows(r)'
    BY <2>6 DEF RequestKnows, Deciding
  <2>8. On(r)' \subseteq On(r)
    BY <1>5, <2>1, <2>6
  <2>9. Apart'
    BY <1>0, <1>2, <1>3, <2>4, <2>8, OnOthers, ApartLeaving DEF KnowInv
  <2> QED BY <1>0, <1>2, <1>3, <1>4, <2>3, <2>4, <2>5, <2>7, <2>9, OthersKnow
<1>13. CASE SetLine(r) \/ GiveUp(r)
  <2>1. UNCHANGED <<item, entry>> /\ request'[r].step = "idle"
    BY <1>13, RestType DEF SetLine, GiveUp, RewriteBegin, Rewrite, stored, TypeOK
  <2>2. RequestKnows(r)'
    BY <2>1 DEF RequestKnows, Deciding
  <2>3. On(r)' \subseteq On(r)
    BY <1>5, <2>1
  <2>4. UNCHANGED item /\ Grows
    BY <2>1, SameGrows
  <2> QED BY <1>6, <2>2, <2>3, <2>4
<1>14. (\E e \in Entries : RewriteBegin(r, e)) \/ Rewrite(r) => KnowInv'
  <2> SUFFICES ASSUME (\E e \in Entries : RewriteBegin(r, e)) \/ Rewrite(r) PROVE KnowInv'
    OBVIOUS
  <2>1. UNCHANGED item /\ request'[r].step \in {"idle", "rewrite"}
    <3>1. ASSUME NEW e \in Entries, RewriteBegin(r, e)
          PROVE  UNCHANGED item /\ request'[r].step = "rewrite"
      BY <3>1, RestType DEF RewriteBegin, stored, TypeOK, RequestState
    <3>2. CASE Rewrite(r)
      BY <3>2, RestType DEF Rewrite, TypeOK
    <3> QED BY <3>1, <3>2
  <2>2. Grows
    <3>1. CASE Rewrite(r)
      BY <1>1, <3>1, RewriteWrites
    <3>2. ASSUME NEW e \in Entries, RewriteBegin(r, e) PROVE Grows
      BY <3>2, SameGrows DEF RewriteBegin, stored
    <3> QED BY <3>1, <3>2
  <2>3. RequestKnows(r)'
    BY <2>1 DEF RequestKnows, Deciding
  <2>4. On(r)' \subseteq On(r)
    BY <1>5, <2>1
  <2> QED BY <1>6, <2>1, <2>2, <2>3, <2>4
<1> QED BY <1>8, <1>9, <1>10, <1>11, <1>12, <1>13, <1>14 DEF RequestStep

LEMMA KnowStep == TypeOK /\ QueueInv /\ KnowInv /\ [Next]_vars => KnowInv'
<1> SUFFICES ASSUME TypeOK, QueueInv, KnowInv, [Next]_vars PROVE KnowInv'
  OBVIOUS
<1>1. ASSUME UNCHANGED <<item, scan, request, past>> PROVE KnowInv'
  <2>1. Apart'
    BY <1>1 DEF KnowInv, Apart, On
  <2>2. \A s \in Scans : ScanKnows(s)'
    BY <1>1 DEF KnowInv, ScanKnows, Reviewable
  <2>3. \A r \in Requests : RequestKnows(r)'
    BY <1>1 DEF KnowInv, RequestKnows, Deciding, Reviewable
  <2> QED BY <2>1, <2>2, <2>3 DEF KnowInv
<1>2. CASE ByHand
  BY <1>1, <1>2 DEF ByHand, Match, Unmatch, PostByHand
<1>3. CASE UNCHANGED vars
  BY <1>1, <1>3 DEF vars
<1> QED BY <1>2, <1>3, ScanStepKnows, RequestStepKnows DEF Next

LEMMA KnowInvariant == Spec => [](TypeOK /\ QueueInv /\ KnowInv)
<1>1. Init => KnowInv
  <2> SUFFICES ASSUME Init PROVE KnowInv
    OBVIOUS
  <2>1. /\ \A s \in Scans : scan[s].step = "idle" /\ scan[s].items = {} /\ scan[s].lines = {}
        /\ \A r \in Requests : request[r].step = "idle"
    BY DEF Init, ScanRests, Resting
  <2>2. \A p \in Process : On(p) = {}
    BY <2>1 DEF On, Process
  <2> QED BY <2>1, <2>2 DEF KnowInv, Apart, ScanKnows, RequestKnows, Deciding
<1> QED BY <1>1, KnowStep, QueueInvariant, PTL DEF Spec

\* A suggestion that was accepted, corrected or rejected keeps its decision and its
\* entry, for any number of scans, reviewers and manual bookings, unless two
\* processes have crossed on its line.
THEOREM DecisionsStayDecided == Spec => DecisionsStand
<1>1. ASSUME TypeOK, QueueInv, KnowInv, [Next]_vars, NEW i \in Items,
             item[i].state \in {"accepted", "corrected", "rejected"},
             past'[item[i].line] # "crossed"
      PROVE  item'[i] = item[i]
  <2>0. ~Reviewable(i) /\ item[i].state # "absent" /\ item[i].line \in Lines
    BY <1>1 DEF Reviewable, TypeOK, ItemRow
  <2>1. ASSUME NEW s \in Scans, ScanStep(s) PROVE item'[i] = item[i]
    <3>1. ASSUME NEW j \in Items, NEW l \in Lines, Classify(s, l, j) PROVE item'[i] = item[i]
      BY <1>1, <2>0, <3>1 DEF Classify, TypeOK
    <3>2. ASSUME NEW j \in Items, Mark(s, j) PROVE item'[i] = item[i]
      <4>1. past[item[j].line] # "crossed" => Reviewable(j)
        BY <1>1, <3>2 DEF Mark, KnowInv, ScanKnows
      <4> QED BY <1>1, <2>0, <3>2, <4>1 DEF Mark, TypeOK
    <3> QED BY <2>1, <3>1, <3>2 DEF ScanStep, ScanBegin, ListSure, Draft, SkipItem, ScanEnd, stored
  <2>2. ASSUME NEW r \in Requests, RequestStep(r) PROVE item'[i] = item[i]
    <3>1. CASE SetItem(r)
      <4>1. Deciding(r) /\ past' = past /\ item[request[r].item].line = request[r].line
        BY <1>1, <3>1 DEF SetItem, Deciding, QueueInv, RequestOK
      <4>2. past[request[r].line] # "crossed" => Reviewable(request[r].item)
        BY <1>1, <4>1 DEF KnowInv, RequestKnows
      <4>3. i # request[r].item
        BY <1>1, <2>0, <4>1, <4>2
      <4> QED BY <1>1, <3>1, <4>3 DEF SetItem, TypeOK
    <3> QED BY <2>2, <3>1 DEF RequestStep, Accept, Correct, Reject, Review, Book, Begin, stored,
                              InsertPosted, PostDraft, SetLine, GiveUp, RewriteBegin, Rewrite
  <2> QED BY <1>1, <2>1, <2>2 DEF Next, ByHand, Match, Unmatch, PostByHand, vars
<1>2. TypeOK /\ QueueInv /\ KnowInv /\ [Next]_vars
        => [\A i \in Items :
              item[i].state \in {"accepted", "corrected", "rejected"}
              /\ past'[item[i].line] # "crossed" => item'[i] = item[i]]_vars
  BY <1>1
<1> QED BY <1>2, KnowInvariant, PTL DEF Spec, DecisionsStand

-----------------------------------------------------------------------------
(* The ledger follows the reviews: on an orderly line the one suggestion is   *)
(* decided by one review, which posts, marks the suggestion and reconciles.  *)

\* A line that nobody has crossed has one suggestion at most, and none while a
\* scan has still to classify it.
OneItem ==
    /\ \A i, j \in Items :
          /\ item[i].state # "absent" /\ item[j].state # "absent"
          /\ item[i].line = item[j].line /\ past[item[i].line] # "crossed"
          => i = j
    /\ \A s \in Scans : \A l \in scan[s].lines : past[l] # "crossed" =>
          \A i \in Items : item[i].state = "absent" \/ item[i].line # l

\* Manual bookings are on lines that say so, and a rejection books nothing.
ByHandOK(r) ==
    /\ request[r].step \notin {"idle", "rewrite"} /\ request[r].verdict = "manual" =>
          request[r].line \in byHand
    /\ request[r].step = "setLine" => request[r].verdict # "rejected"

PostedOn(e, l) == entry[e].state = "posted" /\ entry[e].line = l

Tells(i, e, l) ==
    /\ item[i].line = l /\ item[i].entry = e /\ line[l].booked = e
    /\ item[i].state \in {"accepted", "corrected"} /\ entry[e].account = Account(item[i].state)

Settled(l) ==
    /\ line[l].state = "reconciled" <=> \E e \in Entries : PostedOn(e, l)
    /\ \A e \in Entries : PostedOn(e, l) => \E i \in Items : Tells(i, e, l)

\* r has posted its entry and not reconciled line l yet.
Booking(r, l) ==
    /\ request[r].line = l /\ request[r].verdict # "rejected"
    /\ request[r].step \in {"setItem", "setLine"}

HalfBooked(r, l) ==
    LET local == request[r]  i == local.item IN
    /\ line[l].state = "open" /\ local.entry \in Entries
    /\ \A e \in Entries : PostedOn(e, l) <=> e = local.entry
    /\ entry[local.entry].account = Account(local.verdict)
    /\ local.step = "setLine" =>
          item[i].line = l /\ item[i].entry = local.entry /\ item[i].state = local.verdict

LineOK(l) ==
    Orderly(l) =>
        /\ Settled(l) \/ \E r \in Requests : Booking(r, l)
        /\ \A r \in Requests : Booking(r, l) => HalfBooked(r, l)

FollowInv ==
    /\ OneItem
    /\ \A r \in Requests : ByHandOK(r)
    /\ \A l \in Lines : LineOK(l)

RewrittenByHand == \A e \in Entries : entry[e].account = "rewritten" => entry[e].line \in byHand

LEMMA RewrittenStep == TypeOK /\ QueueInv /\ RewrittenByHand /\ [Next]_vars => RewrittenByHand'
<1> SUFFICES ASSUME TypeOK, QueueInv, RewrittenByHand, [Next]_vars PROVE RewrittenByHand'
  OBVIOUS
<1>1. ASSUME byHand \subseteq byHand',
             \A e \in Entries :
                \/ entry'[e].account # "rewritten"
                \/ entry'[e].account = entry[e].account /\ entry'[e].line = entry[e].line
                \/ entry'[e].line \in byHand'
      PROVE  RewrittenByHand'
  BY <1>1 DEF RewrittenByHand
<1>2. CASE entry' = entry /\ byHand \subseteq byHand'
  BY <1>1, <1>2
<1>3. ASSUME NEW s \in Scans, NEW i \in Items, NEW e \in Entries, Draft(s, i, e) PROVE RewrittenByHand'
  BY <1>1, <1>3 DEF Draft, TypeOK
<1>4. ASSUME NEW s \in Scans, ScanStep(s) PROVE RewrittenByHand'
  BY <1>2, <1>3, <1>4 DEF ScanStep, ScanBegin, Classify, ListSure, Mark, SkipItem, ScanEnd, stored
<1>5. ASSUME NEW r \in Requests, NEW e \in Entries, InsertPosted(r, e) PROVE RewrittenByHand'
  BY <1>1, <1>5 DEF InsertPosted, TypeOK
<1>6. ASSUME NEW r \in Requests, PostDraft(r) PROVE RewrittenByHand'
  <2>1. \A e \in Entries : entry'[e].account = entry[e].account /\ entry'[e].line = entry[e].line
    BY <1>6 DEF PostDraft, TypeOK, EntryRow
  <2> QED BY <1>1, <1>6, <2>1 DEF PostDraft
<1>7. ASSUME NEW r \in Requests, Rewrite(r) PROVE RewrittenByHand'
  <2>1. RequestOK(r)
    BY DEF QueueInv
  <2> QED BY <1>1, <1>7, <2>1, RewriteWrites
<1>8. ASSUME NEW r \in Requests, RequestStep(r) PROVE RewrittenByHand'
  BY <1>2, <1>5, <1>6, <1>7, <1>8
     DEF RequestStep, Accept, Correct, Reject, Review, Book, Begin, SetItem, SetLine, GiveUp,
         RewriteBegin, stored
<1>9. ASSUME NEW e \in Entries, PostByHand(e) PROVE RewrittenByHand'
  <2>1. \A f \in Entries : entry'[f].account = entry[f].account /\ entry'[f].line = entry[f].line
    BY <1>9 DEF PostByHand, TypeOK, EntryRow
  <2> QED BY <1>1, <1>9, <2>1 DEF PostByHand
<1>10. CASE UNCHANGED vars
  BY <1>2, <1>10 DEF vars, stored
<1> QED BY <1>2, <1>4, <1>8, <1>9, <1>10 DEF Next, ByHand, Match, Unmatch

\* A step that leaves the entries, decisions and bookings of line l as they are.
LEMMA LineOKStill ==
    ASSUME TypeOK, NEW l \in Lines, LineOK(l), line'[l] = line[l], Orderly(l)' => Orderly(l),
           \A e \in Entries :
              /\ PostedOn(e, l)' <=> PostedOn(e, l)
              /\ PostedOn(e, l) => entry'[e].account = entry[e].account,
           Orderly(l) => \A i \in Items :
              item[i].line = l /\ item[i].state \in {"accepted", "corrected"} => item'[i] = item[i],
           \A r \in Requests : Orderly(l)' =>
              /\ Booking(r, l)' => Booking(r, l)
              /\ Booking(r, l) => request'[r] = request[r]
    PROVE  LineOK(l)'
<1> SUFFICES ASSUME Orderly(l)'
             PROVE  /\ Settled(l)' \/ \E r \in Requests : Booking(r, l)'
                    /\ \A r \in Requests : Booking(r, l)' => HalfBooked(r, l)'
  BY DEF LineOK
<1>1. Orderly(l)
  OBVIOUS
<1>2. ASSUME NEW i \in Items, NEW e \in Entries, PostedOn(e, l), Tells(i, e, l) PROVE Tells(i, e, l)'
  <2>1. item'[i] = item[i]
    BY <1>1, <1>2 DEF Tells
  <2> QED BY <1>2, <2>1 DEF Tells
<1>3. Settled(l) => Settled(l)'
  BY <1>2 DEF Settled
<1>4. ASSUME NEW r \in Requests, Booking(r, l) PROVE Booking(r, l)'
  BY <1>4 DEF Booking
<1>5. ASSUME NEW r \in Requests, Booking(r, l)' PROVE HalfBooked(r, l)'
  <2>1. HalfBooked(r, l) /\ Booking(r, l) /\ request'[r] = request[r]
    BY <1>1, <1>5 DEF LineOK
  <2>2. request[r].item \in Items /\ request[r].verdict \in {"accepted", "corrected", "manual", "rejected"}
        /\ request[r].entry \in Entries
    BY <2>1 DEF TypeOK, RequestState, HalfBooked
  <2>3. PostedOn(request[r].entry, l)
    BY <2>1 DEF HalfBooked
  <2>4. request[r].step = "setLine" => item'[request[r].item] = item[request[r].item]
                                       \/ request[r].verdict = "manual"
    BY <1>1, <2>1, <2>2 DEF HalfBooked, Booking
  <2>5. request[r].step = "setLine" /\ request[r].verdict = "manual" => FALSE
    BY <2>1, <2>2 DEF HalfBooked, TypeOK, ItemRow
  <2> QED BY <2>1, <2>2, <2>3, <2>4, <2>5 DEF HalfBooked
<1> QED BY <1>1, <1>3, <1>4, <1>5 DEF LineOK

\* A step that makes no suggestion, and no scan of lines that have one.
LEMMA ItemsStill ==
    ASSUME TypeOK, TypeOK', OneItem, Marks, Grows,
           \A i \in Items : item'[i].state # "absent" => item[i].state # "absent",
           \A s \in Scans : \A l \in scan'[s].lines : past'[l] # "crossed" =>
              \/ l \in scan[s].lines
              \/ \A i \in Items : item[i].state = "absent" \/ item[i].line # l
    PROVE  OneItem'
<1>1. \A i \in Items : item'[i].state # "absent" =>
         item[i].state # "absent" /\ item'[i].line = item[i].line /\ item[i].line \in Lines
  BY DEF Grows, TypeOK, ItemRow
<1>2. ASSUME NEW i \in Items, NEW j \in Items, item'[i].state # "absent", item'[j].state # "absent",
             item'[i].line = item'[j].line, past'[item'[i].line] # "crossed"
      PROVE  i = j
  <2>1. past[item[i].line] # "crossed"
    BY <1>1, <1>2 DEF Marks
  <2> QED BY <1>1, <1>2, <2>1 DEF OneItem
<1>3. ASSUME NEW s \in Scans, NEW l \in scan'[s].lines, past'[l] # "crossed", NEW i \in Items
      PROVE  item'[i].state = "absent" \/ item'[i].line # l
  <2>1. l \in Lines
    BY <1>3 DEF TypeOK, ScanState
  <2>2. past[l] # "crossed"
    BY <1>3, <2>1 DEF Marks
  <2> QED BY <1>1, <1>3, <2>2 DEF OneItem
<1> QED BY <1>2, <1>3 DEF OneItem

LEMMA OrderlyBefore ==
    ASSUME TypeOK, [Next]_vars
    PROVE  Marks /\ \A l \in Lines : Orderly(l)' => Orderly(l)
<1> DEFINE Kept == UNCHANGED past \/ (\E S : Tears(S)) \/ \E p, S : Meets(p, S)
<1>1. ASSUME Kept, byHand \subseteq byHand'
      PROVE  Marks /\ \A l \in Lines : Orderly(l)' => Orderly(l)
  <2>1. ASSUME NEW l \in Lines, past'[l] = "clean" PROVE past[l] = "clean"
    BY <1>1, <2>1 DEF TypeOK, Tears, Meets
  <2> QED BY <1>1, <2>1, Marking DEF Orderly
<1>2. ASSUME NEW s \in Scans, ScanStep(s) PROVE Kept /\ byHand' = byHand
  BY <1>2 DEF ScanStep, ScanBegin, Classify, ListSure, Draft, Mark, SkipItem, ScanEnd
<1>3. ASSUME NEW r \in Requests, RequestStep(r) PROVE Kept /\ byHand \subseteq byHand'
  <2>1. Kept
    BY <1>3 DEF RequestStep, Accept, Correct, Reject, Review, Book, Begin, InsertPosted, PostDraft,
                SetItem, SetLine, GiveUp, RewriteBegin, Rewrite
  <2>2. byHand \subseteq byHand'
    BY <1>3 DEF RequestStep, Accept, Correct, Reject, Review, Book, Begin, InsertPosted, PostDraft,
                SetItem, SetLine, GiveUp, RewriteBegin, Rewrite
  <2> QED BY <2>1, <2>2
<1>4. CASE ByHand \/ UNCHANGED vars
  <2>1. past' = past /\ byHand \subseteq byHand'
    BY <1>4 DEF ByHand, Match, Unmatch, PostByHand, vars
  <2> QED BY <1>1, <2>1
<1> QED BY <1>2, <1>3, <1>4, <1>1 DEF Next

LEMMA ScanFollows ==
    ASSUME TypeOK, TypeOK', QueueInv, KnowInv, FollowInv, NEW s \in Scans, ScanStep(s)
    PROVE  FollowInv'
<1>1. Marks /\ \A l \in Lines : Orderly(l)' => Orderly(l)
  BY OrderlyBefore DEF Next
<1>2. UNCHANGED <<line, request, byHand>> /\ \A t \in Scans \ {s} : scan'[t] = scan[t]
  BY DEF ScanStep, ScanBegin, Classify, ListSure, Draft, Mark, SkipItem, ScanEnd, stored, TypeOK
<1>3. scan[s] \in ScanState /\ ScanOK(s) /\ ScanKnows(s)
  BY DEF TypeOK, QueueInv, KnowInv
<1>4. \A r \in Requests : ByHandOK(r)'
  BY <1>2 DEF FollowInv, ByHandOK
<1>5. ASSUME \A e \in Entries :
                \/ entry'[e] = entry[e]
                \/ entry[e].state = "absent" /\ entry'[e].state = "draft",
             \A i \in Items : past[item[i].line] # "crossed" =>
                \/ item'[i] = item[i] \/ item[i].state = "absent" \/ Reviewable(i)
      PROVE  \A l \in Lines : LineOK(l)'
  <2>1. ASSUME NEW l \in Lines PROVE LineOK(l)'
    <3>1. LineOK(l) /\ line'[l] = line[l] /\ (Orderly(l)' => Orderly(l))
      BY <1>1, <1>2 DEF FollowInv
    <3>2. \A e \in Entries : /\ PostedOn(e, l)' <=> PostedOn(e, l)
                             /\ PostedOn(e, l) => entry'[e].account = entry[e].account
      BY <1>5 DEF PostedOn
    <3>3. Orderly(l) => \A i \in Items :
             item[i].line = l /\ item[i].state \in {"accepted", "corrected"} => item'[i] = item[i]
      BY <1>5 DEF Orderly, Reviewable
    <3>4. \A r \in Requests : Booking(r, l)' <=> Booking(r, l)
      BY <1>2 DEF Booking
    <3> QED BY <1>2, <3>1, <3>2, <3>3, <3>4, LineOKStill
  <2> QED BY <2>1
<1>6. CASE ScanBegin(s) \/ ListSure(s) \/ ScanEnd(s) \/ \E i \in Items : SkipItem(s, i)
  <2>1. UNCHANGED <<item, entry>>
    BY <1>6 DEF ScanBegin, ListSure, ScanEnd, SkipItem, stored
  <2>2. scan'[s].lines \subseteq scan[s].lines \/ scan'[s].lines = Unqueued
    <3>1. CASE ScanBegin(s)
      BY <1>3, <3>1 DEF ScanBegin, TypeOK, ScanState
    <3>2. CASE ListSure(s)
      BY <1>3, <3>2 DEF ListSure, TypeOK, ScanState
    <3>3. CASE ScanEnd(s)
      BY <1>3, <3>3 DEF ScanEnd, ScanRests, TypeOK, ScanState
    <3>4. ASSUME NEW i \in Items, SkipItem(s, i) PROVE scan'[s].lines \subseteq scan[s].lines
      BY <1>3, <3>4 DEF SkipItem, TypeOK, ScanState
    <3> QED BY <1>6, <3>1, <3>2, <3>3, <3>4
  <2>3. OneItem'
    <3>1. ASSUME NEW t \in Scans, NEW l \in scan'[t].lines
          PROVE  l \in scan[t].lines \/ \A i \in Items : item[i].state = "absent" \/ item[i].line # l
      BY <1>2, <2>2, <3>1 DEF Unqueued
    <3> QED BY <1>1, <2>1, <3>1, SameGrows, ItemsStill DEF FollowInv
  <2>4. \A l \in Lines : LineOK(l)'
    BY <1>5, <2>1
  <2> QED BY <1>4, <2>3, <2>4 DEF FollowInv
<1>7. ASSUME NEW i \in Items, NEW e \in Entries, Draft(s, i, e) PROVE FollowInv'
  <2>1. /\ UNCHANGED item /\ entry[e].state = "absent" /\ entry'[e].state = "draft"
        /\ \A f \in Entries \ {e} : entry'[f] = entry[f]
    BY <1>7 DEF Draft, TypeOK
  <2>2. Grows
    BY <2>1 DEF Grows
  <2>3. scan'[s].lines = scan[s].lines
    BY <1>3, <1>7 DEF Draft, TypeOK, ScanState
  <2>4. OneItem'
    BY <1>1, <1>2, <2>1, <2>2, <2>3, ItemsStill DEF FollowInv
  <2>5. \A l \in Lines : LineOK(l)'
    BY <1>5, <2>1
  <2> QED BY <1>4, <2>4, <2>5 DEF FollowInv
<1>8. ASSUME NEW i \in Items, Mark(s, i) PROVE FollowInv'
  <2>1. /\ i = scan[s].item /\ i \in scan[s].items /\ entry' = entry
        /\ item' = [item EXCEPT ![i].state = "auto_posted", ![i].entry = scan[s].entry]
    BY <1>3, <1>8 DEF Mark, ScanKnows
  <2>2. /\ \A j \in Items \ {i} : item'[j] = item[j]
        /\ item'[i].state = "auto_posted" /\ item'[i].line = item[i].line
        /\ item[i].state # "absent"
    BY <1>3, <2>1 DEF TypeOK, ItemRow, ScanOK
  <2>3. Grows
    BY <2>1, <2>2 DEF Grows
  <2>4. scan'[s].lines = scan[s].lines
    BY <1>3, <1>8 DEF Mark, TypeOK, ScanState
  <2>5. OneItem'
    BY <1>1, <1>2, <2>2, <2>3, <2>4, ItemsStill DEF FollowInv
  <2>6. \A l \in Lines : LineOK(l)'
    BY <1>3, <1>5, <2>1, <2>2 DEF ScanKnows
  <2> QED BY <1>4, <2>5, <2>6 DEF FollowInv
<1>9. ASSUME NEW i \in Items, NEW l \in Lines, Classify(s, l, i) PROVE FollowInv'
  <2>1. PICK advice \in {"none", "some", "sure"} :
           item' = [item EXCEPT ![i] = [NoItem EXCEPT !.state = "pending_review", !.line = l,
                                                      !.advice = advice]]
    BY <1>9 DEF Classify
  <2>2. item[i].state = "absent" /\ UNCHANGED <<entry, past>> /\ l \in scan[s].lines
    BY <1>9 DEF Classify
  <2>3. (\A j \in Items \ {i} : item'[j] = item[j]) /\ item'[i].line = l
    BY <2>1 DEF TypeOK, NoItem
  <2>4. scan'[s].lines = scan[s].lines \ {l}
    BY <1>3, <1>9 DEF Classify, TypeOK, ScanState
  <2>5. past[l] # "crossed" => \A j \in Items : item[j].state = "absent" \/ item[j].line # l
    BY <2>2 DEF FollowInv, OneItem
  <2>6. past[l] # "crossed" => \A t \in Scans \ {s} : l \notin scan[t].lines
    <3>1. \A t \in Scans : t \in Process /\ scan[t].lines \subseteq On(t)
      BY OnScan DEF Process
    <3> QED BY <2>2, <3>1 DEF KnowInv, Apart
  <2>7. OneItem'
    <3>1. ASSUME NEW j \in Items, NEW k \in Items, item'[j].state # "absent",
                 item'[k].state # "absent", item'[j].line = item'[k].line,
                 past'[item'[j].line] # "crossed"
          PROVE  j = k
      BY <2>2, <2>3, <2>5, <3>1 DEF FollowInv, OneItem
    <3>2. ASSUME NEW t \in Scans, NEW m \in scan'[t].lines, past'[m] # "crossed", NEW j \in Items
          PROVE  item'[j].state = "absent" \/ item'[j].line # m
      <4>1. m \in scan[t].lines /\ m # l
        BY <1>2, <2>2, <2>4, <2>6, <3>2
      <4> QED BY <2>2, <2>3, <3>2, <4>1 DEF FollowInv, OneItem
    <3> QED BY <3>1, <3>2 DEF OneItem
  <2>8. \A m \in Lines : LineOK(m)'
    BY <1>5, <2>2, <2>3
  <2> QED BY <1>4, <2>7, <2>8 DEF FollowInv
<1> QED BY <1>6, <1>7, <1>8, <1>9 DEF ScanStep

LEMMA RequestFollows ==
    ASSUME TypeOK, TypeOK', QueueInv, KnowInv, RewrittenByHand, FollowInv, NEW r \in Requests,
           RequestStep(r)
    PROVE  FollowInv'
<1> DEFINE local == request[r]
           here == local.line
<1>1. Marks /\ \A l \in Lines : Orderly(l)' => Orderly(l)
  BY OrderlyBefore DEF Next
<1>2. /\ \A q \in Requests \ {r} : request'[q] = request[q]
      /\ scan' = scan /\ byHand \subseteq byHand'
  <2>1. \A q \in Requests \ {r} : request'[q] = request[q]
    BY DEF RequestStep, Accept, Correct, Reject, Review, Book, Begin, InsertPosted, PostDraft, SetItem,
           SetLine, GiveUp, RewriteBegin, Rewrite, TypeOK
  <2>2. scan' = scan /\ byHand \subseteq byHand'
    BY DEF RequestStep, Accept, Correct, Reject, Review, Book, Begin, InsertPosted, PostDraft, SetItem,
           SetLine, GiveUp, RewriteBegin, Rewrite
  <2> QED BY <2>1, <2>2
<1>3. /\ local \in RequestState /\ RequestOK(r) /\ RequestKnows(r) /\ ByHandOK(r)
      /\ here \in Lines /\ local.item \in Items
  BY DEF TypeOK, QueueInv, KnowInv, FollowInv, RequestState
<1>4. ASSUME Grows, ByHandOK(r)', \A l \in Lines : LineOK(l)',
             \A i \in Items : item'[i].state # "absent" => item[i].state # "absent"
      PROVE  FollowInv'
  <2>1. OneItem'
    BY <1>1, <1>2, <1>4, ItemsStill DEF FollowInv
  <2>2. \A q \in Requests : ByHandOK(q)'
    BY <1>2, <1>4 DEF FollowInv, ByHandOK
  <2> QED BY <1>4, <2>1, <2>2 DEF FollowInv
<1>5. ASSUME NEW l \in Lines, line'[l] = line[l],
             \A e \in Entries :
                /\ PostedOn(e, l)' <=> PostedOn(e, l)
                /\ PostedOn(e, l) => entry'[e].account = entry[e].account,
             Orderly(l) => \A i \in Items :
                item[i].line = l /\ item[i].state \in {"accepted", "corrected"}
                => item'[i] = item[i],
             Orderly(l)' => ~Booking(r, l) /\ ~Booking(r, l)'
      PROVE  LineOK(l)'
  <2>1. LineOK(l) /\ (Orderly(l)' => Orderly(l))
    BY <1>1 DEF FollowInv
  <2>2. \A q \in Requests \ {r} : Booking(q, l)' <=> Booking(q, l)
    BY <1>2 DEF Booking
  <2>3. \A q \in Requests : Orderly(l)' =>
           /\ Booking(q, l)' => Booking(q, l)
           /\ Booking(q, l) => request'[q] = request[q]
    BY <1>2, <1>5, <2>2
  <2> QED BY <1>5, <2>1, <2>3, LineOKStill
<1>6. ASSUME local.step \notin {"idle", "rewrite"}, Orderly(here), NEW q \in Requests \ {r} PROVE ~Booking(q, here)
  <2>1. Booking(q, here) => here \in On(q) /\ here \in On(r)
    BY <1>6 DEF Booking, On
  <2> QED BY <1>3, <1>6, <2>1 DEF KnowInv, Apart, Process, Orderly
<1>7. ASSUME Orderly(here), local.step \in {"insert", "post"}
      PROVE  /\ line[here].state = "open" /\ \A e \in Entries : ~PostedOn(e, here)
             /\ local.verdict \in {"accepted", "corrected"}
  <2> DEFINE i == local.item
  <2>1. local.verdict \in {"accepted", "corrected"}
    BY <1>3, <1>7 DEF RequestState, RequestOK, ByHandOK, Orderly
  <2>2. Reviewable(i) /\ item[i].state # "absent" /\ item[i].line = here /\ i \in Items
        /\ past[here] # "crossed"
    BY <1>3, <1>7, <2>1 DEF RequestKnows, Deciding, RequestOK, Orderly
  <2>3. \A q \in Requests : ~Booking(q, here)
    BY <1>6, <1>7 DEF Booking
  <2>4. Settled(here)
    BY <1>3, <1>7, <2>3 DEF FollowInv, LineOK
  <2>5. ASSUME NEW e \in Entries, PostedOn(e, here) PROVE FALSE
    <3>1. PICK j \in Items : Tells(j, e, here)
      BY <2>4, <2>5 DEF Settled
    <3>2. item[j].line = here /\ item[j].state \in {"accepted", "corrected"}
      BY <3>1 DEF Tells
    <3>3. i = j
      BY <2>2, <3>2 DEF FollowInv, OneItem
    <3> QED BY <2>2, <3>2, <3>3 DEF Reviewable
  <2>6. line[here].state = "open"
    BY <1>3, <2>4, <2>5 DEF Settled, TypeOK, LineRow
  <2> QED BY <2>1, <2>5, <2>6
<1>8. ASSUME NEW i \in Items, Accept(r, i) \/ Correct(r, i) \/ Reject(r, i) PROVE FollowInv'
  <2>1. PICK verdict \in {"accepted", "corrected", "rejected"}, step \in {"insert", "post", "setItem"} :
           Review(r, i, verdict, step) /\ (step = "setItem" => verdict = "rejected")
    BY <1>8 DEF Accept, Correct, Reject
  <2> DEFINE new == [step |-> step, line |-> item[i].line, item |-> i, verdict |-> verdict,
                     entry |-> item[i].entry]
  <2>2. /\ UNCHANGED <<line, item, entry>> /\ local.step = "idle"
        /\ request'[r].step = step /\ request'[r].verdict = verdict
    BY <2>1 DEF Review, Begin, stored, TypeOK
  <2>3. \A l \in Lines : ~Booking(r, l) /\ ~Booking(r, l)'
    BY <2>1, <2>2 DEF Booking
  <2>4. \A l \in Lines : LineOK(l)'
    BY <1>5, <2>2, <2>3 DEF PostedOn
  <2>5. ByHandOK(r)'
    BY <2>1, <2>2 DEF ByHandOK
  <2> QED BY <1>4, <2>2, <2>4, <2>5, SameGrows
<1>9. ASSUME NEW l \in Lines, Book(r, l) PROVE FollowInv'
  <2>1. /\ UNCHANGED <<line, item, entry>> /\ local.step = "idle" /\ l \in byHand'
        /\ request'[r] = [Resting EXCEPT !.step = "insert", !.line = l]
    BY <1>9 DEF Book, Begin, stored, TypeOK
  <2>2. request'[r].step = "insert" /\ request'[r].line = l
    BY <2>1 DEF Resting
  <2>3. \A m \in Lines : ~Booking(r, m) /\ ~Booking(r, m)'
    BY <2>1, <2>2 DEF Booking
  <2>4. \A m \in Lines : LineOK(m)'
    BY <1>5, <2>1, <2>3 DEF PostedOn
  <2>5. ByHandOK(r)'
    BY <2>1, <2>2 DEF ByHandOK
  <2> QED BY <1>4, <2>1, <2>4, <2>5, SameGrows
<1>10. ASSUME NEW e \in Entries, UNCHANGED <<line, item>>, local.step \in {"insert", "post"},
              \A f \in Entries \ {e} : entry'[f] = entry[f],
              entry'[e].state = "posted", entry'[e].line = here,
              ~(entry[e].state = "posted" /\ entry[e].line # here),
              Orderly(here) /\ local.verdict # "manual" => entry'[e].account = Account(local.verdict),
              request'[r] = [local EXCEPT !.entry = e,
                  !.step = IF local.verdict = "manual" THEN "setLine" ELSE "setItem"],
              Grows
       PROVE  FollowInv'
  <2>1. /\ request'[r].line = here /\ request'[r].entry = e /\ request'[r].verdict = local.verdict
        /\ request'[r].item = local.item
        /\ request'[r].step = IF local.verdict = "manual" THEN "setLine" ELSE "setItem"
    BY <1>3, <1>10 DEF RequestState
  <2>2. ASSUME NEW l \in Lines \ {here} PROVE LineOK(l)'
    <3>1. \A f \in Entries : /\ PostedOn(f, l)' <=> PostedOn(f, l)
                             /\ PostedOn(f, l) => entry'[f].account = entry[f].account
      BY <1>10 DEF PostedOn
    <3>2. ~Booking(r, l) /\ ~Booking(r, l)'
      BY <2>1 DEF Booking
    <3> QED BY <1>5, <1>10, <3>1, <3>2
  <2>3. ASSUME NEW l \in Lines, l = here PROVE LineOK(l)'
    <3> SUFFICES ASSUME Orderly(l)'
                 PROVE  /\ Booking(r, l)' /\ HalfBooked(r, l)'
                        /\ \A q \in Requests \ {r} : ~Booking(q, l)'
      BY DEF LineOK
    <3>1. Orderly(here)
      BY <1>1, <2>3
    <3>2. /\ line[l].state = "open" /\ \A f \in Entries : ~PostedOn(f, l)
          /\ local.verdict \in {"accepted", "corrected"}
      BY <1>7, <1>10, <2>3, <3>1
    <3>3. \A q \in Requests \ {r} : ~Booking(q, l)'
      BY <1>2, <1>6, <1>10, <2>3, <3>1 DEF Booking
    <3>4. \A f \in Entries : PostedOn(f, l)' <=> f = e
      BY <1>10, <2>3, <3>2 DEF PostedOn
    <3>5. Booking(r, l)'
      BY <2>1, <2>3, <3>2 DEF Booking
    <3>6. HalfBooked(r, l)'
      <4>1. entry'[e].account = Account(local.verdict)
        BY <1>10, <2>3, <3>1, <3>2
      <4>2. /\ line'[l].state = "open" /\ request'[r].step = "setItem"
            /\ request'[r].entry = e /\ request'[r].verdict = local.verdict
        BY <1>10, <2>1, <3>2
      <4> QED BY <3>4, <4>1, <4>2 DEF HalfBooked
    <3> QED BY <3>3, <3>5, <3>6
  <2>4. ByHandOK(r)'
    BY <1>2, <1>3, <1>10, <2>1 DEF ByHandOK, RequestOK
  <2>5. \A l \in Lines : LineOK(l)'
    BY <2>2, <2>3
  <2> QED BY <1>4, <1>10, <2>4, <2>5
<1>11. ASSUME NEW e \in Entries, InsertPosted(r, e) PROVE FollowInv'
  <2>1. /\ local.step = "insert" /\ UNCHANGED <<line, item>> /\ entry[e].state = "absent"
        /\ \A f \in Entries \ {e} : entry'[f] = entry[f]
        /\ entry'[e] = [state |-> "posted", line |-> here,
              account |-> IF local.verdict = "accepted" THEN "suggested" ELSE "chosen"]
        /\ request'[r] = [local EXCEPT !.entry = e,
              !.step = IF local.verdict = "manual" THEN "setLine" ELSE "setItem"]
    BY <1>11 DEF InsertPosted, TypeOK
  <2>2. Grows
    BY <2>1 DEF Grows
  <2>3. /\ entry'[e].state = "posted" /\ entry'[e].line = here
        /\ ~(entry[e].state = "posted" /\ entry[e].line # here)
        /\ local.verdict # "manual" => entry'[e].account = Account(local.verdict)
    BY <2>1 DEF Account
  <2> QED BY <1>10, <2>1, <2>2, <2>3
<1>12. CASE PostDraft(r)
  <2>1. PICK e \in Entries : e = local.entry /\ IsEntryOf(e, here, "suggested")
    BY <1>3, <1>12 DEF PostDraft, RequestOK, IsEntryOf
  <2>2. /\ local.step = "post" /\ local.verdict = "accepted" /\ UNCHANGED <<line, item>>
        /\ entry' = [entry EXCEPT ![e].state = "posted"]
        /\ request'[r] = [local EXCEPT !.step = "setItem"]
    BY <1>3, <1>12, <2>1 DEF PostDraft, TypeOK, RequestOK
  <2>3. /\ \A f \in Entries \ {e} : entry'[f] = entry[f]
        /\ entry'[e].state = "posted" /\ entry'[e].line = entry[e].line
        /\ entry'[e].account = entry[e].account
        /\ Orderly(here) => entry[e].account = "suggested"
    BY <2>1, <2>2 DEF TypeOK, EntryRow, RewrittenByHand, IsEntryOf, Orderly
  <2>4. Grows
    BY <2>2, <2>3 DEF Grows
  <2>5. request'[r] = [local EXCEPT !.entry = e,
              !.step = IF local.verdict = "manual" THEN "setLine" ELSE "setItem"]
    BY <1>3, <2>1, <2>2 DEF RequestState
  <2>6. /\ entry'[e].state = "posted" /\ entry'[e].line = here
        /\ ~(entry[e].state = "posted" /\ entry[e].line # here)
        /\ Orderly(here) /\ local.verdict # "manual" => entry'[e].account = Account(local.verdict)
    BY <2>1, <2>2, <2>3 DEF Account, IsEntryOf
  <2> QED BY <1>10, <2>2, <2>3, <2>4, <2>5, <2>6
<1>13. CASE SetItem(r)
  <2> DEFINE i == local.item
  <2>1. /\ local.step = "setItem" /\ UNCHANGED <<line, entry, past>>
        /\ item' = [item EXCEPT ![i].state = local.verdict,
                       ![i].entry = IF local.verdict = "rejected" THEN @ ELSE local.entry]
        /\ request'[r] = IF local.verdict = "rejected" THEN Resting
                         ELSE [local EXCEPT !.step = "setLine"]
    BY <1>13 DEF SetItem, TypeOK
  <2>2. /\ local.verdict \in {"accepted", "corrected", "rejected"}
        /\ item[i].state # "absent" /\ item[i].line = here
        /\ past[here] # "crossed" => Reviewable(i)
    BY <1>3, <2>1 DEF RequestOK, RequestState, RequestKnows, Deciding
  <2>3. /\ \A j \in Items \ {i} : item'[j] = item[j]
        /\ item'[i].state = local.verdict /\ item'[i].line = here
        /\ local.verdict # "rejected" => item'[i].entry = local.entry
    BY <1>3, <2>1, <2>2 DEF TypeOK, ItemRow
  <2> HIDE DEF i
  <2>4. Grows
    BY <2>1, <2>2, <2>3 DEF Grows
  <2>5. \A j \in Items : item'[j].state # "absent" => item[j].state # "absent"
    BY <2>2, <2>3
  <2>6. \A l \in Lines : Orderly(l) => \A j \in Items :
           item[j].line = l /\ item[j].state \in {"accepted", "corrected"} => item'[j] = item[j]
    BY <2>2, <2>3 DEF Orderly, Reviewable
  <2>7. CASE local.verdict = "rejected"
    <3>1. request'[r] = Resting
      BY <2>1, <2>7
    <3>2. \A l \in Lines : ~Booking(r, l) /\ ~Booking(r, l)'
      BY <2>7, <3>1, RestType DEF Booking
    <3>3. \A l \in Lines : LineOK(l)'
      BY <1>5, <2>1, <2>6, <3>2 DEF PostedOn
    <3>4. ByHandOK(r)'
      BY <3>1, RestType DEF ByHandOK
    <3> QED BY <1>4, <2>4, <2>5, <3>3, <3>4
  <2>8. CASE local.verdict # "rejected"
    <3>1. /\ request'[r].step = "setLine" /\ request'[r].line = here /\ request'[r].item = i
          /\ request'[r].verdict = local.verdict /\ request'[r].entry = local.entry
      BY <1>3, <2>1, <2>8 DEF RequestState, i
    <3>2. ASSUME NEW l \in Lines \ {here} PROVE LineOK(l)'
      <4>1. ~Booking(r, l) /\ ~Booking(r, l)'
        BY <3>1 DEF Booking
      <4> QED BY <1>5, <2>1, <2>6, <4>1 DEF PostedOn
    <3>3. ASSUME NEW l \in Lines, l = here PROVE LineOK(l)'
      <4> SUFFICES ASSUME Orderly(l)'
                   PROVE  /\ Booking(r, l)' /\ HalfBooked(r, l)'
                          /\ \A q \in Requests \ {r} : ~Booking(q, l)'
        BY DEF LineOK
      <4>1. Orderly(here)
        BY <1>1, <3>3
      <4>2. HalfBooked(r, l)
        BY <2>1, <2>8, <3>3, <4>1 DEF FollowInv, LineOK, Booking
      <4>3. \A q \in Requests \ {r} : ~Booking(q, l)'
        BY <1>2, <1>6, <2>1, <3>3, <4>1 DEF Booking
      <4>4. Booking(r, l)'
        BY <2>8, <3>1, <3>3 DEF Booking
      <4>5. HalfBooked(r, l)'
        <5>1. \A e \in Entries : PostedOn(e, l)' <=> PostedOn(e, l)
          BY <2>1 DEF PostedOn
        <5>2. item'[i].line = l /\ item'[i].entry = local.entry /\ item'[i].state = local.verdict
          BY <2>3, <2>8, <3>3
        <5> QED BY <2>1, <3>1, <4>2, <5>1, <5>2 DEF HalfBooked
      <4> QED BY <4>3, <4>4, <4>5
    <3>4. ByHandOK(r)'
      BY <2>2, <2>8, <3>1 DEF ByHandOK
    <3>5. \A l \in Lines : LineOK(l)'
      BY <3>2, <3>3
    <3> QED BY <1>4, <2>4, <2>5, <3>4, <3>5
  <2> QED BY <2>7, <2>8
<1>14. CASE SetLine(r)
  <2>1. /\ local.step = "setLine" /\ UNCHANGED <<item, entry, past, byHand>>
        /\ line' = [line EXCEPT ![here] = [state |-> "reconciled", booked |-> local.entry]]
        /\ request'[r] = Resting
    BY <1>14 DEF SetLine, TypeOK
  <2>2. line'[here].state = "reconciled" /\ line'[here].booked = local.entry
        /\ \A l \in Lines \ {here} : line'[l] = line[l]
    BY <1>3, <2>1 DEF TypeOK
  <2>3. ASSUME NEW l \in Lines \ {here} PROVE LineOK(l)'
    <3>1. ~Booking(r, l) /\ ~Booking(r, l)'
      BY <2>1, RestType DEF Booking
    <3> QED BY <1>5, <2>1, <2>2, <3>1 DEF PostedOn
  <2>4. ASSUME NEW l \in Lines, l = here PROVE LineOK(l)'
    <3> SUFFICES ASSUME Orderly(l)'
                 PROVE  Settled(l)' /\ \A q \in Requests : ~Booking(q, l)'
      BY DEF LineOK
    <3>1. Orderly(here)
      BY <1>1, <2>4
    <3>2. HalfBooked(r, here) /\ local.verdict \in {"accepted", "corrected"}
      BY <1>3, <2>1, <3>1 DEF FollowInv, LineOK, Booking, ByHandOK, RequestState, Orderly
    <3>3. \A q \in Requests \ {r} : ~Booking(q, here)
      BY <1>6, <2>1, <3>1
    <3>4. \A q \in Requests : ~Booking(q, l)'
      BY <1>2, <2>1, <2>4, <3>3, RestType DEF Booking
    <3>5. Settled(l)'
      BY <1>3, <2>1, <2>2, <2>4, <3>2 DEF Settled, HalfBooked, PostedOn, Tells
    <3> QED BY <3>4, <3>5
  <2>5. ByHandOK(r)'
    BY <2>1, RestType DEF ByHandOK
  <2>6. \A l \in Lines : LineOK(l)'
    BY <2>3, <2>4
  <2> QED BY <1>4, <2>1, <2>5, <2>6, SameGrows
<1>15. CASE GiveUp(r)
  <2>1. /\ UNCHANGED <<line, item, entry, byHand>> /\ request'[r] = Resting
        /\ IF local.step \in {"setItem", "setLine"} /\ local.verdict # "rejected"
           THEN Tears({here}) ELSE UNCHANGED past
    BY <1>15 DEF GiveUp, stored, TypeOK
  <2>2. ASSUME NEW l \in Lines PROVE Orderly(l)' => ~Booking(r, l) /\ ~Booking(r, l)'
    <3>1. ~Booking(r, l)'
      BY <2>1, RestType DEF Booking
    <3>2. Booking(r, l) => past'[l] # "clean"
      BY <2>1 DEF Booking, Tears
    <3> QED BY <3>1, <3>2 DEF Orderly
  <2>3. \A l \in Lines : LineOK(l)'
    BY <1>5, <2>1, <2>2 DEF PostedOn
  <2>4. ByHandOK(r)'
    BY <2>1, RestType DEF ByHandOK
  <2> QED BY <1>4, <2>1, <2>3, <2>4, SameGrows
<1>16. ASSUME NEW e \in Entries, RewriteBegin(r, e) PROVE FollowInv'
  <2>1. /\ UNCHANGED <<line, item, entry>> /\ local.step = "idle"
        /\ request'[r].step = "rewrite"
    BY <1>16, RestType DEF RewriteBegin, stored, TypeOK, RequestState
  <2>2. \A l \in Lines : ~Booking(r, l) /\ ~Booking(r, l)'
    BY <2>1 DEF Booking
  <2>3. \A l \in Lines : LineOK(l)'
    BY <1>5, <2>1, <2>2 DEF PostedOn
  <2>4. ByHandOK(r)'
    BY <2>1 DEF ByHandOK
  <2> QED BY <1>4, <2>1, <2>3, <2>4, SameGrows
<1>17. CASE Rewrite(r)
  <2>1. PICK e \in Entries :
           /\ \A f \in Entries \ {e} : entry'[f] = entry[f]
           /\ byHand' = byHand \cup {entry[e].line} /\ entry'[e].line = entry[e].line
           /\ request'[r] = Resting /\ Grows
    BY <1>3, <1>17, RewriteWrites
  <2>2. UNCHANGED <<line, item>> /\ local.step = "rewrite"
    BY <1>17 DEF Rewrite
  <2>3. \A l \in Lines : ~Booking(r, l) /\ ~Booking(r, l)'
    BY <2>1, <2>2, RestType DEF Booking
  <2>4. ASSUME NEW l \in Lines PROVE LineOK(l)'
    <3>1. CASE l = entry[e].line
      BY <2>1, <3>1 DEF LineOK, Orderly
    <3>2. CASE l # entry[e].line
      <4>1. \A f \in Entries : /\ PostedOn(f, l)' <=> PostedOn(f, l)
                               /\ PostedOn(f, l) => entry'[f].account = entry[f].account
        BY <2>1, <3>2 DEF PostedOn
      <4> QED BY <1>5, <2>2, <2>3, <4>1
    <3> QED BY <3>1, <3>2
  <2>5. ByHandOK(r)'
    BY <2>1, RestType DEF ByHandOK
  <2> QED BY <1>4, <2>1, <2>2, <2>4, <2>5
<1> QED BY <1>8, <1>9, <1>11, <1>12, <1>13, <1>14, <1>15, <1>16, <1>17 DEF RequestStep

LEMMA FollowStep ==
    TypeOK /\ TypeOK' /\ QueueInv /\ KnowInv /\ RewrittenByHand /\ FollowInv /\ [Next]_vars
       => FollowInv'
<1> SUFFICES ASSUME TypeOK, TypeOK', QueueInv, KnowInv, RewrittenByHand, FollowInv, [Next]_vars
             PROVE  FollowInv'
  OBVIOUS
<1>1. Marks /\ \A l \in Lines : Orderly(l)' => Orderly(l)
  BY OrderlyBefore
<1>2. ASSUME UNCHANGED <<item, scan, request>>, byHand \subseteq byHand', Grows,
             \A l \in Lines : Orderly(l)' =>
                /\ line'[l] = line[l]
                /\ \A e \in Entries : PostedOn(e, l)' <=> PostedOn(e, l)
                /\ \A e \in Entries : entry'[e].account = entry[e].account
      PROVE  FollowInv'
  <2>1. OneItem'
    BY <1>1, <1>2, ItemsStill DEF FollowInv
  <2>2. \A r \in Requests : ByHandOK(r)'
    BY <1>2 DEF FollowInv, ByHandOK
  <2>3. ASSUME NEW l \in Lines PROVE LineOK(l)'
    <3>1. CASE ~Orderly(l)'
      BY <3>1 DEF LineOK
    <3>2. CASE Orderly(l)'
      <4>1. LineOK(l) /\ (Orderly(l)' => Orderly(l))
        BY <1>1 DEF FollowInv
      <4>2. \A e \in Entries : /\ PostedOn(e, l)' <=> PostedOn(e, l)
                               /\ PostedOn(e, l) => entry'[e].account = entry[e].account
        BY <1>2, <3>2
      <4>3. \A r \in Requests : Booking(r, l)' <=> Booking(r, l)
        BY <1>2 DEF Booking
      <4> QED BY <1>2, <3>2, <4>1, <4>2, <4>3, LineOKStill
    <3> QED BY <3>1, <3>2
  <2> QED BY <2>1, <2>2, <2>3 DEF FollowInv
<1>3. ASSUME NEW l \in Lines, Unmatch(l) \/ \E e \in Entries : Match(l, e) PROVE FollowInv'
  <2>1. /\ UNCHANGED <<item, entry, scan, request>> /\ byHand' = byHand \cup {l}
        /\ \A m \in Lines \ {l} : line'[m] = line[m]
    BY <1>3 DEF Unmatch, Match, TypeOK
  <2>2. ~Orderly(l)'
    BY <2>1 DEF Orderly
  <2> QED BY <1>2, <2>1, <2>2, SameGrows DEF PostedOn
<1>4. ASSUME NEW e \in Entries, PostByHand(e) PROVE FollowInv'
  <2>1. /\ UNCHANGED <<line, item, scan, request>> /\ byHand' = byHand \cup {entry[e].line}
        /\ entry[e].state = "draft" /\ entry' = [entry EXCEPT ![e].state = "posted"]
    BY <1>4 DEF PostByHand
  <2>2. /\ \A f \in Entries \ {e} : entry'[f] = entry[f]
        /\ entry'[e].state = "posted" /\ entry'[e].line = entry[e].line
        /\ entry'[e].account = entry[e].account
    BY <2>1 DEF TypeOK, EntryRow
  <2>3. Grows
    BY <2>1, <2>2 DEF Grows
  <2>4. ASSUME NEW l \in Lines, Orderly(l)'
        PROVE  \A f \in Entries : PostedOn(f, l)' <=> PostedOn(f, l)
    <3>1. l # entry[e].line
      BY <2>1, <2>4 DEF Orderly
    <3> QED BY <2>2, <3>1 DEF PostedOn
  <2>5. \A f \in Entries : entry'[f].account = entry[f].account
    BY <2>2
  <2> QED BY <1>2, <2>1, <2>3, <2>4, <2>5
<1>5. CASE UNCHANGED vars
  <2>1. UNCHANGED <<line, item, entry, scan, request, byHand>>
    BY <1>5 DEF vars
  <2> QED BY <1>2, <2>1, SameGrows DEF PostedOn
<1> QED BY <1>3, <1>4, <1>5, ScanFollows, RequestFollows DEF Next, ByHand

\* Between reviews a line on which the queue alone has worked, one process after the
\* other and none ending half way, says reconciled exactly when one posted entry
\* books it, on the account that was decided: for any number of lines and processes.
THEOREM LedgerKeepsFollowing == Spec => []LedgerFollowsReview
<1>1. Init => FollowInv /\ RewrittenByHand
  <2> SUFFICES ASSUME Init PROVE FollowInv /\ RewrittenByHand
    OBVIOUS
  <2>1. /\ \A s \in Scans : scan[s].lines = {}
        /\ \A r \in Requests : request[r].step = "idle"
        /\ \A i \in Items : item[i].state = "absent"
        /\ \A l \in Lines : line[l].state = "open"
        /\ \A e \in Entries : entry[e].state = "absent" /\ entry[e].account = "suggested"
    BY DEF Init, ScanRests, Resting, NoItem, NoEntry
  <2>2. OneItem /\ \A r \in Requests : ByHandOK(r)
    BY <2>1 DEF OneItem, ByHandOK
  <2>3. ASSUME NEW l \in Lines PROVE Settled(l) /\ \A r \in Requests : ~Booking(r, l)
    BY <2>1 DEF Settled, Booking, PostedOn
  <2> QED BY <2>1, <2>2, <2>3 DEF FollowInv, LineOK, RewrittenByHand
<1>2. TypeOK /\ FollowInv => LedgerFollowsReview
  <2> SUFFICES ASSUME TypeOK, FollowInv, NEW l \in Lines, Orderly(l), AtRest(l)
               PROVE  /\ line[l].state = "reconciled" <=> Posted(l) # {}
                      /\ \A e \in Posted(l) : \E i \in Items :
                            /\ item[i].line = l /\ item[i].entry = e /\ line[l].booked = e
                            /\ \/ item[i].state = "accepted" /\ entry[e].account = "suggested"
                               \/ item[i].state = "corrected" /\ entry[e].account = "chosen"
    BY DEF LedgerFollowsReview
  <2>1. \A r \in Requests : ~Booking(r, l)
    BY DEF AtRest, On, Booking
  <2>2. Settled(l)
    BY <2>1 DEF FollowInv, LineOK
  <2> QED BY <2>2 DEF Settled, PostedOn, Posted, Tells, Account
<1> QED BY <1>1, <1>2, TypeStep, RewrittenStep, FollowStep, KnowInvariant, PTL DEF Spec

-----------------------------------------------------------------------------
(* The month-end close.                                                      *)

LiveEntries == {e \in JournalIds : Live(e)}

PostedIn(m) == {e \in JournalIds : journal[e].state = "posted" /\ MonthOf[journal[e].date] = m}

LinesOn(a) == [e \in JournalIds |-> journal[e].lines[a]]

\* Closing entries are made posted, and only posted entries are closing ones.
ClosingsArePosted == \A e \in JournalIds : journal[e].kind = "closing" => journal[e].state = "posted"

\* Two closings of a day at once cross it; until then one that has found no closing
\* entry is right.
OneAtATime ==
    \A m \in Days \ crossed :
        /\ \A c, d \in Closers(m) : c = d
        /\ \A c \in Closers(m) : closing[c].step \in {"unclosed", "income", "expense"} =>
              ClosingsOf(m) = {}

\* A closing of a sealed date has not asked for the lock.
SealedWait == \A c \in Closings : closing[c].end \in sealed => closing[c].step \in {"idle", "begun"}

\* What a closing has read is still the balance, when nothing was written since.
FreshReads ==
    \A c \in Closings : closing[c].fresh =>
        /\ closing[c].step \in {"income", "expense"}
        /\ closing[c].read["income"] = Balance("income")
        /\ closing[c].step = "expense" => closing[c].read["expense"] = Balance("expense")

LEMMA DaysAreDates ==
    /\ Days \subseteq Dates /\ \A d \in Dates : DayOf[d] \in Days
    /\ Now \in Dates /\ Entered \subseteq Dates /\ Lockable \subseteq Dates
BY CloseAssumption DEF Days

CloseInv ==
    /\ CloseTypeOK /\ IsFiniteSet(LiveEntries)
    /\ ClosingsArePosted /\ ClosedOnce /\ OneAtATime /\ SealedWait /\ FreshReads

-----------------------------------------------------------------------------
(* Totals are sums.                                                          *)
LEMMA TotalIsSum ==
    ASSUME NEW ent, NEW a, NEW S \in SUBSET JournalIds, IsFiniteSet(S)
    PROVE  MapThenFoldSet(+, 0, LAMBDA e : ent[e].lines[a], LAMBDA T : CHOOSE e \in T : TRUE, S)
           = Sum([e \in JournalIds |-> ent[e].lines[a]], S)
<1> DEFINE lines == [e \in JournalIds |-> ent[e].lines[a]]
           iter == CHOOSE g : g = [s \in SUBSET S |-> IF s = {} THEN 0
                                      ELSE ent[CHOOSE e \in s : TRUE].lines[a] + g[s \ {CHOOSE e \in s : TRUE}]]
<1>1. MapThenFoldSet(+, 0, LAMBDA e : ent[e].lines[a], LAMBDA T : CHOOSE e \in T : TRUE, S) = iter[S]
  BY DEF MapThenFoldSet
<1>2. PICK g : Adds(g, lines, S) /\ Sum(lines, S) = g[S]
  BY SumUnfold, AddsExists
<1>3. \A s \in SUBSET S : s # {} => lines[Chosen(s)] = ent[Chosen(s)].lines[a]
  BY ChosenIn
<1>4. g = [s \in SUBSET S |-> IF s = {} THEN 0 ELSE ent[Chosen(s)].lines[a] + g[s \ {Chosen(s)}]]
  BY <1>2, <1>3 DEF Adds
<1>5. iter = [s \in SUBSET S |-> IF s = {} THEN 0 ELSE ent[Chosen(s)].lines[a] + iter[s \ {Chosen(s)}]]
  BY <1>4 DEF Chosen
<1> HIDE DEF iter, lines
<1>6. Adds(iter, lines, S)
  BY <1>3, <1>5 DEF Adds
<1>7. iter[S] = g[S]
  BY <1>2, <1>6, AddsAgree
<1> QED BY <1>1, <1>2, <1>7 DEF lines

LEMMA BalanceIsSum ==
    ASSUME NEW a, IsFiniteSet(LiveEntries)
    PROVE  Balance(a) = Sum(LinesOn(a), LiveEntries)
<1>1. LiveEntries \in SUBSET JournalIds
  BY DEF LiveEntries
<1>2. MapThenFoldSet(+, 0, LAMBDA e : journal[e].lines[a], LAMBDA T : CHOOSE e \in T : TRUE, LiveEntries)
      = Sum(LinesOn(a), LiveEntries)
  BY <1>1, TotalIsSum DEF LinesOn
<1> QED BY <1>2 DEF Balance, Total, LiveEntries

LEMMA BooksAreSums ==
    ASSUME NEW m, NEW a
    PROVE  /\ IsFiniteSet(LiveEntries) => Books(m, a) = Sum(LinesOn(a), PostedIn(m))
           /\ IsFiniteSet(LiveEntries') => Books(m, a)' = Sum(LinesOn(a)', PostedIn(m)')
<1>1. PostedIn(m) \in SUBSET JournalIds /\ PostedIn(m) \subseteq LiveEntries
      /\ PostedIn(m)' \in SUBSET JournalIds /\ PostedIn(m)' \subseteq LiveEntries'
  BY DEF PostedIn, LiveEntries, Live
<1>2. ASSUME IsFiniteSet(LiveEntries) PROVE Books(m, a) = Sum(LinesOn(a), PostedIn(m))
  <2>1. IsFiniteSet(PostedIn(m))
    BY <1>1, <1>2, FS_Subset
  <2>2. MapThenFoldSet(+, 0, LAMBDA e : journal[e].lines[a], LAMBDA T : CHOOSE e \in T : TRUE, PostedIn(m))
        = Sum(LinesOn(a), PostedIn(m))
    BY <1>1, <2>1, TotalIsSum DEF LinesOn
  <2> QED BY <2>2 DEF Books, Total, PostedIn
<1>3. ASSUME IsFiniteSet(LiveEntries') PROVE Books(m, a)' = Sum(LinesOn(a)', PostedIn(m)')
  <2>1. IsFiniteSet(PostedIn(m)')
    BY <1>1, <1>3, FS_Subset
  <2>2. MapThenFoldSet(+, 0, LAMBDA e : journal'[e].lines[a], LAMBDA T : CHOOSE e \in T : TRUE, PostedIn(m)')
        = Sum([e \in JournalIds |-> journal'[e].lines[a]], PostedIn(m)')
    BY <1>1, <2>1, TotalIsSum
  <2>3. Books(m, a)' = MapThenFoldSet(+, 0, LAMBDA e : journal'[e].lines[a],
                                     LAMBDA T : CHOOSE e \in T : TRUE, PostedIn(m)')
    BY DEF Books, Total, PostedIn, MapThenFoldSet
  <2> QED BY <2>2, <2>3 DEF LinesOn
<1> QED BY <1>2, <1>3

LEMMA LinesAreInt ==
    ASSUME CloseTypeOK, NEW a \in Accounts, NEW e \in JournalIds
    PROVE  LinesOn(a)[e] \in Int /\ LinesOn(a)[e] = journal[e].lines[a]
BY DEF CloseTypeOK, Row, Effect, LinesOn

LEMMA BalanceType ==
    ASSUME CloseTypeOK, IsFiniteSet(LiveEntries), NEW a \in Accounts
    PROVE  Balance(a) \in Int
<1>1. \A e \in LiveEntries : LinesOn(a)[e] \in Int
  BY LinesAreInt DEF LiveEntries
<1> QED BY <1>1, BalanceIsSum, SumType

LEMMA EntryUnchanged ==
    ASSUME journal' = journal
    PROVE  /\ LiveEntries' = LiveEntries
           /\ \A a : Balance(a)' = Balance(a)
           /\ \A m : ClosingsOf(m)' = ClosingsOf(m)
BY DEF LiveEntries, Live, Balance, Total, MapThenFoldSet, ClosingsOf

-----------------------------------------------------------------------------
(* What a write to the journal does.                                         *)
LEMMA NothingType == Nothing \in Effect /\ Sale \in Effect /\ Cost \in Effect
BY DEF Nothing, Effect, Sale, Cost, Accounts

LEMMA OppositeType ==
    ASSUME NEW lines \in Effect
    PROVE  Opposite(lines) \in Effect /\ \A a \in Accounts : Opposite(lines)[a] = -lines[a]
BY DEF Opposite, Effect

LEMMA NewRowType ==
    ASSUME NEW state \in {"absent", "draft", "posted"}, NEW m \in Dates,
           NEW kind \in {"user", "posing", "closing", "reversal"}, NEW lines \in Effect
    PROVE  /\ NewRow(state, m, kind, lines) \in Row
           /\ NewRow(state, m, kind, lines).state = state /\ NewRow(state, m, kind, lines).date = m
           /\ NewRow(state, m, kind, lines).kind = kind /\ NewRow(state, m, kind, lines).lines = lines
BY DEF NewRow, Row

LEMMA WriteRow ==
    ASSUME CloseTypeOK, NEW e \in JournalIds, NEW row \in Row, Write(e, row)
    PROVE  /\ journal' \in [JournalIds -> Row] /\ journal'[e] = row
           /\ \A f \in JournalIds \ {e} : journal'[f] = journal[f]
           /\ IsFiniteSet(LiveEntries) => IsFiniteSet(LiveEntries')
<1>1. /\ journal' \in [JournalIds -> Row] /\ journal'[e] = row
      /\ \A f \in JournalIds \ {e} : journal'[f] = journal[f]
  BY DEF Write, CloseTypeOK
<1>2. LiveEntries' \subseteq LiveEntries \cup {e}
  BY <1>1 DEF LiveEntries, Live
<1> QED BY <1>1, <1>2, FS_AddElement, FS_Subset

\* A user writes a row that is not posted, and none of a closing.
LEMMA JournalWrites ==
    ASSUME CloseTypeOK, WriteJournal
    PROVE  \E e \in JournalIds, row \in Row :
              Write(e, row) /\ row.kind # "closing" /\ journal[e].state # "posted"
<1>1. ASSUME NEW e \in JournalIds, NEW state \in {"draft", "posted"}, NEW d \in Entered,
             NEW kind \in {"user", "posing"}, NEW lines \in {Sale, Cost},
             Enter(e, NewRow(state, d, kind, lines)) \/ Edit(e, NewRow(state, d, kind, lines))
      PROVE  \E row \in Row : Write(e, row) /\ row.kind # "closing" /\ journal[e].state # "posted"
  <2>1. d \in Dates /\ lines \in Effect
    BY NothingType, DaysAreDates
  <2>2. NewRow(state, d, kind, lines) \in Row /\ NewRow(state, d, kind, lines).kind = kind
    BY <2>1, NewRowType
  <2>3. Write(e, NewRow(state, d, kind, lines)) /\ journal[e].state # "posted"
    BY <1>1 DEF Enter, Edit, Live
  <2> QED BY <2>2, <2>3
<1>2. ASSUME NEW e \in JournalIds, NEW r \in JournalIds, Reverse(e, r)
      PROVE  \E row \in Row : Write(r, row) /\ row.kind # "closing" /\ journal[r].state # "posted"
  <2> DEFINE row == NewRow("posted", Now, "reversal", Opposite(journal[e].lines))
  <2>1. journal[e].lines \in Effect
    BY DEF CloseTypeOK, Row
  <2>2. row \in Row /\ row.kind = "reversal"
    BY <2>1, OppositeType, NewRowType, DaysAreDates
  <2>3. Write(r, row) /\ journal[r].state # "posted"
    BY <1>2 DEF Reverse, Live
  <2> HIDE DEF row
  <2> QED BY <2>2, <2>3
<1> QED BY <1>1, <1>2 DEF WriteJournal

LEMMA JournalClosings ==
    ASSUME CloseTypeOK, ClosingsArePosted, WriteJournal
    PROVE  ClosingsArePosted' /\ \A m \in Dates : ClosingsOf(m)' = ClosingsOf(m)
<1>1. PICK e \in JournalIds, row \in Row :
         Write(e, row) /\ row.kind # "closing" /\ journal[e].state # "posted"
  BY JournalWrites
<1>2. /\ journal'[e] = row /\ journal[e].kind # "closing"
      /\ \A f \in JournalIds \ {e} : journal'[f] = journal[f]
  BY <1>1, WriteRow DEF ClosingsArePosted
<1> QED BY <1>1, <1>2 DEF ClosingsArePosted, ClosingsOf, Live

-----------------------------------------------------------------------------
(* What a closing does to itself.                                            *)
LEMMA ClosingRestsType == ClosingRests \in LocalState /\ ClosingRests.step = "idle" /\ ClosingRests.fresh = FALSE
BY NothingType, DaysAreDates DEF ClosingRests, LocalState

LEMMA StaleType ==
    ASSUME CloseTypeOK, NEW c \in Closings
    PROVE  /\ Stale(c) \in LocalState /\ Stale(c).step = closing[c].step
           /\ Stale(c).end = closing[c].end /\ Stale(c).fresh = FALSE
BY DEF CloseTypeOK, LocalState, Stale

\* A step of c that goes on with its period; read and fresh are what the reads set.
Goes(c, from, to) ==
    /\ closing[c].step = from /\ closing'[c].step = to
    /\ closing'[c].end = closing[c].end
    /\ closing'[c] \in LocalState
    /\ \A d \in Closings \ {c} : closing'[d] = closing[d]

LEMMA PassLockGoes ==
    ASSUME CloseTypeOK, NEW c \in Closings, PassLock(c)
    PROVE  Goes(c, "begun", "cleared") /\ closing'[c].fresh = closing[c].fresh /\ ~Shut(closing[c].end)
           /\ UNCHANGED <<journal, locked, crossed, sealed>>
BY DEF CloseTypeOK, LocalState, PassLock, Goes

LEMMA FindNoClosingGoes ==
    ASSUME CloseTypeOK, NEW c \in Closings, FindNoClosing(c)
    PROVE  Goes(c, "cleared", "unclosed") /\ closing'[c].fresh = closing[c].fresh
           /\ (closing[c].end \in Days => ClosingsOf(closing[c].end) = {})
           /\ UNCHANGED <<journal, locked, crossed, sealed>>
<1>1. Goes(c, "cleared", "unclosed") /\ closing'[c].fresh = closing[c].fresh
  BY DEF CloseTypeOK, LocalState, FindNoClosing, Goes
<1>2. closing[c].end \in Days => ClosingsOf(closing[c].end) = {}
  BY DEF FindNoClosing, Closed, ClosingsOf, Days
<1> QED BY <1>1, <1>2 DEF FindNoClosing

LEMMA ReadIncomeGoes ==
    ASSUME CloseTypeOK, IsFiniteSet(LiveEntries), NEW c \in Closings, ReadIncome(c)
    PROVE  Goes(c, "unclosed", "income") /\ closing'[c].read["income"] = Balance("income")
           /\ UNCHANGED <<journal, locked, crossed, sealed>>
<1>1. Balance("income") \in Int
  BY BalanceType DEF Accounts
<1>2. closing[c] \in LocalState /\ closing[c].read \in Effect
  BY DEF CloseTypeOK, LocalState
<1>3. [closing[c].read EXCEPT !["income"] = Balance("income")] \in Effect
  BY <1>1, <1>2 DEF Effect
<1>4. closing'[c] = [closing[c] EXCEPT !.step = "income", !.fresh = TRUE,
                       !.read = [closing[c].read EXCEPT !["income"] = Balance("income")]]
  BY <1>2 DEF ReadIncome, CloseTypeOK, LocalState
<1>5. closing'[c] \in LocalState /\ closing'[c].step = "income" /\ closing'[c].end = closing[c].end
      /\ closing'[c].read = [closing[c].read EXCEPT !["income"] = Balance("income")]
  BY <1>2, <1>3, <1>4 DEF LocalState
<1>6. closing'[c].read["income"] = Balance("income")
  BY <1>2, <1>5 DEF Effect, Accounts
<1> QED BY <1>5, <1>6 DEF ReadIncome, Goes, CloseTypeOK

LEMMA ReadExpenseGoes ==
    ASSUME CloseTypeOK, IsFiniteSet(LiveEntries), NEW c \in Closings, ReadExpense(c)
    PROVE  Goes(c, "income", "expense") /\ closing'[c].read["expense"] = Balance("expense")
           /\ closing'[c].read["income"] = closing[c].read["income"] /\ closing'[c].fresh = closing[c].fresh
           /\ UNCHANGED <<journal, locked, crossed, sealed>>
<1>1. Balance("expense") \in Int
  BY BalanceType DEF Accounts
<1>2. closing[c] \in LocalState /\ closing[c].read \in Effect
  BY DEF CloseTypeOK, LocalState
<1>3. [closing[c].read EXCEPT !["expense"] = Balance("expense")] \in Effect
  BY <1>1, <1>2 DEF Effect
<1>4. closing'[c] = [closing[c] EXCEPT !.step = "expense",
                       !.read = [closing[c].read EXCEPT !["expense"] = Balance("expense")]]
  BY <1>2 DEF ReadExpense, CloseTypeOK, LocalState
<1>5. closing'[c] \in LocalState /\ closing'[c].step = "expense" /\ closing'[c].end = closing[c].end
      /\ closing'[c].read = [closing[c].read EXCEPT !["expense"] = Balance("expense")]
      /\ closing'[c].fresh = closing[c].fresh
  BY <1>2, <1>3, <1>4 DEF LocalState
<1>6. closing'[c].read["expense"] = Balance("expense") /\ closing'[c].read["income"] = closing[c].read["income"]
  BY <1>2, <1>5 DEF Effect, Accounts
<1> QED BY <1>5, <1>6 DEF ReadExpense, Goes, CloseTypeOK

\* The entry a closing posts.
LEMMA PostClosingWrites ==
    ASSUME CloseTypeOK, IsFiniteSet(LiveEntries), NEW c \in Closings, NEW e \in JournalIds, PostClosing(c, e)
    PROVE  /\ Leave(c) /\ closing[c].step = "expense" /\ journal[e].state = "absent"
           /\ journal'[e].state = "posted" /\ journal'[e].date = closing[c].end
           /\ journal'[e].kind = "closing" /\ journal'[e] \in Row
           /\ \A a \in Accounts : journal'[e].lines[a] = -closing[c].read[a]
           /\ \A f \in JournalIds \ {e} : journal'[f] = journal[f]
           /\ journal' \in [JournalIds -> Row] /\ IsFiniteSet(LiveEntries')
<1> DEFINE row == NewRow("posted", closing[c].end, "closing", Opposite(closing[c].read))
<1>1. closing[c].read \in Effect /\ closing[c].end \in Dates
  BY DEF CloseTypeOK, LocalState
<1>2. /\ row \in Row /\ row.state = "posted" /\ row.date = closing[c].end
      /\ row.kind = "closing" /\ \A a \in Accounts : row.lines[a] = -closing[c].read[a]
  BY <1>1, OppositeType, NewRowType
<1>3. Write(e, row)
  BY DEF PostClosing
<1> HIDE DEF row
<1>4. /\ journal' \in [JournalIds -> Row] /\ journal'[e] = row
      /\ \A f \in JournalIds \ {e} : journal'[f] = journal[f] /\ IsFiniteSet(LiveEntries')
  BY <1>2, <1>3, WriteRow
<1>5. journal' \in [JournalIds -> Row] /\ IsFiniteSet(LiveEntries')
  BY <1>2, <1>3, WriteRow
<1>6. journal[e].state = "absent" /\ closing[c].step = "expense" /\ Leave(c)
  BY DEF PostClosing, Live
<1> QED BY <1>2, <1>4, <1>5, <1>6

LEMMA Leaves ==
    ASSUME CloseTypeOK, NEW c \in Closings, Leave(c)
    PROVE  /\ closing'[c] = ClosingRests /\ \A d \in Closings \ {c} : closing'[d] = Stale(d)
           /\ closing' \in [Closings -> LocalState] /\ Reseal
           /\ sealed' \subseteq {d \in Dates : Shut(d)'} /\ UNCHANGED <<locked, crossed>>
<1>1. closing' \in [Closings -> LocalState]
  BY ClosingRestsType, StaleType DEF Leave
<1> QED BY <1>1 DEF Leave, Reseal, CloseTypeOK

LEMMA ShutStays == ASSUME locked' = locked PROVE {d \in Dates : Shut(d)'} = {d \in Dates : Shut(d)}
BY DEF Shut

LEMMA CloseTypeStep ==
    CloseTypeOK /\ IsFiniteSet(LiveEntries) /\ [CloseNext]_closeVars => CloseTypeOK' /\ IsFiniteSet(LiveEntries')
<1> SUFFICES ASSUME CloseTypeOK, IsFiniteSet(LiveEntries), [CloseNext]_closeVars
             PROVE  CloseTypeOK' /\ IsFiniteSet(LiveEntries')
  OBVIOUS
<1>1. CASE WriteJournal
  <2>1. PICK e \in JournalIds, row \in Row : Write(e, row)
    BY <1>1, JournalWrites
  <2>2. journal' \in [JournalIds -> Row] /\ IsFiniteSet(LiveEntries')
    BY <2>1, WriteRow
  <2>3. closing' \in [Closings -> LocalState]
    BY <1>1, StaleType DEF WriteJournal
  <2> QED BY <1>1, <2>2, <2>3, ShutStays DEF WriteJournal, CloseTypeOK
<1>2. ASSUME NEW end \in Lockable, LockPeriod(end) \/ UnlockPeriod(end)
      PROVE  CloseTypeOK' /\ IsFiniteSet(LiveEntries')
  <2>1. journal' = journal /\ closing' = closing /\ crossed' = crossed
    BY <1>2 DEF LockPeriod, UnlockPeriod
  <2>2. DayOf[end] \in Days
    BY DaysAreDates
  <2>3. locked' \subseteq Days /\ sealed' \subseteq {d \in Dates : Shut(d)'}
    BY <1>2, <2>2 DEF LockPeriod, UnlockPeriod, Reseal, CloseTypeOK
  <2> QED BY <2>1, <2>3, EntryUnchanged DEF CloseTypeOK
<1>3. ASSUME NEW c \in Closings, ClosingStep(c) PROVE CloseTypeOK' /\ IsFiniteSet(LiveEntries')
  <2>1. ASSUME NEW m \in Dates, Request(c, m) PROVE CloseTypeOK' /\ IsFiniteSet(LiveEntries')
    <3>1. [ClosingRests EXCEPT !.step = "begun", !.end = m] \in LocalState
      BY ClosingRestsType DEF LocalState
    <3>2. closing' \in [Closings -> LocalState] /\ crossed' \subseteq Dates
      BY <2>1, <3>1 DEF Request, CloseTypeOK
    <3> QED BY <2>1, <3>2, EntryUnchanged, ShutStays DEF Request, CloseTypeOK
  <2>2. ASSUME NEW from, NEW to, Goes(c, from, to), UNCHANGED <<journal, locked, crossed, sealed>>,
               closing' = [closing EXCEPT ![c] = closing'[c]]
        PROVE  CloseTypeOK' /\ IsFiniteSet(LiveEntries')
    <3>1. closing' \in [Closings -> LocalState]
      BY <2>2 DEF Goes, CloseTypeOK
    <3> QED BY <2>2, <3>1, EntryUnchanged, ShutStays DEF CloseTypeOK
  <2>3. PassLock(c) \/ FindNoClosing(c) \/ ReadIncome(c) \/ ReadExpense(c)
        => closing' = [closing EXCEPT ![c] = closing'[c]]
    BY DEF PassLock, FindNoClosing, ReadIncome, ReadExpense, CloseTypeOK
  <2>4. CASE PassLock(c) \/ FindNoClosing(c) \/ ReadIncome(c) \/ ReadExpense(c)
    BY <2>2, <2>3, <2>4, PassLockGoes, FindNoClosingGoes, ReadIncomeGoes, ReadExpenseGoes
  <2>5. ASSUME NEW e \in JournalIds, PostClosing(c, e) PROVE CloseTypeOK' /\ IsFiniteSet(LiveEntries')
    BY <2>5, PostClosingWrites, Leaves DEF CloseTypeOK
  <2>6. CASE Abandon(c)
    BY <2>6, Leaves, EntryUnchanged DEF Abandon, CloseTypeOK
  <2> QED BY <1>3, <2>1, <2>4, <2>5, <2>6 DEF ClosingStep
<1>4. CASE UNCHANGED closeVars
  BY <1>4, EntryUnchanged, ShutStays DEF closeVars, CloseTypeOK
<1> QED BY <1>1, <1>2, <1>3, <1>4 DEF CloseNext

-----------------------------------------------------------------------------
(* Every step keeps the invariant.                                           *)
ClosePart == ClosingsArePosted /\ ClosedOnce /\ OneAtATime /\ SealedWait /\ FreshReads

FreshRead(c) ==
    closing[c].fresh =>
        /\ closing[c].step \in {"income", "expense"}
        /\ closing[c].read["income"] = Balance("income")
        /\ closing[c].step = "expense" => closing[c].read["expense"] = Balance("expense")

LEMMA JournalKeeps ==
    ASSUME CloseInv, WriteJournal PROVE ClosePart'
<1>1. \A c \in Closings : /\ closing'[c].step = closing[c].step /\ closing'[c].end = closing[c].end
                          /\ closing'[c].fresh = FALSE
  BY StaleType DEF WriteJournal, CloseInv
<1>2. crossed' = crossed /\ sealed' = sealed
  BY DEF WriteJournal
<1>3. ClosingsArePosted' /\ \A m \in Dates : ClosingsOf(m)' = ClosingsOf(m)
  BY JournalClosings DEF CloseInv
<1>4. \A m \in Dates : Closers(m)' = Closers(m)
  BY <1>1 DEF Closers
<1>5. ClosedOnce'
  BY <1>2, <1>3, DaysAreDates DEF CloseInv, ClosedOnce
<1>6. OneAtATime'
  <2>1. \A m \in Dates : \A c \in Closers(m) : c \in Closings
    BY DEF Closers
  <2> QED BY <1>1, <1>2, <1>3, <1>4, <2>1, DaysAreDates DEF CloseInv, OneAtATime
<1>7. SealedWait'
  BY <1>1, <1>2 DEF CloseInv, SealedWait
<1>8. FreshReads'
  BY <1>1 DEF FreshReads
<1> QED BY <1>3, <1>5, <1>6, <1>7, <1>8 DEF ClosePart

\* What a step that writes no entry leaves as it was.
LEMMA NoEntryKeeps ==
    ASSUME CloseInv, journal' = journal, crossed \subseteq crossed'
    PROVE  ClosingsArePosted' /\ ClosedOnce'
<1>1. ClosingsArePosted'
  BY DEF CloseInv, ClosingsArePosted
<1>2. ClosedOnce'
  BY EntryUnchanged DEF CloseInv, ClosedOnce
<1> QED BY <1>1, <1>2

\* A date is sealed by a step that leaves none of its closings past its question.
LEMMA ResealWaits ==
    ASSUME Reseal, \A c \in Closings : closing'[c].end \in sealed => closing'[c].step \in {"idle", "begun"}
    PROVE  SealedWait'
<1>1. \A d \in sealed' : d \in sealed \/ Closers(d)' = {}
  BY DEF Reseal
<1>2. \A c \in Closings : \A d : closing'[c].step # "idle" /\ closing'[c].end = d => c \in Closers(d)'
  BY DEF Closers
<1> QED BY <1>1, <1>2 DEF SealedWait

LEMMA LocksKeep ==
    ASSUME CloseInv, NEW m \in Lockable, LockPeriod(m) \/ UnlockPeriod(m) PROVE ClosePart'
<1>1. journal' = journal /\ closing' = closing /\ crossed' = crossed /\ Reseal
  BY DEF LockPeriod, UnlockPeriod
<1>2. \A n : Closers(n)' = Closers(n) /\ ClosingsOf(n)' = ClosingsOf(n)
  BY <1>1, EntryUnchanged DEF Closers
<1>3. OneAtATime'
  BY <1>1, <1>2 DEF CloseInv, OneAtATime
<1>4. FreshReads'
  BY <1>1, EntryUnchanged DEF CloseInv, FreshReads
<1>5. SealedWait'
  BY <1>1, ResealWaits DEF CloseInv, SealedWait
<1> QED BY <1>1, <1>3, <1>4, <1>5, NoEntryKeeps DEF ClosePart

LEMMA RequestKeeps ==
    ASSUME CloseInv, NEW c \in Closings, NEW m \in Dates, Request(c, m) PROVE ClosePart'
<1>1. journal' = journal /\ sealed' = sealed /\ closing[c].step = "idle"
      /\ crossed' = IF Closers(m) = {} THEN crossed ELSE crossed \cup {m}
  BY DEF Request
<1>2. closing'[c].step = "begun" /\ closing'[c].end = m /\ closing'[c].fresh = FALSE
      /\ \A d \in Closings \ {c} : closing'[d] = closing[d]
  BY ClosingRestsType DEF Request, CloseInv, CloseTypeOK, LocalState
<1>3. \A n \in Dates : Closers(n)' = IF n = m THEN Closers(n) \cup {c} ELSE Closers(n)
  BY <1>1, <1>2 DEF Closers
<1>4. \A n : ClosingsOf(n)' = ClosingsOf(n)
  BY <1>1, EntryUnchanged
<1>5. OneAtATime'
  <2> SUFFICES ASSUME NEW n \in Days \ crossed'
               PROVE  /\ \A d, f \in Closers(n)' : d = f
                      /\ \A d \in Closers(n)' : closing'[d].step \in {"unclosed", "income", "expense"} =>
                            ClosingsOf(n)' = {}
    BY DEF OneAtATime
  <2>1. n \in Days \ crossed
    BY <1>1
  <2>2. \A d, f \in Closers(n) : d = f
    BY <2>1 DEF CloseInv, OneAtATime
  <2>3. \A d \in Closers(n) : closing[d].step \in {"unclosed", "income", "expense"} => ClosingsOf(n) = {}
    BY <2>1 DEF CloseInv, OneAtATime
  <2>4. n = m => Closers(n) = {}
    BY <1>1
  <2>5. \A d, f \in Closers(n)' : d = f
    BY <1>3, <2>1, <2>2, <2>4, DaysAreDates
  <2>6. \A d \in Closers(n)' : closing'[d].step \in {"unclosed", "income", "expense"} => ClosingsOf(n)' = {}
    <3>1. \A d \in Closers(n)' : d = c \/ d \in Closers(n) \ {c}
      BY <1>3, <2>1, DaysAreDates
    <3>2. \A d \in Closers(n) : d \in Closings
      BY DEF Closers
    <3> QED BY <1>2, <1>4, <2>3, <3>1, <3>2
  <2> QED BY <2>5, <2>6
<1>6. SealedWait'
  BY <1>1, <1>2 DEF CloseInv, SealedWait
<1>7. FreshReads'
  BY <1>1, <1>2, EntryUnchanged DEF CloseInv, FreshReads
<1> QED BY <1>1, <1>5, <1>6, <1>7, NoEntryKeeps DEF ClosePart

LEMMA GoesKeeps ==
    ASSUME CloseInv, NEW c \in Closings, NEW from \in {"begun", "cleared", "unclosed", "income"},
           NEW to \in {"cleared", "unclosed", "income", "expense"}, Goes(c, from, to),
           UNCHANGED <<journal, locked, crossed, sealed>>, FreshRead(c)',
           from = "begun" => ~Shut(closing[c].end),
           \/ to = "cleared" \/ from \in {"unclosed", "income"}
           \/ closing[c].end \in Days => ClosingsOf(closing[c].end) = {}
    PROVE  ClosePart'
<1>1. \A n : Closers(n)' = Closers(n) /\ ClosingsOf(n)' = ClosingsOf(n)
  BY EntryUnchanged DEF Goes, Closers
<1>2. OneAtATime'
  <2> SUFFICES ASSUME NEW n \in Days \ crossed, NEW d \in Closers(n),
                      closing'[d].step \in {"unclosed", "income", "expense"}
               PROVE  (\A f \in Closers(n) : d = f) /\ ClosingsOf(n) = {}
    BY <1>1 DEF OneAtATime, CloseInv
  <2>1. /\ \A f \in Closers(n) : d = f
        /\ closing[d].step \in {"unclosed", "income", "expense"} => ClosingsOf(n) = {}
    BY DEF CloseInv, OneAtATime
  <2>2. d = c => closing[c].end = n
    BY DEF Closers
  <2>3. d \in Closings
    BY DEF Closers
  <2> QED BY <2>1, <2>2, <2>3 DEF Goes
<1>3. SealedWait'
  <2>1. closing[c].end \notin sealed
    BY DEF CloseInv, SealedWait, CloseTypeOK, Goes
  <2> QED BY <2>1 DEF CloseInv, SealedWait, Goes
<1>4. FreshReads'
  <2>1. \A d \in Closings \ {c} : FreshRead(d)'
    BY EntryUnchanged DEF CloseInv, FreshReads, FreshRead, Goes
  <2> QED BY <2>1 DEF FreshReads, FreshRead
<1> QED BY <1>2, <1>3, <1>4, NoEntryKeeps DEF ClosePart

LEMMA LeaveKeeps ==
    ASSUME CloseInv, NEW c \in Closings, closing[c].step # "idle", Leave(c)
    PROVE  /\ \A n \in Dates : Closers(n)' = Closers(n) \ {c}
           /\ \A d \in Closings \ {c} : closing'[d].step = closing[d].step
           /\ SealedWait' /\ FreshReads' /\ crossed' = crossed
<1>1. /\ closing'[c] = ClosingRests /\ \A d \in Closings \ {c} : closing'[d] = Stale(d)
      /\ Reseal /\ crossed' = crossed
  BY Leaves DEF CloseInv
<1>2. \A d \in Closings \ {c} : closing'[d].step = closing[d].step /\ closing'[d].end = closing[d].end
                                /\ closing'[d].fresh = FALSE
  BY <1>1, StaleType DEF CloseInv
<1>3. closing'[c].step = "idle" /\ closing'[c].fresh = FALSE
  BY <1>1, ClosingRestsType
<1>4. \A n \in Dates : Closers(n)' = Closers(n) \ {c}
  BY <1>2, <1>3 DEF Closers
<1>5. SealedWait'
  BY <1>1, <1>2, <1>3, ResealWaits DEF CloseInv, SealedWait
<1>6. FreshReads'
  BY <1>2, <1>3 DEF FreshReads
<1> QED BY <1>1, <1>2, <1>4, <1>5, <1>6

\* A closing posts its entry on the end of its period, and no other date gets one.
LEMMA PostClosingOf ==
    ASSUME CloseInv, NEW c \in Closings, NEW e \in JournalIds, PostClosing(c, e)
    PROVE  /\ \A n \in Dates : ClosingsOf(n)' = IF n = closing[c].end THEN ClosingsOf(n) \cup {e}
                                                 ELSE ClosingsOf(n)
           /\ e \notin ClosingsOf(closing[c].end) /\ ClosingsArePosted'
<1>1. /\ journal[e].state = "absent" /\ journal'[e].state = "posted"
      /\ journal'[e].date = closing[c].end /\ journal'[e].kind = "closing"
      /\ \A f \in JournalIds \ {e} : journal'[f] = journal[f]
  BY PostClosingWrites DEF CloseInv
<1>2. e \notin ClosingsOf(closing[c].end)
  BY <1>1 DEF ClosingsOf, Live
<1>3. \A n \in Dates : ClosingsOf(n)' = IF n = closing[c].end THEN ClosingsOf(n) \cup {e} ELSE ClosingsOf(n)
  <2> TAKE n \in Dates
  <2>1. journal[e].kind # "closing"
    BY <1>1 DEF CloseInv, ClosingsArePosted
  <2> QED BY <1>1, <2>1 DEF ClosingsOf, Live
<1>4. ClosingsArePosted'
  BY <1>1 DEF CloseInv, ClosingsArePosted
<1> QED BY <1>2, <1>3, <1>4

LEMMA PostClosingKeeps ==
    ASSUME CloseInv, NEW c \in Closings, NEW e \in JournalIds, PostClosing(c, e) PROVE ClosePart'
<1> DEFINE m == closing[c].end
<1>1. closing[c].step = "expense" /\ Leave(c)
  BY DEF PostClosing
<1>2. /\ \A n \in Dates : Closers(n)' = Closers(n) \ {c}
      /\ \A d \in Closings \ {c} : closing'[d].step = closing[d].step
      /\ SealedWait' /\ FreshReads' /\ crossed' = crossed
  BY <1>1, LeaveKeeps
<1>3. m \in Dates /\ c \in Closers(m)
  BY <1>1 DEF CloseInv, CloseTypeOK, LocalState, Closers
<1>4. m \in Days \ crossed => ClosingsOf(m) = {} /\ Closers(m) = {c}
  BY <1>1, <1>3 DEF CloseInv, OneAtATime
<1> HIDE DEF m
<1>5. \A n \in Dates : ClosingsOf(n)' = IF n = m THEN ClosingsOf(n) \cup {e} ELSE ClosingsOf(n)
  BY PostClosingOf DEF m
<1>6. ClosedOnce'
  BY <1>2, <1>4, <1>5, DaysAreDates DEF CloseInv, ClosedOnce
<1>7. OneAtATime'
  <2> SUFFICES ASSUME NEW n \in Days \ crossed
               PROVE  /\ \A d, f \in Closers(n) \ {c} : d = f
                      /\ \A d \in Closers(n) \ {c} : closing'[d].step \in {"unclosed", "income", "expense"} =>
                            ClosingsOf(n)' = {}
    BY <1>2, DaysAreDates DEF OneAtATime
  <2>1. /\ \A d, f \in Closers(n) : d = f
        /\ \A d \in Closers(n) : closing[d].step \in {"unclosed", "income", "expense"} => ClosingsOf(n) = {}
    BY DEF CloseInv, OneAtATime
  <2>2. n = m => Closers(n) \ {c} = {}
    BY <1>4
  <2>3. \A d \in Closers(n) : d \in Closings
    BY DEF Closers
  <2> QED BY <1>2, <1>5, <2>1, <2>2, <2>3, DaysAreDates
<1> QED BY <1>2, <1>6, <1>7, PostClosingOf DEF ClosePart

LEMMA GiveUpKeeps ==
    ASSUME CloseInv, NEW c \in Closings, Abandon(c) PROVE ClosePart'
<1>1. closing[c].step # "idle" /\ Leave(c) /\ journal' = journal
  BY DEF Abandon
<1>2. /\ \A n \in Dates : Closers(n)' = Closers(n) \ {c}
      /\ \A d \in Closings \ {c} : closing'[d].step = closing[d].step
      /\ SealedWait' /\ FreshReads' /\ crossed' = crossed
  BY <1>1, LeaveKeeps
<1>3. \A n : ClosingsOf(n)' = ClosingsOf(n)
  BY <1>1, EntryUnchanged
<1>4. \A n \in Dates : \A d \in Closers(n) : d \in Closings
  BY DEF Closers
<1>5. OneAtATime'
  BY <1>2, <1>3, <1>4, DaysAreDates DEF CloseInv, OneAtATime
<1> QED BY <1>1, <1>2, <1>5, NoEntryKeeps DEF ClosePart

LEMMA ClosingKeeps ==
    ASSUME CloseInv, NEW c \in Closings, ClosingStep(c) PROVE ClosePart'
<1> CloseTypeOK /\ IsFiniteSet(LiveEntries) /\ FreshReads
  BY DEF CloseInv
<1>1. CASE PassLock(c)
  <2>1. FreshRead(c)'
    BY <1>1, PassLockGoes DEF FreshReads, FreshRead, Goes
  <2> QED BY <1>1, <2>1, PassLockGoes, GoesKeeps
<1>2. CASE FindNoClosing(c)
  <2>1. FreshRead(c)'
    BY <1>2, FindNoClosingGoes DEF FreshReads, FreshRead, Goes
  <2> QED BY <1>2, <2>1, FindNoClosingGoes, GoesKeeps
<1>3. CASE ReadIncome(c)
  <2>1. FreshRead(c)'
    BY <1>3, ReadIncomeGoes, EntryUnchanged DEF FreshRead, Goes
  <2> QED BY <1>3, <2>1, ReadIncomeGoes, GoesKeeps
<1>4. CASE ReadExpense(c)
  <2>1. FreshRead(c)'
    BY <1>4, ReadExpenseGoes, EntryUnchanged DEF FreshReads, FreshRead, Goes
  <2> QED BY <1>4, <2>1, ReadExpenseGoes, GoesKeeps
<1> QED BY <1>1, <1>2, <1>3, <1>4, RequestKeeps, PostClosingKeeps, GiveUpKeeps DEF ClosingStep

LEMMA CloseInvHolds == CloseSpec => []CloseInv
<1>1. CloseInit => CloseInv
  <2> SUFFICES ASSUME CloseInit PROVE CloseInv
    OBVIOUS
  <2>1. NoRow \in Row /\ NoRow.state = "absent" /\ NoRow.kind = "user"
    BY NothingType, NewRowType, DaysAreDates DEF NoRow
  <2>2. LiveEntries = {} /\ \A m : ClosingsOf(m) = {} /\ Closers(m) = {}
    BY <2>1, ClosingRestsType DEF CloseInit, LiveEntries, Live, ClosingsOf, Closers
  <2>3. CloseTypeOK
    BY <2>1, ClosingRestsType DEF CloseInit, CloseTypeOK
  <2>4. IsFiniteSet(LiveEntries)
    BY <2>2, FS_EmptySet
  <2>5. ClosingsArePosted
    BY <2>1 DEF CloseInit, ClosingsArePosted
  <2>6. ClosedOnce /\ OneAtATime
    BY <2>2 DEF ClosedOnce, OneAtATime
  <2>7. SealedWait /\ FreshReads
    BY ClosingRestsType DEF CloseInit, SealedWait, FreshReads
  <2> QED BY <2>3, <2>4, <2>5, <2>6, <2>7 DEF CloseInv
<1>2. CloseInv /\ [CloseNext]_closeVars => CloseInv'
  <2> SUFFICES ASSUME CloseInv, [CloseNext]_closeVars PROVE ClosePart'
    BY CloseTypeStep DEF CloseInv, ClosePart
  <2>1. CASE UNCHANGED closeVars
    <3>1. journal' = journal /\ closing' = closing /\ crossed' = crossed /\ sealed' = sealed
      BY <2>1 DEF closeVars
    <3>2. \A n : Closers(n)' = Closers(n) /\ ClosingsOf(n)' = ClosingsOf(n)
      BY <3>1, EntryUnchanged DEF Closers
    <3>3. OneAtATime'
      BY <3>1, <3>2 DEF CloseInv, OneAtATime
    <3>4. SealedWait' /\ FreshReads'
      BY <3>1, EntryUnchanged DEF CloseInv, SealedWait, FreshReads
    <3> QED BY <3>1, <3>3, <3>4, NoEntryKeeps DEF ClosePart
  <2> QED BY <2>1, JournalKeeps, LocksKeep, ClosingKeeps DEF CloseNext
<1> QED BY <1>1, <1>2, PTL DEF CloseSpec

\* Entries, locks and requests have their types.
THEOREM CloseTypes == CloseSpec => []CloseTypeOK
<1>1. CloseInv => CloseTypeOK
  BY DEF CloseInv
<1> QED BY <1>1, CloseInvHolds, PTL

\* A day gets one closing entry for good, unless two closings of it have been in
\* progress at the same time; another day of its month may get one too.
THEOREM DaysClosedOnce == CloseSpec => []ClosedOnce
<1>1. CloseInv => ClosedOnce
  BY DEF CloseInv
<1> QED BY <1>1, CloseInvHolds, PTL

\* From the first moment of rest after its lock a date gets no closing entry.
THEOREM SealedDatesUnclosed == CloseSpec => SealedDatesStayUnclosed
<1>1. CloseInv /\ [CloseNext]_closeVars => [\A d \in sealed : ClosingsOf(d)' \subseteq ClosingsOf(d)]_closeVars
  <2> SUFFICES ASSUME CloseInv, CloseNext, NEW m \in sealed PROVE ClosingsOf(m)' \subseteq ClosingsOf(m)
    OBVIOUS
  <2>1. m \in Dates
    BY DEF CloseInv, CloseTypeOK
  <2>2. CASE WriteJournal
    BY <2>1, <2>2, JournalClosings DEF CloseInv
  <2>3. ASSUME NEW c \in Closings, NEW e \in JournalIds, PostClosing(c, e)
        PROVE  ClosingsOf(m)' \subseteq ClosingsOf(m)
    <3>1. closing[c].end # m
      BY <2>3 DEF PostClosing, CloseInv, SealedWait
    <3> QED BY <2>1, <2>3, <3>1, PostClosingOf
  <2>4. CASE journal' = journal
    BY <2>4, EntryUnchanged
  <2> QED BY <2>2, <2>3, <2>4 DEF CloseNext, LockPeriod, UnlockPeriod, ClosingStep, Request, PassLock,
                                  FindNoClosing, ReadIncome, ReadExpense, Abandon
<1> QED BY <1>1, CloseInvHolds, PTL DEF CloseSpec, SealedDatesStayUnclosed

-----------------------------------------------------------------------------
(* A tidy close.                                                             *)

\* The closing entry is posted by a closing of its date whose reads still hold.
LEMMA UndisturbedPosts ==
    ASSUME CloseInv, CloseNext, NEW m \in Dates, NewClosing(m), Undisturbed(m)
    PROVE  \E c \in Closings, e \in JournalIds :
              /\ PostClosing(c, e) /\ closing[c].end = m
              /\ \A a \in Accounts : closing[c].read[a] = Balance(a)
<1>1. PICK c \in Closings, e \in JournalIds : PostClosing(c, e)
  <2>1. ~WriteJournal
    BY JournalClosings DEF CloseInv, NewClosing
  <2>2. journal' # journal
    BY EntryUnchanged DEF NewClosing
  <2> QED BY <2>1, <2>2 DEF CloseNext, LockPeriod, UnlockPeriod, ClosingStep, Request, PassLock,
                            FindNoClosing, ReadIncome, ReadExpense, Abandon
<1>2. closing[c].end = m
  BY <1>1, PostClosingOf DEF NewClosing
<1>3. closing[c].step = "expense" /\ Leave(c)
  BY <1>1 DEF PostClosing
<1>4. PICK d \in Closings : closing[d].fresh /\ closing'[d].step = "idle"
  BY DEF Undisturbed
<1>5. closing[d].step # "idle"
  BY <1>4 DEF CloseInv, FreshReads
<1>6. d = c
  BY <1>3, <1>4, <1>5, LeaveKeeps
<1>7. \A a \in Accounts : closing[c].read[a] = Balance(a)
  BY <1>3, <1>4, <1>6 DEF CloseInv, FreshReads, Accounts
<1> QED BY <1>1, <1>2, <1>7

\* In tidy books the balance of an account is the month's.
LEMMA TidyBalance ==
    ASSUME CloseInv, NEW m, Tidy(m), NEW a \in Accounts
    PROVE  Balance(a) = Sum(LinesOn(a), PostedIn(m))
<1> CloseTypeOK /\ IsFiniteSet(LiveEntries)
  BY DEF CloseInv
<1>1. \A e \in LiveEntries : journal[e].state = "posted" /\ journal[e].date \in Dates
  BY DEF Tidy, LiveEntries, Live, CloseTypeOK, Row
<1>2. \A n : PostedIn(n) = {e \in LiveEntries : MonthOf[journal[e].date] = n}
  BY <1>1 DEF PostedIn, LiveEntries, Live
<1>3. \A d \in Dates : MonthOf[d] # m => Sum(LinesOn(a), PostedIn(MonthOf[d])) = 0
  BY BooksAreSums DEF Tidy
<1> DEFINE rest == LiveEntries \ PostedIn(m)
           month == [e \in JournalIds |-> MonthOf[journal[e].date]]
<1>4. \A e \in rest : month[e] = MonthOf[journal[e].date] /\ month[e] # m /\ journal[e].date \in Dates
                      /\ {f \in rest : month[f] = month[e]} = PostedIn(month[e])
  BY <1>1, <1>2 DEF LiveEntries
<1>5. IsFiniteSet(rest) /\ \A e \in rest : LinesOn(a)[e] \in Int
  BY LinesAreInt, FS_Subset DEF LiveEntries
<1> HIDE DEF rest, month
<1>6. ASSUME NEW e \in rest PROVE Sum(LinesOn(a), {f \in rest : month[f] = month[e]}) = 0
  <2>1. PICK d \in Dates : month[e] = MonthOf[d] /\ MonthOf[d] # m
    BY <1>4
  <2>2. {f \in rest : month[f] = month[e]} = PostedIn(MonthOf[d])
    BY <1>4, <2>1
  <2>3. Sum(LinesOn(a), PostedIn(MonthOf[d])) = 0
    BY <1>3, <2>1
  <2> QED BY <2>2, <2>3
<1>7. Sum(LinesOn(a), rest) = 0
  BY <1>5, <1>6, SumGroups
<1>8. PostedIn(m) \in SUBSET LiveEntries /\ \A e \in LiveEntries : LinesOn(a)[e] \in Int
  BY <1>2, LinesAreInt DEF LiveEntries
<1>9. Sum(LinesOn(a), LiveEntries) = Sum(LinesOn(a), PostedIn(m)) + Sum(LinesOn(a), rest)
  BY <1>8, SumParts DEF rest
<1>10. Sum(LinesOn(a), PostedIn(m)) \in Int
  BY <1>8, FS_Subset, SumType
<1> QED BY <1>7, <1>9, <1>10, BalanceIsSum

\* The posted entry takes the balance from the month's books.
LEMMA ClosingTakesTheBalance ==
    ASSUME CloseInv, NEW c \in Closings, NEW e \in JournalIds, PostClosing(c, e), NEW a \in Accounts,
           NEW m, MonthOf[closing[c].end] = m, closing[c].read[a] = Sum(LinesOn(a), PostedIn(m))
    PROVE  Books(m, a)' = 0
<1> CloseTypeOK /\ IsFiniteSet(LiveEntries)
  BY DEF CloseInv
<1>1. /\ journal[e].state = "absent" /\ journal'[e].state = "posted" /\ MonthOf[journal'[e].date] = m
      /\ journal'[e].lines[a] = -closing[c].read[a]
      /\ \A f \in JournalIds \ {e} : journal'[f] = journal[f]
      /\ IsFiniteSet(LiveEntries')
  BY PostClosingWrites
<1>2. PICK old : old = PostedIn(m)
  OBVIOUS
<1>3. PICK was, is : was = LinesOn(a) /\ is = [f \in JournalIds |-> journal'[f].lines[a]]
  OBVIOUS
<1>4. e \notin old /\ old \subseteq LiveEntries /\ old \subseteq JournalIds
  BY <1>1, <1>2 DEF PostedIn, LiveEntries, Live
<1>5. PostedIn(m)' = old \cup {e}
  BY <1>1, <1>2 DEF PostedIn
<1>6. IsFiniteSet(old) /\ IsFiniteSet(old \cup {e})
  BY <1>4, FS_Subset, FS_AddElement
<1>7. \A f \in old : was[f] \in Int /\ is[f] = was[f]
  BY <1>1, <1>3, <1>4, LinesAreInt DEF LinesOn
<1>8. Sum(was, old) \in Int /\ Sum(is, old) = Sum(was, old)
  BY <1>6, <1>7, SumType, SumSame
<1>9. is[e] = -Sum(was, old)
  BY <1>1, <1>2, <1>3
<1>10. Sum(is, old \cup {e}) = is[e] + Sum(is, (old \cup {e}) \ {e})
  <2>1. \A f \in old \cup {e} : is[f] \in Int
    BY <1>7, <1>8, <1>9
  <2> QED BY <1>6, <2>1, SumRemove
<1>11. (old \cup {e}) \ {e} = old
  BY <1>4
<1>12. Sum(is, old \cup {e}) = 0
  <2>1. PICK x : x = Sum(was, old)
    OBVIOUS
  <2>2. x \in Int /\ is[e] = -x /\ Sum(is, old \cup {e}) = is[e] + x
    BY <1>8, <1>9, <1>10, <1>11, <2>1
  <2> QED BY <2>2
<1>13. Books(m, a)' = Sum(is, old \cup {e})
  BY <1>1, <1>3, <1>5, BooksAreSums DEF LinesOn
<1> QED BY <1>12, <1>13

\* A closing that nothing has come across, in books with no draft and nothing in
\* the other months, leaves nothing on the month's accounts.
THEOREM TidyClosesEmpty == CloseSpec => TidyCloseEmptiesTheMonth
<1>1. CloseInv /\ [CloseNext]_closeVars
      => [\A d \in Dates :
             NewClosing(d) /\ Undisturbed(d) /\ Tidy(MonthOf[d])
             => \A a \in Accounts : Books(MonthOf[d], a)' = 0]_closeVars
  <2> SUFFICES ASSUME CloseInv, CloseNext, NEW d \in Dates, NewClosing(d), Undisturbed(d),
                      Tidy(MonthOf[d]), NEW a \in Accounts
               PROVE  Books(MonthOf[d], a)' = 0
    OBVIOUS
  <2>1. PICK c \in Closings, e \in JournalIds :
           PostClosing(c, e) /\ closing[c].end = d /\ \A b \in Accounts : closing[c].read[b] = Balance(b)
    BY UndisturbedPosts
  <2>2. closing[c].read[a] = Sum(LinesOn(a), PostedIn(MonthOf[d]))
    BY <2>1, TidyBalance
  <2> QED BY <2>1, <2>2, ClosingTakesTheBalance
<1> QED BY <1>1, CloseInvHolds, PTL DEF CloseSpec, TidyCloseEmptiesTheMonth
=============================================================================
