-------------------------- MODULE Receivables_proofs --------------------------
(***************************************************************************)
(* Proofs about what customers are sent.                                   *)
(*                                                                         *)
(* The numbers of documents, for any number of series, creators,           *)
(* conversions and documents: the row lock makes the allocator hand out    *)
(* every number once, and a number is missing from a series only because   *)
(* of a quote conversion, a deletion or a number somebody wrote over it.   *)
(*                                                                         *)
(* The recurring invoices, for any number of templates and runs: types are *)
(* kept, a template is in one transaction at a time, and a run takes one   *)
(* template and no more.                                                   *)
(*                                                                         *)
(* The chasing of an invoice, for any number of sends, any lockout,        *)
(* frequency and thresholds: types are kept, chases are spaced, the slot   *)
(* tells of the last chase, planned chases climb, and a payment stamps     *)
(* what came before it.                                                    *)
(***************************************************************************)
EXTENDS InvoiceNumbering, RecurringInvoices, PaymentChasing, TLAPS

(* The numbers of documents.                                                 *)
USE DEF history

\* Every number up to last_value has been on a document, lost, or is in the hands of
\* a conversion, and no other number has.
AllocationsKnown ==
    \A s \in Series, n \in 1..MaxNumber :
        /\ n <= lastValue[s] =>
              \/ <<s, n>> \in issued \cup abandoned
              \/ \E h \in Converters : Holds(h, s, n)
        /\ <<s, n>> \in issued \cup abandoned => n <= lastValue[s]

\* What conversions hold: numbers already counted in last_value, given to no
\* document yet, each in one conversion only.
ConversionsHold ==
    \A h \in Converters : handler[h].pc = "insert" =>
        /\ handler[h].number \in 1..lastValue[handler[h].series]
        /\ <<handler[h].series, handler[h].number>> \notin issued \cup abandoned
        /\ \A g \in Converters \ {h} :
              Holds(g, handler[h].series, handler[h].number) => FALSE

\* The inductive invariant.
NumberingInv == NumberingTypeOK /\ LockProtectsSeries /\ ConversionsHold
        /\ AllocationsKnown

\* A resting handler is a well-formed handler state.
LEMMA HandlerRestsType == HandlerRests \in HandlerState /\ HandlerRests.pc = "idle"
  <1>1. (CHOOSE s \in Series : TRUE) \in Series
    BY NumberingAssumption
  <1>2. (CHOOSE q \in Quotes : TRUE) \in Quotes
    BY NumberingAssumption
  <1>3. 0 \in 0..MaxNumber
    BY NumberingAssumption
  <1>4. QED
    BY <1>1, <1>2, <1>3 DEF HandlerRests, HandlerState

\* The initial states satisfy the inductive invariant.
LEMMA InitNumberingInv == NumberingInit => NumberingInv
  <1> SUFFICES ASSUME NumberingInit PROVE NumberingInv
    OBVIOUS
  <1>1. \A h \in Handlers : handler[h].pc = "idle"
    BY HandlerRestsType DEF NumberingInit
  <1>2. NumberingTypeOK
    BY HandlerRestsType, NumberingAssumption DEF NumberingInit, NumberingTypeOK, Numbered
  <1>3. LockProtectsSeries
    BY <1>1 DEF LockProtectsSeries, NumberingInit, Handlers
  <1>4. ConversionsHold
    BY <1>1 DEF ConversionsHold, Handlers
  <1>5. AllocationsKnown
    BY NumberingAssumption DEF AllocationsKnown, NumberingInit
  <1>6. QED
    BY <1>2, <1>3, <1>4, <1>5 DEF NumberingInv

\* A creator takes the row and the next number; last_value is not committed.
LEMMA TxAllocateIInv ==
    ASSUME NumberingInv, NEW h \in TxCreators, NEW s \in Series, TxAllocate(h, s)
    PROVE  NumberingInv'
  <1> USE NumberingAssumption
  <1>1. h \in Handlers /\ h \notin Converters
    BY DEF Handlers
  <1>2. NumberingTypeOK'
    <2>1. lastValue[s] + 1 \in 0..MaxNumber
      BY DEF NumberingInv, NumberingTypeOK, TxAllocate
    <2>2. handler'[h] \in HandlerState
      BY <1>1, <2>1 DEF NumberingInv, NumberingTypeOK, TxAllocate, HandlerState
    <2>3. handler' \in [Handlers -> HandlerState]
      BY <1>1, <2>2 DEF NumberingInv, NumberingTypeOK, TxAllocate
    <2>4. QED
      BY <2>3 DEF NumberingInv, NumberingTypeOK, TxAllocate
  <1>3. LockProtectsSeries'
    BY <1>1 DEF NumberingInv, NumberingTypeOK, LockProtectsSeries, TxAllocate, HandlerState, Handlers
  <1>4. \A g \in Converters : handler'[g] = handler[g]
    BY <1>1 DEF NumberingInv, NumberingTypeOK, TxAllocate, Handlers
  <1>5. ConversionsHold'
    BY <1>4 DEF NumberingInv, ConversionsHold, TxAllocate, Holds
  <1>6. AllocationsKnown'
    <2>1. \A g \in Converters, t \in Series, n \in 1..MaxNumber :
             Holds(g, t, n)' <=> Holds(g, t, n)
      BY <1>4 DEF Holds
    <2>2. QED
      BY <2>1 DEF NumberingInv, AllocationsKnown, TxAllocate
  <1>7. QED
    BY <1>2, <1>3, <1>5, <1>6 DEF NumberingInv

\* The commit counts the number and puts it on a document at once.
LEMMA TxCommitIInv ==
    ASSUME NumberingInv, NEW h \in TxCreators, TxCommit(h)
    PROVE  NumberingInv'
  <1> USE NumberingAssumption
  <1> DEFINE s == handler[h].series
             n == handler[h].number
  <1>1. h \in Handlers /\ h \notin Converters /\ s \in Series
    BY DEF Handlers, NumberingInv, NumberingTypeOK, HandlerState
  <1>2. n = lastValue[s] + 1 /\ rowLock[s] = h /\ n \in 1..MaxNumber
    BY <1>1 DEF NumberingInv, LockProtectsSeries, TxCommit, NumberingTypeOK, HandlerState
  <1>3. NumberingTypeOK'
    BY <1>1, <1>2, HandlerRestsType DEF NumberingInv, NumberingTypeOK, TxCommit, Finish, Numbered
  <1>4. \A g \in Converters : handler'[g] = handler[g]
    BY <1>1 DEF NumberingInv, NumberingTypeOK, TxCommit, Finish, Handlers
  <1>5. LockProtectsSeries'
    <2>1. \A g \in TxCreators : handler'[g].pc = "insert" =>
             g # h /\ handler'[g] = handler[g]
      BY <1>1, HandlerRestsType DEF TxCommit, Finish, NumberingInv, NumberingTypeOK, Handlers
    <2>2. ASSUME NEW g \in TxCreators, handler'[g].pc = "insert"
          PROVE  /\ rowLock'[handler'[g].series] = g
                 /\ handler'[g].number = lastValue'[handler'[g].series] + 1
      <3>1. g # h /\ handler'[g] = handler[g] /\ handler[g].series \in Series
        BY <2>1, <2>2 DEF NumberingInv, NumberingTypeOK, HandlerState, Handlers
      <3>2. rowLock[handler[g].series] = g
        BY <2>2, <3>1 DEF NumberingInv, LockProtectsSeries
      <3>3. handler[g].series # s
        BY <1>2, <3>1, <3>2
      <3>4. QED
        BY <1>1, <2>2, <3>1, <3>2, <3>3 DEF NumberingInv, LockProtectsSeries, TxCommit, NumberingTypeOK
    <2>3. ASSUME NEW t \in Series, rowLock'[t] # Nobody
          PROVE  handler'[rowLock'[t]].pc = "insert" /\ handler'[rowLock'[t]].series = t
      <3>1. t # s /\ rowLock'[t] = rowLock[t]
        BY <1>1, <2>3 DEF TxCommit, NumberingInv, NumberingTypeOK
      <3>2. rowLock[t] # h
        BY <2>3, <3>1 DEF NumberingInv, LockProtectsSeries
      <3>3. QED
        BY <1>1, <2>3, <3>1, <3>2 DEF NumberingInv, LockProtectsSeries, TxCommit, Finish, NumberingTypeOK, Handlers
    <2>4. QED
      BY <2>2, <2>3 DEF LockProtectsSeries
  <1>6. ConversionsHold'
    BY <1>1, <1>2, <1>4
      DEF NumberingInv, ConversionsHold, TxCommit, Holds, NumberingTypeOK, HandlerState, Handlers
  <1>7. AllocationsKnown'
    <2>1. \A g \in Converters, t \in Series, m \in 1..MaxNumber :
             Holds(g, t, m)' <=> Holds(g, t, m)
      BY <1>4 DEF Holds
    <2>2. \A t \in Series : lastValue'[t] = IF t = s THEN n ELSE lastValue[t]
      BY <1>1 DEF TxCommit, NumberingInv, NumberingTypeOK
    <2>3. issued' = issued \cup {<<s, n>>} /\ abandoned' = abandoned
      BY DEF TxCommit
    <2>4. \A t \in Series : lastValue[t] \in 0..MaxNumber
      BY DEF NumberingInv, NumberingTypeOK
    <2>5. SUFFICES ASSUME NEW t \in Series, NEW m \in 1..MaxNumber
          PROVE  /\ m <= lastValue'[t] =>
                      \/ <<t, m>> \in issued' \cup abandoned'
                      \/ \E g \in Converters : Holds(g, t, m)'
                 /\ <<t, m>> \in issued' \cup abandoned' => m <= lastValue'[t]
      BY DEF AllocationsKnown
    <2>6. /\ m <= lastValue[t] =>
               \/ <<t, m>> \in issued \cup abandoned
               \/ \E g \in Converters : Holds(g, t, m)
          /\ <<t, m>> \in issued \cup abandoned => m <= lastValue[t]
      BY DEF NumberingInv, AllocationsKnown
    <2>7. CASE t = s
      BY <1>2, <2>1, <2>2, <2>3, <2>4, <2>6, <2>7
    <2>8. CASE t # s
      BY <2>1, <2>2, <2>3, <2>6, <2>8
    <2>9. QED
      BY <2>7, <2>8
  <1>8. QED
    BY <1>3, <1>5, <1>6, <1>7 DEF NumberingInv

\* A rollback gives the row back as it was.
LEMMA TxRollbackIInv ==
    ASSUME NumberingInv, NEW h \in TxCreators, TxRollback(h)
    PROVE  NumberingInv'
  <1> USE NumberingAssumption
  <1> DEFINE s == handler[h].series
  <1>1. h \in Handlers /\ h \notin Converters /\ s \in Series
    BY DEF Handlers, NumberingInv, NumberingTypeOK, HandlerState
  <1>2. rowLock[s] = h
    BY <1>1 DEF NumberingInv, LockProtectsSeries, TxRollback
  <1>3. NumberingTypeOK'
    BY <1>1, HandlerRestsType DEF NumberingInv, NumberingTypeOK, TxRollback, Finish
  <1>4. \A g \in Converters : handler'[g] = handler[g]
    BY <1>1 DEF NumberingInv, NumberingTypeOK, TxRollback, Finish, Handlers
  <1>5. LockProtectsSeries'
    <2>1. \A g \in TxCreators : handler'[g].pc = "insert" =>
             g # h /\ handler'[g] = handler[g]
      BY <1>1, HandlerRestsType DEF TxRollback, Finish, NumberingInv, NumberingTypeOK, Handlers
    <2>2. ASSUME NEW g \in TxCreators, handler'[g].pc = "insert"
          PROVE  /\ rowLock'[handler'[g].series] = g
                 /\ handler'[g].number = lastValue'[handler'[g].series] + 1
      <3>1. g # h /\ handler'[g] = handler[g] /\ handler[g].series \in Series
        BY <2>1, <2>2 DEF NumberingInv, NumberingTypeOK, HandlerState, Handlers
      <3>2. rowLock[handler[g].series] = g
        BY <2>2, <3>1 DEF NumberingInv, LockProtectsSeries
      <3>3. QED
        BY <1>1, <1>2, <2>2, <3>1, <3>2 DEF NumberingInv, LockProtectsSeries, TxRollback, NumberingTypeOK
    <2>3. ASSUME NEW t \in Series, rowLock'[t] # Nobody
          PROVE  handler'[rowLock'[t]].pc = "insert" /\ handler'[rowLock'[t]].series = t
      <3>1. t # s /\ rowLock'[t] = rowLock[t]
        BY <1>1, <2>3 DEF TxRollback, NumberingInv, NumberingTypeOK
      <3>2. rowLock[t] # h
        BY <2>3, <3>1 DEF NumberingInv, LockProtectsSeries
      <3>3. QED
        BY <1>1, <2>3, <3>1, <3>2 DEF NumberingInv, LockProtectsSeries, TxRollback, Finish, NumberingTypeOK, Handlers
    <2>4. QED
      BY <2>2, <2>3 DEF LockProtectsSeries
  <1>6. ConversionsHold'
    BY <1>4 DEF NumberingInv, ConversionsHold, TxRollback, Holds
  <1>7. AllocationsKnown'
    <2>1. \A g \in Converters, t \in Series, m \in 1..MaxNumber :
             Holds(g, t, m)' <=> Holds(g, t, m)
      BY <1>4 DEF Holds
    <2>2. QED
      BY <2>1 DEF NumberingInv, AllocationsKnown, TxRollback
  <1>8. QED
    BY <1>3, <1>5, <1>6, <1>7 DEF NumberingInv

\* A conversion that only reads the quote touches no number.
LEMMA ConvertReadIInv ==
    ASSUME NumberingInv, NEW h \in Converters, NEW q \in Quotes, ConvertRead(h, q)
    PROVE  NumberingInv'
  <1> USE NumberingAssumption
  <1>1. h \in Handlers /\ h \notin TxCreators
    BY DEF Handlers
  <1>2. NumberingTypeOK'
    BY <1>1 DEF NumberingInv, NumberingTypeOK, ConvertRead, HandlerState
  <1>3. /\ handler'[h].pc = "allocate" /\ handler[h].pc = "idle"
        /\ \A g \in Handlers \ {h} : handler'[g] = handler[g]
    BY <1>1 DEF NumberingInv, NumberingTypeOK, ConvertRead
  <1>4. LockProtectsSeries'
    BY <1>1, <1>3 DEF NumberingInv, NumberingTypeOK, LockProtectsSeries, ConvertRead, Handlers
  <1>5. \A g \in Converters, t \in Series, m \in 1..MaxNumber :
           Holds(g, t, m)' <=> Holds(g, t, m)
    BY <1>3 DEF Holds, Handlers
  <1>6. ConversionsHold'
    BY <1>3 DEF NumberingInv, ConversionsHold, ConvertRead, Holds, Handlers
  <1>7. AllocationsKnown'
    BY <1>5 DEF NumberingInv, AllocationsKnown, ConvertRead
  <1>8. QED
    BY <1>2, <1>4, <1>6, <1>7 DEF NumberingInv

\* A conversion counts the number at once and holds it until the insert.
LEMMA ConvertAllocateIInv ==
    ASSUME NumberingInv, NEW h \in Converters, NEW s \in Series, ConvertAllocate(h, s)
    PROVE  NumberingInv'
  <1> USE NumberingAssumption
  <1> DEFINE n == lastValue[s] + 1
  <1>1. h \in Handlers /\ h \notin TxCreators
    BY DEF Handlers
  <1>2. n \in 1..MaxNumber
    BY DEF NumberingInv, NumberingTypeOK, ConvertAllocate
  <1>3. /\ handler'[h].pc = "insert" /\ handler'[h].series = s /\ handler'[h].number = n
        /\ handler[h].pc = "allocate"
        /\ \A g \in Handlers \ {h} : handler'[g] = handler[g]
        /\ handler'[h] \in HandlerState
    <2>1. handler[h] \in HandlerState /\ handler[h].pc = "allocate"
      BY <1>1 DEF NumberingInv, NumberingTypeOK, ConvertAllocate
    <2>2. handler'[h] = [handler[h] EXCEPT !.pc = "insert", !.series = s, !.number = n]
      BY <1>1 DEF NumberingInv, NumberingTypeOK, ConvertAllocate
    <2>3. \A g \in Handlers \ {h} : handler'[g] = handler[g]
      BY <1>1 DEF NumberingInv, NumberingTypeOK, ConvertAllocate
    <2>4. n \in 0..MaxNumber
      BY <1>2
    <2> HIDE DEF n
    <2>5. QED
      BY <2>1, <2>2, <2>3, <2>4 DEF HandlerState
  <1>4. \A t \in Series : lastValue'[t] = IF t = s THEN n ELSE lastValue[t]
    BY DEF NumberingInv, NumberingTypeOK, ConvertAllocate
  <1>5. NumberingTypeOK'
    <2>1. handler' \in [Handlers -> HandlerState]
      BY <1>1, <1>3 DEF NumberingInv, NumberingTypeOK, ConvertAllocate
    <2>2. QED
      BY <1>2, <2>1 DEF NumberingInv, NumberingTypeOK, ConvertAllocate
  <1>6. LockProtectsSeries'
    <2>1. ASSUME NEW g \in TxCreators, handler'[g].pc = "insert"
          PROVE  /\ rowLock'[handler'[g].series] = g
                 /\ handler'[g].number = lastValue'[handler'[g].series] + 1
      <3>1. handler'[g] = handler[g] /\ handler[g].series \in Series
        BY <1>1, <1>3 DEF Handlers, NumberingInv, NumberingTypeOK, HandlerState
      <3>2. rowLock[handler[g].series] = g
        BY <2>1, <3>1 DEF NumberingInv, LockProtectsSeries
      <3>3. handler[g].series # s
        BY <3>2 DEF ConvertAllocate
      <3>4. QED
        BY <1>4, <2>1, <3>1, <3>2, <3>3 DEF NumberingInv, LockProtectsSeries, ConvertAllocate
    <2>2. ASSUME NEW t \in Series, rowLock'[t] # Nobody
          PROVE  handler'[rowLock'[t]].pc = "insert" /\ handler'[rowLock'[t]].series = t
      BY <1>1, <1>3, <2>2 DEF NumberingInv, NumberingTypeOK, LockProtectsSeries, ConvertAllocate, Handlers
    <2>3. QED
      BY <2>1, <2>2 DEF LockProtectsSeries
  <1>7. <<s, n>> \notin issued \cup abandoned
    <2>1. lastValue[s] \in Nat
      BY DEF NumberingInv, NumberingTypeOK
    <2>2. <<s, n>> \in issued \cup abandoned => n <= lastValue[s]
      BY <1>2 DEF NumberingInv, AllocationsKnown
    <2>3. QED
      BY <2>1, <2>2
  <1>8. ConversionsHold'
    <2>1. SUFFICES ASSUME NEW g \in Converters, handler'[g].pc = "insert"
          PROVE  /\ handler'[g].number \in 1..lastValue'[handler'[g].series]
                 /\ <<handler'[g].series, handler'[g].number>> \notin issued \cup abandoned
                 /\ \A k \in Converters \ {g} :
                       ~ /\ handler'[k].pc = "insert"
                         /\ handler'[k].series = handler'[g].series
                         /\ handler'[k].number = handler'[g].number
      BY DEF ConversionsHold, Holds, ConvertAllocate
    <2>2. \A k \in Converters \ {h} : handler[k].pc = "insert" =>
             /\ handler'[k] = handler[k]
             /\ handler[k].series \in Series
             /\ handler[k].number \in 1..lastValue[handler[k].series]
             /\ <<handler[k].series, handler[k].number>> \notin issued \cup abandoned
      BY <1>3 DEF NumberingInv, ConversionsHold, NumberingTypeOK, HandlerState, Handlers
    <2>3. lastValue[s] \in Nat /\ \A t \in Series : lastValue[t] \in Nat
      BY DEF NumberingInv, NumberingTypeOK
    <2>4. \A k \in Converters \ {h} : handler[k].pc = "insert" /\ handler[k].series = s
             => handler[k].number # n
      <3>1. \A k \in Converters \ {h} : handler[k].pc = "insert" /\ handler[k].series = s
               => handler[k].number \in 1..lastValue[s]
        BY <2>2
      <3>2. n \notin 1..lastValue[s]
        BY <2>3
      <3>3. QED
        BY <3>1, <3>2
    <2>5. CASE g = h
      <3>1. handler'[g].number \in 1..lastValue'[handler'[g].series]
        BY <1>2, <1>3, <1>4, <2>5
      <3>2. QED
        BY <1>3, <1>7, <2>4, <2>5, <3>1 DEF Handlers
    <2>6. CASE g # h
      <3>1. handler'[g] = handler[g] /\ handler[g].pc = "insert"
        BY <1>3, <2>1, <2>6 DEF Handlers
      <3>2. handler'[g].number \in 1..lastValue'[handler'[g].series]
        <4>1. handler[g].number \in 1..lastValue[handler[g].series] /\ handler[g].series \in Series
          BY <2>2, <2>6, <3>1
        <4>2. lastValue[handler[g].series] <= lastValue'[handler[g].series]
          BY <1>4, <2>3, <4>1
        <4>3. lastValue'[handler[g].series] \in Nat
          BY <1>4, <2>3, <4>1
        <4>4. QED
          BY <2>3, <3>1, <4>1, <4>2, <4>3
      <3>3. ASSUME NEW k \in Converters \ {g}
            PROVE  ~ /\ handler'[k].pc = "insert"
                     /\ handler'[k].series = handler[g].series
                     /\ handler'[k].number = handler[g].number
        <4>1. CASE k = h
          BY <1>3, <2>4, <2>6, <3>1, <4>1
        <4>2. CASE k # h
          <5>1. handler'[k] = handler[k]
            BY <1>3, <4>2 DEF Handlers
          <5>2. QED
            BY <3>1, <3>3, <5>1 DEF NumberingInv, ConversionsHold, Holds
        <4>3. QED
          BY <4>1, <4>2
      <3>4. QED
        BY <2>2, <2>6, <3>1, <3>2, <3>3
    <2>7. QED
      BY <2>5, <2>6
  <1>9. AllocationsKnown'
    <2>1. SUFFICES ASSUME NEW t \in Series, NEW m \in 1..MaxNumber
          PROVE  /\ m <= lastValue'[t] =>
                      \/ <<t, m>> \in issued \cup abandoned
                      \/ \E g \in Converters : Holds(g, t, m)'
                 /\ <<t, m>> \in issued \cup abandoned => m <= lastValue'[t]
      BY DEF AllocationsKnown, ConvertAllocate
    <2>2. \A g \in Converters : Holds(g, t, m) => Holds(g, t, m)'
      BY <1>3 DEF Holds, Handlers
    <2>3. m = n /\ t = s => Holds(h, t, m)'
      BY <1>3 DEF Holds
    <2>4. /\ m <= lastValue[t] =>
               \/ <<t, m>> \in issued \cup abandoned
               \/ \E g \in Converters : Holds(g, t, m)
          /\ <<t, m>> \in issued \cup abandoned => m <= lastValue[t]
          /\ lastValue[t] \in Nat
      BY DEF NumberingInv, AllocationsKnown, NumberingTypeOK
    <2>5. QED
      BY <1>4, <2>2, <2>3, <2>4
  <1>10. QED
    BY <1>5, <1>6, <1>8, <1>9 DEF NumberingInv

\* What a conversion step that ends its hold on a number leaves unchanged.
LEMMA ConvertLeaveIInv ==
    ASSUME NumberingInv, NEW h \in Converters,
           handler[h].pc # "idle",
           NEW label, handler' = [handler EXCEPT ![h] = label],
           label \in HandlerState, label.pc \in {"idle", "mark"},
           UNCHANGED <<lastValue, rowLock>>,
           issued \subseteq issued', abandoned \subseteq abandoned',
           UNCHANGED <<outside, renumbered, written>>,
           issued' \cup abandoned' \subseteq issued \cup abandoned \cup
               (IF handler[h].pc = "insert"
                THEN {<<handler[h].series, handler[h].number>>} ELSE {}),
           handler[h].pc = "insert" =>
               <<handler[h].series, handler[h].number>> \in issued' \cup abandoned',
           documents' \subseteq Numbered, deleted' \subseteq Numbered,
           abandoned' \subseteq Numbered, issued' \subseteq Numbered, converted' \subseteq Quotes
    PROVE  NumberingInv'
  <1> USE NumberingAssumption
  <1>1. h \in Handlers /\ h \notin TxCreators
    BY DEF Handlers
  <1>2. NumberingTypeOK'
    BY <1>1 DEF NumberingInv, NumberingTypeOK
  <1>3. /\ handler'[h].pc # "insert"
        /\ \A g \in Handlers \ {h} : handler'[g] = handler[g]
    BY <1>1 DEF NumberingInv, NumberingTypeOK
  <1>4. LockProtectsSeries'
    BY <1>1, <1>3 DEF NumberingInv, NumberingTypeOK, LockProtectsSeries, Handlers
  <1>5. ConversionsHold'
    BY <1>3 DEF NumberingInv, ConversionsHold, Holds, Handlers
  <1>6. AllocationsKnown'
    <2>1. SUFFICES ASSUME NEW t \in Series, NEW m \in 1..MaxNumber
          PROVE  /\ m <= lastValue[t] =>
                      \/ <<t, m>> \in issued' \cup abandoned'
                      \/ \E g \in Converters : Holds(g, t, m)'
                 /\ <<t, m>> \in issued' \cup abandoned' => m <= lastValue[t]
      BY DEF AllocationsKnown
    <2>2. \A g \in Converters \ {h} : Holds(g, t, m) => Holds(g, t, m)'
      BY <1>3 DEF Holds, Handlers
    <2>3. Holds(h, t, m) => <<t, m>> \in issued' \cup abandoned'
      BY DEF Holds
    <2>4. handler[h].pc = "insert" =>
             handler[h].number <= lastValue[handler[h].series]
      <3>1. handler[h].series \in Series
        BY <1>1 DEF NumberingInv, NumberingTypeOK, HandlerState
      <3>2. lastValue[handler[h].series] \in Nat
        BY <3>1 DEF NumberingInv, NumberingTypeOK
      <3>3. handler[h].pc = "insert" => handler[h].number \in 1..lastValue[handler[h].series]
        BY DEF NumberingInv, ConversionsHold
      <3>4. QED
        BY <3>2, <3>3
    <2>5. /\ m <= lastValue[t] =>
               \/ <<t, m>> \in issued \cup abandoned
               \/ \E g \in Converters : Holds(g, t, m)
          /\ <<t, m>> \in issued \cup abandoned => m <= lastValue[t]
      BY DEF NumberingInv, AllocationsKnown
    <2>6. m <= lastValue[t] =>
               \/ <<t, m>> \in issued' \cup abandoned'
               \/ \E g \in Converters : Holds(g, t, m)'
      BY <2>2, <2>3, <2>5
    <2>7. <<t, m>> \in issued' \cup abandoned' => m <= lastValue[t]
      BY <2>4, <2>5
    <2>8. QED
      BY <2>6, <2>7
  <1>7. QED
    BY <1>2, <1>4, <1>5, <1>6 DEF NumberingInv

LEMMA ConvertInsertIInv ==
    ASSUME NumberingInv, NEW h \in Converters, ConvertInsert(h)
    PROVE  NumberingInv'
  <1> DEFINE label == [handler[h] EXCEPT !.pc = "mark"]
  <1>1. handler[h] \in HandlerState /\ h \in Handlers
    BY DEF NumberingInv, NumberingTypeOK, Handlers
  <1>2. label \in HandlerState /\ label.pc = "mark"
    BY <1>1 DEF HandlerState
  <1>3. handler' = [handler EXCEPT ![h] = label]
    BY DEF ConvertInsert
  <1>4. <<handler[h].series, handler[h].number>> \in Numbered
    <2>1. lastValue[handler[h].series] \in 0..MaxNumber /\ handler[h].series \in Series
      BY <1>1 DEF NumberingInv, NumberingTypeOK, HandlerState
    <2>2. handler[h].number \in 1..lastValue[handler[h].series]
      BY DEF NumberingInv, ConversionsHold, ConvertInsert
    <2>3. QED
      BY <2>1, <2>2, NumberingAssumption DEF Numbered
  <1>5. QED
    BY <1>2, <1>3, <1>4, ConvertLeaveIInv DEF ConvertInsert, NumberingInv, NumberingTypeOK

LEMMA ConvertMarkIInv ==
    ASSUME NumberingInv, NEW h \in Converters, ConvertMark(h)
    PROVE  NumberingInv'
  <1>1. handler[h] \in HandlerState /\ h \in Handlers
    BY DEF NumberingInv, NumberingTypeOK, Handlers
  <1>2. converted' \subseteq Quotes
    BY <1>1 DEF NumberingInv, NumberingTypeOK, HandlerState, ConvertMark
  <1>3. QED
    BY <1>2, HandlerRestsType, ConvertLeaveIInv DEF ConvertMark, Finish, NumberingInv, NumberingTypeOK

LEMMA ConvertFailIInv ==
    ASSUME NumberingInv, NEW h \in Converters, ConvertFail(h)
    PROVE  NumberingInv'
  <1>1. handler[h] \in HandlerState /\ h \in Handlers
    BY DEF NumberingInv, NumberingTypeOK, Handlers
  <1>2. handler[h].pc = "insert" => <<handler[h].series, handler[h].number>> \in Numbered
    <2>1. lastValue[handler[h].series] \in 0..MaxNumber /\ handler[h].series \in Series
      BY <1>1 DEF NumberingInv, NumberingTypeOK, HandlerState
    <2>2. handler[h].pc = "insert" => handler[h].number \in 1..lastValue[handler[h].series]
      BY DEF NumberingInv, ConversionsHold
    <2>3. QED
      BY <2>1, <2>2, NumberingAssumption DEF Numbered
  <1>3. CASE handler[h].pc = "insert"
    BY <1>2, <1>3, HandlerRestsType, ConvertLeaveIInv DEF ConvertFail, Finish, NumberingInv, NumberingTypeOK
  <1>4. CASE handler[h].pc # "insert"
    BY <1>4, HandlerRestsType, ConvertLeaveIInv DEF ConvertFail, Finish, NumberingInv, NumberingTypeOK
  <1>5. QED
    BY <1>3, <1>4

\* Deleting or renumbering a document gives nothing to the allocator and takes nothing
\* from it.
RowStep ==
    \/ \E doc \in documents : DeleteDocument(doc) \/ RenumberOut(doc)
    \/ \E doc \in documents, new \in Numbered : Renumber(doc, new)
    \/ \E new \in Numbered : RenumberIn(new)
    \/ DeleteOutside

LEMMA RowStepIInv ==
    ASSUME NumberingInv, RowStep
    PROVE  NumberingInv'
  <1>1. UNCHANGED <<lastValue, rowLock, issued, abandoned, converted, handler>>
    BY DEF RowStep, DeleteDocument, RenumberOut, Renumber, RenumberIn, DeleteOutside
  <1>2. NumberingTypeOK'
    <2>1. /\ documents' \subseteq Numbered /\ deleted' \subseteq Numbered
          /\ renumbered' \subseteq Numbered /\ written' \subseteq Numbered
      BY DEF NumberingInv, NumberingTypeOK, RowStep, DeleteDocument, RenumberOut, Renumber,
         RenumberIn, DeleteOutside
    <2>2. outside' \in Nat
      BY DEF NumberingInv, NumberingTypeOK, RowStep, DeleteDocument, RenumberOut, Renumber,
         RenumberIn, DeleteOutside
    <2>3. QED
      BY <1>1, <2>1, <2>2 DEF NumberingInv, NumberingTypeOK
  <1>3. LockProtectsSeries'
    BY <1>1 DEF NumberingInv, LockProtectsSeries
  <1>4. ConversionsHold'
    BY <1>1 DEF NumberingInv, ConversionsHold, Holds
  <1>5. AllocationsKnown'
    <2>1. lastValue' = lastValue /\ issued' = issued /\ abandoned' = abandoned
      BY <1>1
    <2>2. \A h \in Converters, t \in Series, n \in 1..MaxNumber : Holds(h, t, n) => Holds(h, t, n)'
      BY <1>1 DEF Holds
    <2>3. AllocationsKnown
      BY DEF NumberingInv
    <2>4. QED
      BY <2>1, <2>2, <2>3 DEF AllocationsKnown
  <1>6. QED
    BY <1>2, <1>3, <1>4, <1>5 DEF NumberingInv

\* Every step keeps the inductive invariant.
LEMMA NextNumberingInv == NumberingInv /\ [NumberingNext]_numberingVars => NumberingInv'
  <1> SUFFICES ASSUME NumberingInv, [NumberingNext]_numberingVars PROVE NumberingInv'
    OBVIOUS
  <1>1. ASSUME NEW h \in TxCreators, TxStep(h) PROVE NumberingInv'
    BY <1>1, TxAllocateIInv, TxCommitIInv, TxRollbackIInv DEF TxStep
  <1>2. ASSUME NEW h \in Converters, ConvertStep(h) PROVE NumberingInv'
    BY <1>2, ConvertReadIInv, ConvertAllocateIInv, ConvertInsertIInv, ConvertMarkIInv,
       ConvertFailIInv DEF ConvertStep
  <1>3. CASE RowStep
    BY <1>3, RowStepIInv
  <1>4. CASE UNCHANGED numberingVars
    BY <1>4 DEF numberingVars, NumberingInv, NumberingTypeOK, LockProtectsSeries, ConversionsHold,
       AllocationsKnown, Holds
  <1>5. QED
    BY <1>1, <1>2, <1>3, <1>4 DEF NumberingNext, RowStep

\* The inductive invariant holds in every reachable state.
THEOREM InductiveInvariant == NumberingSpec => []NumberingInv
  BY InitNumberingInv, NextNumberingInv, PTL DEF NumberingSpec

\* Type correctness, for any number of handlers, series and documents.
THEOREM NumberingTypesKept == NumberingSpec => []NumberingTypeOK
  <1>1. NumberingInv => NumberingTypeOK
    BY DEF NumberingInv
  <1>2. QED
    BY <1>1, InductiveInvariant, PTL

\* While a transaction holds a number that it has not committed, it holds the row of
\* its series, and its number is the next one.
THEOREM RowLockGuards == NumberingSpec => []LockProtectsSeries
  <1>1. NumberingInv => LockProtectsSeries
    BY DEF NumberingInv
  <1>2. QED
    BY <1>1, InductiveInvariant, PTL

\* allocateInvoiceNumber never gives one number to two documents, however the
\* transactions and the quote conversions interleave and fail.
THEOREM NumbersAreUnique == NumberingSpec => []NoDoubleAllocation
  <1>1. ASSUME NumberingInv PROVE NoDoubleAllocation
    <2> SUFFICES ASSUME NEW h \in Handlers, NEW s \in Series, NEW n \in 1..MaxNumber,
                        Holds(h, s, n)
                 PROVE  /\ <<s, n>> \notin issued \cup abandoned
                        /\ \A g \in Handlers \ {h} : ~Holds(g, s, n)
      BY DEF NoDoubleAllocation
    <2>1. lastValue[s] \in Nat
      BY <1>1 DEF NumberingInv, NumberingTypeOK
    <2>2. \A g \in TxCreators : Holds(g, s, n) => rowLock[s] = g /\ n = lastValue[s] + 1
      BY <1>1 DEF NumberingInv, LockProtectsSeries, Holds
    <2>3. \A g \in Converters : Holds(g, s, n) =>
             /\ n <= lastValue[s]
             /\ <<s, n>> \notin issued \cup abandoned
             /\ \A k \in Converters \ {g} : ~Holds(k, s, n)
      BY <1>1 DEF NumberingInv, ConversionsHold, Holds
    <2>4. <<s, n>> \in issued \cup abandoned => n <= lastValue[s]
      BY <1>1 DEF NumberingInv, AllocationsKnown
    <2>5. CASE h \in TxCreators
      BY <2>1, <2>2, <2>3, <2>4, <2>5 DEF Handlers
    <2>6. CASE h \in Converters
      BY <2>1, <2>2, <2>3, <2>6 DEF Handlers
    <2>7. QED
      BY <2>5, <2>6 DEF Handlers
  <1>2. QED
    BY <1>1, InductiveInvariant, PTL

\* Where the numbers of documents are: a number a document was created with is on it,
\* or was deleted or renumbered with it, and the other numbers documents have, or had
\* when they were deleted, are of a PUT.
RowsKnown ==
    /\ issued \subseteq documents \cup deleted \cup renumbered
    /\ documents \cup deleted \subseteq issued \cup written

LEMMA RowsKnownStep == RowsKnown /\ [NumberingNext]_numberingVars => RowsKnown'
  <1> SUFFICES ASSUME RowsKnown, [NumberingNext]_numberingVars PROVE RowsKnown'
    OBVIOUS
  <1> USE DEF RowsKnown
  <1>1. ASSUME NEW h \in TxCreators, TxStep(h) PROVE RowsKnown'
    BY <1>1 DEF TxStep, TxAllocate, TxCommit, TxRollback
  <1>2. ASSUME NEW h \in Converters, ConvertStep(h) PROVE RowsKnown'
    BY <1>2 DEF ConvertStep, ConvertRead, ConvertAllocate, ConvertInsert, ConvertMark, ConvertFail
  <1>3. ASSUME NEW doc \in documents, DeleteDocument(doc) \/ RenumberOut(doc) PROVE RowsKnown'
    BY <1>3 DEF DeleteDocument, RenumberOut
  <1>4. ASSUME NEW doc \in documents, NEW new \in Numbered, Renumber(doc, new) PROVE RowsKnown'
    BY <1>4 DEF Renumber
  <1>5. ASSUME NEW new \in Numbered, RenumberIn(new) PROVE RowsKnown'
    BY <1>5 DEF RenumberIn
  <1>6. CASE DeleteOutside \/ UNCHANGED numberingVars
    BY <1>6 DEF DeleteOutside, numberingVars
  <1>7. QED
    BY <1>1, <1>2, <1>3, <1>4, <1>5, <1>6 DEF NumberingNext

THEOREM RowsAreKnown == NumberingSpec => []RowsKnown
  <1>1. NumberingInit => RowsKnown
    BY DEF NumberingInit, RowsKnown
  <1>2. QED
    BY <1>1, RowsKnownStep, PTL DEF NumberingSpec

\* A number missing from a series was deleted or renumbered with its document, or is one
\* that a quote conversion has committed without an invoice.
THEOREM GapsHaveThreeCauses == NumberingSpec => []GapsAreExplained
  <1>1. NumberingInv /\ RowsKnown => GapsAreExplained
    <2> SUFFICES ASSUME NumberingInv, RowsKnown, NEW s \in Series, NEW n \in 1..MaxNumber
                 PROVE  /\ n <= lastValue[s] =>
                             \/ <<s, n>> \in documents \cup deleted \cup renumbered \cup abandoned
                             \/ \E h \in Converters : Holds(h, s, n)
                        /\ n > lastValue[s] =>
                             <<s, n>> \notin (documents \cup deleted \cup abandoned) \ written
      BY DEF GapsAreExplained
    <2>1. lastValue[s] \in Nat
      BY DEF NumberingInv, NumberingTypeOK
    <2>2. /\ n <= lastValue[s] =>
               \/ <<s, n>> \in issued \cup abandoned
               \/ \E h \in Converters : Holds(h, s, n)
          /\ <<s, n>> \in issued \cup abandoned => n <= lastValue[s]
      BY DEF NumberingInv, AllocationsKnown
    <2>3. n > lastValue[s] => ~(n <= lastValue[s])
      BY <2>1
    <2>4. QED
      BY <2>2, <2>3 DEF RowsKnown
  <1>2. QED
    BY <1>1, InductiveInvariant, RowsAreKnown, PTL

\* In a company that converts no quotes the sequence has no gap until a PUT changes a
\* number.
THEOREM GaplessUntilRenumbered ==
    ASSUME Converters = {}
    PROVE  NumberingSpec => []Gapless
  <1>1. NumberingInit => abandoned = {}
    BY DEF NumberingInit
  <1>2. abandoned = {} /\ [NumberingNext]_numberingVars => (abandoned = {})'
    BY DEF NumberingNext, numberingVars, TxStep, TxAllocate, TxCommit, TxRollback, DeleteDocument,
       RenumberOut, Renumber, RenumberIn, DeleteOutside
  <1>3. NumberingInv /\ RowsKnown /\ abandoned = {} => Gapless
    <2> SUFFICES ASSUME NumberingInv, RowsKnown, abandoned = {}, NEW s \in Series,
                        renumbered \cup written = {}
                 PROVE  {n \in 1..MaxNumber : <<s, n>> \in documents \cup deleted} = 1..lastValue[s]
      BY DEF Gapless
    <2>1. lastValue[s] \in 0..MaxNumber /\ MaxNumber \in Nat
      BY NumberingAssumption DEF NumberingInv, NumberingTypeOK
    <2>2. \A n \in 1..MaxNumber : <<s, n>> \in issued <=> n <= lastValue[s]
      BY DEF NumberingInv, AllocationsKnown
    <2>3. issued = documents \cup deleted
      BY DEF RowsKnown
    <2>4. QED
      BY <2>1, <2>2, <2>3
  <1>4. QED
    BY <1>1, <1>2, <1>3, InductiveInvariant, RowsAreKnown, PTL DEF NumberingSpec

-----------------------------------------------------------------------------
(* The recurring invoices.                                                   *)

\* Neither is inductive without the other: a run is given a template while it has
\* had none, and what it locks is what it has had.
RecurringInv == RecurringTypeOK /\ OneRunPerTemplate /\ OneTemplatePerRun

\* A step that leaves every run where it was, or puts it out of its transaction with
\* no more than what it had.
LEMMA RunsLetGo ==
    ASSUME RecurringInv, template' \in [Templates -> Row], today' \in Nat,
           run' \in [Runs -> LocalState],
           \A q \in Runs : /\ run'[q].seen \subseteq run[q].seen
                           /\ run'[q].step = "fetched" => run'[q] = run[q]
    PROVE  RecurringInv'
BY DEF RecurringInv, RecurringTypeOK, OneRunPerTemplate, OneTemplatePerRun, InTransaction

LEMMA InitRecurringInv == RecurringInit => RecurringInv
<1> SUFFICES ASSUME RecurringInit PROVE RecurringInv
  OBVIOUS
<1>1. NoRun \in LocalState /\ NoRun.step = "idle" /\ NoRun.seen = {}
  BY DEF NoRun, LocalState
<1>2. [state : {"active"}, next : Days] \subseteq Row
  BY DEF Row
<1>3. template \in [Templates -> Row] /\ run \in [Runs -> LocalState]
  BY <1>1, <1>2 DEF RecurringInit
<1>4. today \in Nat
  BY DEF RecurringInit
<1> QED BY <1>1, <1>3, <1>4
        DEF RecurringInit, RecurringInv, RecurringTypeOK, OneRunPerTemplate, OneTemplatePerRun,
            InTransaction

LEMMA RunStepKeeps ==
    ASSUME RecurringInv, NEW r \in Runs, RunStep(r) \/ Die(r)
    PROVE  RecurringInv'
<1>1. /\ template \in [Templates -> Row] /\ today \in Nat /\ run \in [Runs -> LocalState]
      /\ run[r] \in LocalState
  BY DEF RecurringInv, RecurringTypeOK
<1>2. CASE Fetch(r)
  <2>1. PICK t \in Available : run' = [run EXCEPT ![r] = [step |-> "fetched", seen |-> {t}]]
    BY <1>2 DEF Fetch
  <2>2. t \in Templates /\ \A q \in Runs : ~InTransaction(q, t)
    BY DEF Available, Locked
  <2>3. [step |-> "fetched", seen |-> {t}] \in LocalState
    BY <2>2 DEF LocalState
  <2>4. /\ run' \in [Runs -> LocalState] /\ run'[r] = [step |-> "fetched", seen |-> {t}]
        /\ \A q \in Runs \ {r} : run'[q] = run[q]
    BY <1>1, <2>1, <2>3
  <2>5. template' = template /\ today' = today
    BY <1>2 DEF Fetch
  <2> QED BY <1>1, <2>2, <2>4, <2>5
          DEF RecurringInv, RecurringTypeOK, OneRunPerTemplate, OneTemplatePerRun, InTransaction
<1>3. CASE Tick(r) \/ FetchNothing(r) \/ Rollback(r) \/ Die(r) \/ Disable(r)
  <2>1. /\ [run[r] EXCEPT !.step = "fetch"] \in LocalState
        /\ [run[r] EXCEPT !.step = "fetch"].step = "fetch"
        /\ [run[r] EXCEPT !.step = "fetch"].seen = run[r].seen
    BY <1>1 DEF LocalState
  <2>2. NoRun \in LocalState /\ NoRun.step = "idle" /\ NoRun.seen = {}
    BY DEF NoRun, LocalState
  <2>3. run' \in {[run EXCEPT ![r] = [run[r] EXCEPT !.step = "fetch"]], [run EXCEPT ![r] = NoRun]}
    BY <1>1, <1>3 DEF Tick, FetchNothing, Rollback, Die, Disable
  <2>4. PICK local \in LocalState :
           /\ local.step # "fetched" /\ local.seen \subseteq run[r].seen
           /\ run' = [run EXCEPT ![r] = local]
    BY <2>1, <2>2, <2>3
  <2>5. run' \in [Runs -> LocalState] /\ run'[r] = local /\ \A q \in Runs \ {r} : run'[q] = run[q]
    BY <1>1, <2>4
  <2>6. template' \in [Templates -> Row] /\ today' = today
    <3>1. CASE Disable(r)
      <4>1. \A t \in Templates : [template[t] EXCEPT !.state = "inactive"] \in Row
        BY <1>1 DEF Row
      <4> QED BY <1>1, <3>1, <4>1 DEF Disable
    <3>2. CASE ~Disable(r)
      BY <1>1, <1>3, <3>2 DEF Tick, FetchNothing, Rollback, Die
    <3> QED BY <3>1, <3>2
  <2> HIDE DEF RecurringInv
  <2> QED BY <1>1, <2>4, <2>5, <2>6, RunsLetGo
<1>4. CASE FetchFails(r)
  BY <1>1, <1>4, RunsLetGo DEF FetchFails, recurringVars
<1> QED BY <1>2, <1>3, <1>4 DEF RunStep

LEMMA NextRecurringInv == RecurringInv /\ [RecurringNext]_recurringVars => RecurringInv'
<1> SUFFICES ASSUME RecurringInv, [RecurringNext]_recurringVars PROVE RecurringInv'
  OBVIOUS
<1>1. template \in [Templates -> Row] /\ today \in Nat /\ run \in [Runs -> LocalState]
  BY DEF RecurringInv, RecurringTypeOK
<1>2. ASSUME NEW t \in Templates, NEW row \in Row, Writes(t, row) PROVE RecurringInv'
  <2>1. template' \in [Templates -> Row] /\ today' = today /\ run' = run
    BY <1>1, <1>2 DEF Writes
  <2> QED BY <1>1, <2>1, RunsLetGo
<1>3. ASSUME NEW t \in Templates, User(t) PROVE RecurringInv'
  <2>1. template[t] \in Row
    BY <1>1
  <2>2. \A d \in Days : [template[t] EXCEPT !.next = d] \in Row
    BY <2>1 DEF Row
  <2>3. \A state \in {"active", "inactive", "deleted"} : [template[t] EXCEPT !.state = state] \in Row
    BY <2>1 DEF Row
  <2>4. PICK row \in Row : Writes(t, row)
    BY <1>3, <2>2, <2>3 DEF User, EditNext, Toggle, Delete
  <2> QED BY <1>2, <2>4
<1>4. CASE NextDay
  <2>1. today' \in Nat /\ template' = template /\ run' = run
    BY <1>1, <1>4 DEF NextDay
  <2> QED BY <1>1, <2>1, RunsLetGo
<1>5. CASE UNCHANGED recurringVars
  BY <1>1, <1>5, RunsLetGo DEF recurringVars
<1> QED BY <1>3, <1>4, <1>5, RunStepKeeps DEF RecurringNext

-----------------------------------------------------------------------------
\* Templates, clock and runs keep their types.
THEOREM RecurringTypesKept == RecurringSpec => []RecurringTypeOK
<1>1. RecurringInv => RecurringTypeOK
  BY DEF RecurringInv
<1> QED BY <1>1, InitRecurringInv, NextRecurringInv, PTL DEF RecurringSpec

\* No two runs are in the transaction of one template, however many servers there are.
THEOREM TemplatesAreLocked == RecurringSpec => []OneRunPerTemplate
<1>1. RecurringInv => OneRunPerTemplate
  BY DEF RecurringInv
<1> QED BY <1>1, InitRecurringInv, NextRecurringInv, PTL DEF RecurringSpec

\* Whatever the templates, a run takes at most one of those that are due: the SELECT
\* that should pass over those it has had is refused.
THEOREM RunsTakeOneTemplate == RecurringSpec => []OneTemplatePerRun
<1>1. RecurringInv => OneTemplatePerRun
  BY DEF RecurringInv
<1> QED BY <1>1, InitRecurringInv, NextRecurringInv, PTL DEF RecurringSpec

-----------------------------------------------------------------------------
(* The chasing of an invoice.                                                *)
USE ChasingAssumption

\* What has claimed the slot: the chases, and the sends that are about to insert
\* theirs.
Apart(s, t) == s < t - Lockout \/ t < s - Lockout

Inserting(r) == request[r].step = "insert"

\* The slot is at the last claim, and claims are spaced.
ClaimsAreSpaced ==
    /\ ChasesSpaced
    /\ \A c \in chases : c.sentAt <= invoice.last
    /\ \A r \in Requests : Inserting(r) => request[r].sentAt <= invoice.last
    /\ \A r \in Requests, c \in chases : Inserting(r) => Apart(request[r].sentAt, c.sentAt)
    /\ \A r, q \in Requests :
          r # q /\ Inserting(r) /\ Inserting(q) => Apart(request[r].sentAt, request[q].sentAt)

\* The last claim is stored, about to be stored, or lost with its send.
LastClaimIsKnown ==
    \/ burnt
    \/ /\ invoice.last = Never /\ invoice.level = 0 /\ chases = {}
       /\ \A r \in Requests : ~Inserting(r)
    \/ \E r \in Requests : Inserting(r) /\ request[r].sentAt = invoice.last
                           /\ request[r].level = invoice.level
    \/ \E c \in chases : c.sentAt = invoice.last /\ c.level = invoice.level

-----------------------------------------------------------------------------
LEMMA LevelsAreLevels == ASSUME TypeOK PROVE NextLevels \subseteq Levels
  BY DEF NextLevels, Levels

LEMMA SendingType == ASSUME NEW kind \in Kinds, NEW k \in Levels PROVE Sending(kind, k) \in Local
  BY DEF Sending, Local, Time

LEMMA RestingType == Resting \in Local /\ Resting.step = "idle"
<1>1. Sending("next", 1) \in Local
  BY SendingType DEF Kinds, Levels
<1> QED BY <1>1 DEF Resting, Local, Sending

\* What a step does to the types of what it writes.
LEMMA SendType ==
    ASSUME TypeOK, NEW r \in Requests, SendStep(r)
    PROVE  TypeOK'
<1> USE DEF TypeOK
<1>1. CASE Send(r) \/ BulkSend(r)
  <2>1. PICK kind \in Kinds, k \in Levels : Begin(r, kind, k)
    BY <1>1, LevelsAreLevels DEF Send, BulkSend, Kinds
  <2> QED BY <2>1, SendingType DEF Begin
<1>2. CASE Stamp(r)
  <2>1. \A t \in Time : [request[r] EXCEPT !.step = "claim", !.sentAt = t] \in Local
    BY DEF Local
  <2>2. request' = [request EXCEPT ![r] = [request[r] EXCEPT !.step = "claim", !.sentAt = now]]
    BY <1>2 DEF Stamp
  <2>3. request' \in [Requests -> Local]
    BY <2>1, <2>2
  <2> QED BY <1>2, <2>3 DEF Stamp
<1>3. CASE Claim(r)
  <2>1. invoice' \in Invoice
    <3>1. request[r].level \in 0 .. 4 /\ request[r].sentAt \in Time
      BY DEF Local, Levels
    <3> QED BY <1>3, <3>1 DEF Claim, Invoice
  <2>2. \A q \in Requests :
           /\ [request[r] EXCEPT !.step = "insert"] \in Local
           /\ [request[q] EXCEPT !.row = "overtaken"] \in Local
    BY DEF Local
  <2>3. planned' \in BOOLEAN
    BY <1>3 DEF Claim
  <2> QED BY <1>3, <2>1, <2>2, <2>3 DEF Claim
<1>4. CASE SlotTaken(r)
  BY <1>4, RestingType DEF SlotTaken
<1>5. CASE Insert(r)
  <2>1. chases' \subseteq Chase
    BY <1>5 DEF Insert, NewChase, Chase, Local
  <2> QED BY <1>5, <2>1, RestingType DEF Insert
<1>6. CASE GiveUp(r)
  <2>1. burnt' \in BOOLEAN
    BY <1>6 DEF GiveUp
  <2> QED BY <1>6, <2>1, RestingType DEF GiveUp
<1> QED BY <1>1, <1>2, <1>3, <1>4, <1>5, <1>6 DEF SendStep

LEMMA TypeStep == TypeOK /\ [Next]_vars => TypeOK'
<1> SUFFICES ASSUME TypeOK, [Next]_vars PROVE TypeOK'
  OBVIOUS
<1>1. ASSUME NEW r \in Requests, SendStep(r) PROVE TypeOK'
  BY <1>1, SendType
<1>2. CASE Pay
  BY <1>2 DEF Pay, TypeOK, Invoice, Chase, Statuses
<1>3. ASSUME NEW w \in Writers, NEW status \in Statuses, BeginWrite(w, status) PROVE TypeOK'
  BY <1>3 DEF BeginWrite, TypeOK
<1>7. ASSUME NEW w \in Writers, WriteStatus(w) PROVE TypeOK'
  BY <1>7 DEF WriteStatus, TypeOK, Invoice
<1>4. CASE Elapse
  BY <1>4 DEF Elapse, TypeOK, Time
<1>5. ASSUME NEW value \in BOOLEAN, SetDoNotChase(value) PROVE TypeOK'
  BY <1>5 DEF SetDoNotChase, TypeOK, Invoice
<1>6. CASE UNCHANGED vars
  BY <1>6 DEF vars, TypeOK
<1> QED BY <1>1, <1>2, <1>3, <1>4, <1>5, <1>6, <1>7 DEF Next

\* The writers touch of all that only the status of the invoice, and make it no
\* payment's.
WriterStep == \E w \in Writers : WriteStatus(w) \/ \E status \in Statuses : BeginWrite(w, status)

LEMMA WriterMoves ==
    ASSUME TypeOK, WriterStep
    PROVE  /\ invoice'.last = invoice.last /\ invoice'.level = invoice.level
           /\ request' = request /\ chases' = chases /\ now' = now
           /\ burnt' = burnt /\ planned' = planned
           /\ settled' => settled /\ invoice' = invoice
  BY DEF WriterStep, WriteStatus, BeginWrite, TypeOK, Invoice

LEMMA InitType == Init => TypeOK
<1>1. 0 \in Time /\ 0 \in 0 .. 4
  BY DEF Time
<1>2. Init => invoice \in Invoice
  BY <1>1 DEF Init, Invoice, Statuses
<1>3. Init => /\ doNotChase \in BOOLEAN /\ planned \in BOOLEAN /\ burnt \in BOOLEAN
             /\ settled \in BOOLEAN /\ target \in [Writers -> Statuses \cup {NoStatus}]
  BY DEF Init
<1> QED BY <1>1, <1>2, <1>3, RestingType DEF Init, TypeOK

\* Rows, clock and sends keep their types.
THEOREM TypesKept == Spec => []TypeOK
<1> QED BY InitType, TypeStep, PTL DEF Spec

-----------------------------------------------------------------------------
(* Spacing: the UPDATE that claims compares with the stamp of the last claim. *)

LEMMA SendSpaced ==
    ASSUME TypeOK, ClaimsAreSpaced, NEW r \in Requests, SendStep(r)
    PROVE  ClaimsAreSpaced'
<1> USE DEF TypeOK, ClaimsAreSpaced
<1>1. CASE Send(r) \/ BulkSend(r)
  <2>1. PICK kind \in Kinds, k \in Levels : Begin(r, kind, k)
    BY <1>1, LevelsAreLevels DEF Send, BulkSend, Kinds
  <2>2. chases' = chases /\ invoice' = invoice
        /\ \A q \in Requests : Inserting(q)' => Inserting(q) /\ request'[q] = request[q]
    BY <2>1 DEF Begin, Inserting, Sending
  <2> QED BY <2>2 DEF ChasesSpaced, Apart
<1>2. CASE Stamp(r)
  <2>1. chases' = chases /\ invoice' = invoice
        /\ \A q \in Requests : Inserting(q)' => Inserting(q) /\ request'[q] = request[q]
    BY <1>2 DEF Stamp, Inserting
  <2> QED BY <2>1 DEF ChasesSpaced, Apart
<1>3. CASE Claim(r)
  <2> DEFINE t == request[r].sentAt
  <2>1. chases' = chases /\ invoice'.last = t /\ request'[r].sentAt = t /\ ~Inserting(r)
    BY <1>3 DEF Claim, Inserting, Invoice, Local
  <2>2. \A q \in Requests \ {r} :
           (Inserting(q)' <=> Inserting(q)) /\ request'[q].sentAt = request[q].sentAt
    BY <1>3 DEF Claim, Inserting, Local
  <2>3. t \in Int /\ invoice.last \in Int /\ Lockout \in Nat
        /\ (\A c \in chases : c.sentAt \in Int) /\ (\A q \in Requests : request[q].sentAt \in Int)
    BY DEF Local, Invoice, Chase, Time, Never
  <2>4. \A c \in chases : c.sentAt < t - Lockout
    <3>1. \A c \in chases : c.sentAt >= 0 /\ c.sentAt <= invoice.last
      BY DEF Chase, Time
    <3> QED BY <1>3, <2>3, <3>1 DEF Claim, SlotFree, Never
  <2>5. \A q \in Requests : Inserting(q) => request[q].sentAt < t - Lockout
    <3>1. \A q \in Requests : request[q].sentAt >= 0
      BY DEF Local, Time
    <3> QED BY <1>3, <2>3, <3>1 DEF Claim, SlotFree, Never
  <2>6. ChasesSpaced'
    BY <2>1 DEF ChasesSpaced
  <2>7. \A c \in chases' : c.sentAt <= invoice'.last
    BY <2>1, <2>3, <2>4
  <2>8. \A q \in Requests : Inserting(q)' => request'[q].sentAt <= invoice'.last
    BY <2>1, <2>2, <2>3, <2>5
  <2>9. \A q \in Requests, c \in chases' : Inserting(q)' => Apart(request'[q].sentAt, c.sentAt)
    BY <2>1, <2>2, <2>4 DEF Apart
  <2>10. \A p, q \in Requests :
           p # q /\ Inserting(p)' /\ Inserting(q)' => Apart(request'[p].sentAt, request'[q].sentAt)
    BY <2>1, <2>2, <2>5 DEF Apart
  <2> QED BY <2>6, <2>7, <2>8, <2>9, <2>10
<1>4. CASE SlotTaken(r) \/ GiveUp(r)
  <2>1. chases' = chases /\ invoice' = invoice
        /\ \A q \in Requests : Inserting(q)' => Inserting(q) /\ request'[q] = request[q]
    BY <1>4, RestingType DEF SlotTaken, GiveUp, Inserting
  <2> QED BY <2>1 DEF ChasesSpaced, Apart
<1>5. CASE Insert(r)
  <2> DEFINE new == NewChase(r, request[r].sentAt)
  <2>1. chases' = chases \cup {new} /\ new.sentAt = request[r].sentAt
    BY <1>5 DEF Insert, NewChase
  <2> HIDE DEF new
  <2>2. invoice' = invoice /\ Inserting(r)
        /\ \A q \in Requests : Inserting(q)' => q # r /\ Inserting(q) /\ request'[q] = request[q]
    BY <1>5, RestingType DEF Insert, Inserting
  <2>3. \A c \in chases' : c.sentAt <= invoice'.last
    BY <2>1, <2>2
  <2>4. ChasesSpaced'
    BY <2>1, <2>2 DEF ChasesSpaced, Apart
  <2>5. \A q \in Requests, c \in chases' : Inserting(q)' => Apart(request'[q].sentAt, c.sentAt)
    BY <2>1, <2>2 DEF Apart
  <2> QED BY <2>2, <2>3, <2>4, <2>5
<1> QED BY <1>1, <1>2, <1>3, <1>4, <1>5 DEF SendStep

LEMMA SpacedStep == TypeOK /\ ClaimsAreSpaced /\ [Next]_vars => ClaimsAreSpaced'
<1> SUFFICES ASSUME TypeOK, ClaimsAreSpaced, [Next]_vars PROVE ClaimsAreSpaced'
  OBVIOUS
<1>1. ASSUME NEW r \in Requests, SendStep(r) PROVE ClaimsAreSpaced'
  BY <1>1, SendSpaced
<1>2. CASE Pay
  <2>1. invoice'.last = invoice.last /\ request' = request
    BY <1>2 DEF Pay, TypeOK, Invoice
  <2>2. \A d \in chases' : \E c \in chases : d = [c EXCEPT !.payment = "paid"] /\ d.sentAt = c.sentAt
    BY <1>2 DEF Pay, TypeOK, Chase
  <2>3. ChasesSpaced'
    BY <2>2 DEF ClaimsAreSpaced, ChasesSpaced
  <2> QED BY <2>1, <2>2, <2>3 DEF ClaimsAreSpaced, Inserting, Apart
<1>3. CASE WriterStep \/ Elapse \/ (\E value \in BOOLEAN : SetDoNotChase(value)) \/ UNCHANGED vars
  <2>1. invoice'.last = invoice.last /\ request' = request /\ chases' = chases
    BY <1>3, WriterMoves DEF Elapse, SetDoNotChase, vars
  <2> QED BY <2>1 DEF ClaimsAreSpaced, ChasesSpaced, Inserting, Apart
<1> QED BY <1>1, <1>2, <1>3 DEF Next, WriterStep

\* Two chases of an invoice are further apart than the lockout, however many sends
\* race for it.
THEOREM ChasesAreSpaced == Spec => []ChasesSpaced
<1>1. Init => ClaimsAreSpaced
  BY RestingType DEF Init, ClaimsAreSpaced, ChasesSpaced, Inserting
<1>2. ClaimsAreSpaced => ChasesSpaced
  BY DEF ClaimsAreSpaced
<1> QED BY <1>1, <1>2, InitType, TypeStep, SpacedStep, PTL DEF Spec

-----------------------------------------------------------------------------
(* The slot: LastClaimIsKnown, in which the send of the last claim is either *)
(* still to insert, or has inserted, or is lost.                            *)

SlotInv == LastClaimIsKnown /\ ClaimsAreSpaced

LEMMA SlotStep == TypeOK /\ SlotInv /\ [Next]_vars => LastClaimIsKnown'
<1> SUFFICES ASSUME TypeOK, ClaimsAreSpaced, LastClaimIsKnown, [Next]_vars
             PROVE  LastClaimIsKnown'
  BY DEF SlotInv
<1> USE DEF LastClaimIsKnown
<1>1. ASSUME NEW r \in Requests, SendStep(r) PROVE LastClaimIsKnown'
  <2>1. CASE Send(r) \/ BulkSend(r) \/ Stamp(r)
    <3>1. \A q \in Requests :
             (Inserting(q)' <=> Inserting(q)) /\ (Inserting(q) => request'[q] = request[q])
      <4>1. CASE Stamp(r)
        BY <4>1 DEF Stamp, Inserting, TypeOK
      <4>2. CASE Send(r) \/ BulkSend(r)
        <5>1. PICK kind \in Kinds, k \in Levels : Begin(r, kind, k)
          BY <4>2, LevelsAreLevels DEF Send, BulkSend, Kinds
        <5> QED BY <5>1 DEF Begin, Inserting, Sending, TypeOK
      <4> QED BY <2>1, <4>1, <4>2
    <3>2. chases' = chases /\ invoice' = invoice /\ burnt' = burnt
      BY <2>1 DEF Send, BulkSend, Begin, Stamp
    <3> QED BY <3>1, <3>2
  <2>2. CASE Claim(r)
    BY <2>2 DEF Claim, Inserting, TypeOK, Invoice, Local
  <2>3. CASE SlotTaken(r)
    <3>1. \A q \in Requests :
             (Inserting(q)' <=> Inserting(q)) /\ (Inserting(q) => request'[q] = request[q])
      BY <2>3, RestingType DEF SlotTaken, Inserting, TypeOK
    <3> QED BY <2>3, <3>1 DEF SlotTaken
  <2>4. CASE Insert(r)
    <3>1. \A q \in Requests : q # r => request'[q] = request[q]
      BY <2>4 DEF Insert, TypeOK
    <3>2. NewChase(r, request[r].sentAt) \in chases' /\ chases \subseteq chases'
          /\ invoice' = invoice /\ burnt' = burnt /\ Inserting(r)
      BY <2>4 DEF Insert, Inserting
    <3>3. /\ NewChase(r, request[r].sentAt).sentAt = request[r].sentAt
          /\ NewChase(r, request[r].sentAt).level = request[r].level
      BY DEF NewChase
    <3> QED BY <3>1, <3>2, <3>3 DEF Inserting
  <2>5. CASE GiveUp(r)
    <3>1. CASE Inserting(r)
      BY <2>5, <3>1 DEF GiveUp, Inserting
    <3>2. CASE ~Inserting(r)
      <4>1. \A q \in Requests :
               (Inserting(q)' <=> Inserting(q)) /\ (Inserting(q) => request'[q] = request[q])
        BY <2>5, <3>2, RestingType DEF GiveUp, Inserting, TypeOK
      <4>2. burnt => burnt'
        BY <2>5 DEF GiveUp
      <4> QED BY <2>5, <4>1, <4>2 DEF GiveUp
    <3> QED BY <3>1, <3>2
  <2> QED BY <1>1, <2>1, <2>2, <2>3, <2>4, <2>5 DEF SendStep
<1>2. CASE Pay
  <2>1. invoice'.last = invoice.last /\ invoice'.level = invoice.level
        /\ request' = request /\ burnt' = burnt
    BY <1>2 DEF Pay, TypeOK, Invoice
  <2>2. \A c \in chases : [c EXCEPT !.payment = "paid"] \in chases'
           /\ [c EXCEPT !.payment = "paid"].sentAt = c.sentAt
           /\ [c EXCEPT !.payment = "paid"].level = c.level
    BY <1>2 DEF Pay, TypeOK, Chase
  <2>3. chases = {} => chases' = {}
    BY <1>2 DEF Pay
  <2>4. ASSUME NEW c \in chases, c.sentAt = invoice.last, c.level = invoice.level
        PROVE  \E d \in chases' : d.sentAt = invoice'.last /\ d.level = invoice'.level
    BY <2>1, <2>2, <2>4
  <2>5. \A r \in Requests : Inserting(r)' = Inserting(r)
    BY <2>1 DEF Inserting
  <2> QED BY <2>1, <2>3, <2>4, <2>5
<1>3. CASE WriterStep \/ Elapse \/ (\E value \in BOOLEAN : SetDoNotChase(value)) \/ UNCHANGED vars
  <2>1. invoice'.last = invoice.last /\ invoice'.level = invoice.level
        /\ request' = request /\ chases' = chases /\ burnt' = burnt
    BY <1>3, WriterMoves DEF Elapse, SetDoNotChase, vars
  <2> QED BY <2>1 DEF Inserting
<1> QED BY <1>1, <1>2, <1>3 DEF Next, WriterStep

\* But for a send that is between its two writes or died there, the row of the
\* invoice tells level and time of the last chase.
THEOREM SlotTellsTheLastChase == Spec => []SlotTellsLastChase
<1>1. Init => SlotInv
  BY RestingType DEF Init, SlotInv, LastClaimIsKnown, ClaimsAreSpaced, ChasesSpaced, Inserting
<1>2. TypeOK /\ SlotInv /\ [Next]_vars => SlotInv'
  BY SlotStep, SpacedStep DEF SlotInv
<1>3. TypeOK /\ SlotInv => SlotTellsLastChase
  BY DEF SlotInv, LastClaimIsKnown, ClaimsAreSpaced, SlotTellsLastChase, Inserting
<1> QED BY <1>1, <1>2, <1>3, InitType, TypeStep, PTL DEF Spec

-----------------------------------------------------------------------------
(* The payment: what it stamps, and what comes too late for it.              *)

LEMMA StampStep == TypeOK /\ PaymentStampsChases /\ [Next]_vars => PaymentStampsChases'
<1> SUFFICES ASSUME TypeOK, PaymentStampsChases, [Next]_vars PROVE PaymentStampsChases'
  OBVIOUS
<1>1. ASSUME NEW r \in Requests, SendStep(r) PROVE PaymentStampsChases'
  <2>1. invoice'.status = invoice.status /\ settled' = settled
    BY <1>1 DEF SendStep, Send, BulkSend, Begin, Stamp, Claim, SlotTaken, Insert, GiveUp, TypeOK, Invoice
  <2>2. CASE Insert(r)
    <3>1. invoice.status = "paid" => NewChase(r, request[r].sentAt).payment # "open"
      BY DEF NewChase
    <3> QED BY <2>1, <2>2, <3>1 DEF Insert, PaymentStampsChases
  <2>3. CASE ~Insert(r)
    <3>1. chases' = chases
      BY <1>1, <2>3 DEF SendStep, Send, BulkSend, Begin, Stamp, Claim, SlotTaken, GiveUp
    <3> QED BY <2>1, <3>1 DEF PaymentStampsChases
  <2> QED BY <2>2, <2>3
<1>2. CASE Pay
  <2>1. \A d \in chases' : d.payment = "paid"
    BY <1>2 DEF Pay, TypeOK, Chase
  <2> QED BY <2>1 DEF PaymentStampsChases
<1>3. CASE WriterStep \/ Elapse \/ (\E value \in BOOLEAN : SetDoNotChase(value)) \/ UNCHANGED vars
  <2>1. chases' = chases /\ (settled' => settled /\ invoice' = invoice)
    BY <1>3, WriterMoves DEF Elapse, SetDoNotChase, vars
  <2> QED BY <2>1 DEF PaymentStampsChases
<1> QED BY <1>1, <1>2, <1>3 DEF Next, WriterStep

\* The chases of an invoice that a payment settled carry the payment's date, but for
\* those that were inserted after it, whatever status the other routes write.
THEOREM PaymentStamps == Spec => []PaymentStampsChases
<1>1. Init => PaymentStampsChases
  BY DEF Init, PaymentStampsChases
<1> QED BY <1>1, InitType, TypeStep, StampStep, PTL DEF Spec

-----------------------------------------------------------------------------
(* The ladder: while everything goes to plan, the row a send has read is the *)
(* row it claims, so its level and its distance are from the last claim, and *)
(* the last claim is the highest and latest.                                *)

\* How two claims lie to each other; a chase and a send have the same fields.
Climbs(a, b) ==
    a.sentAt < b.sentAt =>
        /\ a.level < b.level
        /\ b.kind = "bulk" => Day(b.sentAt) - Day(a.sentAt) >= Frequency

\* The time a send's reading is good for.
ReadFor(r) == IF request[r].step = "claim" THEN request[r].sentAt ELSE now

ToPlan(r) == request[r].step \in {"stamp", "claim"} /\ request[r].row = "fresh"
             /\ request[r].kind # "asked"

SlotIsHighest ==
    /\ \A c \in chases : c.level <= invoice.level
    /\ \A r \in Requests : Inserting(r) => request[r].level <= invoice.level

ClaimsClimb ==
    /\ \A c, d \in chases : Climbs(c, d)
    /\ \A r \in Requests, c \in chases :
          Inserting(r) => Climbs(request[r], c) /\ Climbs(c, request[r])
    /\ \A r, q \in Requests : Inserting(r) /\ Inserting(q) => Climbs(request[r], request[q])

ReadingsHold ==
    \A r \in Requests : ToPlan(r) =>
        /\ invoice.level < request[r].level
        /\ request[r].kind = "bulk" =>
              invoice.last = Never \/ Day(ReadFor(r)) - Day(invoice.last) >= Frequency

PlanInv == planned => SlotIsHighest /\ ClaimsClimb /\ ReadingsHold

LEMMA DayMonotone ==
    ASSUME NEW s \in Nat, NEW t \in Nat, s <= t
    PROVE  Day(s) <= Day(t) /\ Day(s) \in Int /\ Day(t) \in Int
  BY DEF Day

\* A step that makes no claim and no chase keeps what was claimed.
LEMMA ClaimsKept ==
    ASSUME TypeOK, SlotIsHighest, ClaimsClimb,
           \A d \in chases' : \E c \in chases :
              d.sentAt = c.sentAt /\ d.level = c.level /\ d.kind = c.kind,
           invoice'.level = invoice.level,
           \A q \in Requests : Inserting(q)' => Inserting(q) /\ request'[q] = request[q]
    PROVE  SlotIsHighest' /\ ClaimsClimb'
<1>1. SlotIsHighest'
  BY DEF SlotIsHighest
<1>2. \A c, d \in chases' : Climbs(c, d)
  BY DEF ClaimsClimb, Climbs
<1>3. \A r \in Requests, c \in chases' :
         Inserting(r)' => Climbs(request'[r], c) /\ Climbs(c, request'[r])
  BY DEF ClaimsClimb, Climbs
<1>4. \A r, q \in Requests : Inserting(r)' /\ Inserting(q)' => Climbs(request'[r], request'[q])
  BY DEF ClaimsClimb
<1> QED BY <1>1, <1>2, <1>3, <1>4 DEF ClaimsClimb, Climbs

LEMMA PlanBegin ==
    ASSUME TypeOK, PlanInv, planned, NEW r \in Requests, Send(r) \/ BulkSend(r)
    PROVE  SlotIsHighest' /\ ClaimsClimb' /\ ReadingsHold'
<1>1. PICK kind \in Kinds, k \in Levels :
         /\ Begin(r, kind, k)
         /\ kind # "asked" => k \in NextLevels
         /\ kind = "bulk" => FrequencyEligible
  BY LevelsAreLevels DEF Send, BulkSend, Kinds
<1>2. chases' = chases /\ invoice' = invoice /\ now' = now
      /\ request' = [request EXCEPT ![r] = Sending(kind, k)]
  BY <1>1 DEF Begin
<1>3. \A q \in Requests : Inserting(q)' => Inserting(q) /\ request'[q] = request[q]
  BY <1>2 DEF Inserting, Sending, TypeOK
<1>4. SlotIsHighest' /\ ClaimsClimb'
  BY <1>2, <1>3, ClaimsKept DEF PlanInv
<1>5. k \in NextLevels => invoice.level < k
  BY DEF NextLevels, TypeOK, Invoice
<1>6. request'[r].step = "stamp" /\ request'[r].level = k /\ request'[r].kind = kind
      /\ \A q \in Requests \ {r} : request'[q] = request[q]
  BY <1>2 DEF Sending, TypeOK
<1>7. ReadingsHold'
  BY <1>1, <1>2, <1>5, <1>6 DEF ReadingsHold, ToPlan, ReadFor, PlanInv, FrequencyEligible
<1> QED BY <1>4, <1>7

LEMMA PlanClaim ==
    ASSUME TypeOK, ClaimsAreSpaced, PlanInv, planned, planned', NEW r \in Requests, Claim(r)
    PROVE  SlotIsHighest' /\ ClaimsClimb' /\ ReadingsHold'
<1> DEFINE new == request[r]
<1>1. ToPlan(r) /\ request[r].step = "claim"
  BY DEF Claim, ToPlan
<1>2. /\ invoice'.level = new.level /\ invoice'.last = new.sentAt
      /\ chases' = chases /\ ~Inserting(r) /\ Inserting(r)'
      /\ request'[r].sentAt = new.sentAt /\ request'[r].level = new.level
      /\ request'[r].kind = new.kind
  BY DEF Claim, Inserting, TypeOK, Invoice, Local
<1>3. \A q \in Requests \ {r} :
         /\ Inserting(q)' <=> Inserting(q)
         /\ ~ToPlan(q)'
         /\ request'[q].sentAt = request[q].sentAt /\ request'[q].level = request[q].level
         /\ request'[q].kind = request[q].kind
  BY DEF Claim, Inserting, ToPlan, TypeOK, Local
<1>4. invoice.level < new.level
  BY <1>1 DEF PlanInv, ReadingsHold
<1>5. new.kind = "bulk" => invoice.last = Never \/ Day(new.sentAt) - Day(invoice.last) >= Frequency
  BY <1>1 DEF PlanInv, ReadingsHold, ReadFor
<1>6. new.sentAt \in Nat /\ new.level \in Int /\ invoice.level \in Int
      /\ (invoice.last = Never \/ invoice.last \in Nat)
  BY DEF TypeOK, Local, Invoice, Time, Levels
\* A claim made before is below and before the new one.
<1>7. ASSUME NEW level \in Int, level <= invoice.level,
             NEW sentAt \in Nat, sentAt <= invoice.last
      PROVE  /\ level < new.level /\ sentAt < new.sentAt
             /\ new.kind = "bulk" => Day(new.sentAt) - Day(sentAt) >= Frequency
  <2>1. invoice.last \in Nat /\ sentAt < new.sentAt
    BY <1>6, <1>7 DEF Claim, SlotFree, Never
  <2>2. Day(sentAt) <= Day(invoice.last) /\ Day(sentAt) \in Int /\ Day(invoice.last) \in Int
    BY <2>1, <1>7, DayMonotone
  <2>3. Day(new.sentAt) \in Int
    BY <1>6, DayMonotone
  <2> QED BY <1>4, <1>5, <1>6, <1>7, <2>1, <2>2, <2>3 DEF Never
<1>8. \A c \in chases : Climbs(c, request'[r]) /\ Climbs(request'[r], c)
  <2>1. \A c \in chases : /\ c.level \in Int /\ c.level <= invoice.level
                          /\ c.sentAt \in Nat /\ c.sentAt <= invoice.last
    BY DEF TypeOK, Chase, Levels, Time, PlanInv, SlotIsHighest, ClaimsAreSpaced
  <2> QED BY <1>2, <1>6, <1>7, <2>1 DEF Climbs
<1>9. \A q \in Requests : Inserting(q) =>
         Climbs(request'[q], request'[r]) /\ Climbs(request'[r], request'[q])
  <2>1. \A q \in Requests : Inserting(q) =>
           /\ request[q].level \in Int /\ request[q].level <= invoice.level
           /\ request[q].sentAt \in Nat /\ request[q].sentAt <= invoice.last
    BY DEF TypeOK, Local, Levels, Time, PlanInv, SlotIsHighest, ClaimsAreSpaced
  <2> QED BY <1>2, <1>3, <1>6, <1>7, <2>1 DEF Climbs
<1>10. SlotIsHighest'
  <2>1. \A c \in chases : c.level \in Int /\ c.level <= invoice.level
    BY DEF TypeOK, Chase, Levels, PlanInv, SlotIsHighest
  <2>2. \A q \in Requests : Inserting(q) => request[q].level \in Int /\ request[q].level <= invoice.level
    BY DEF TypeOK, Local, Levels, PlanInv, SlotIsHighest
  <2> QED BY <1>2, <1>3, <1>4, <1>6, <2>1, <2>2 DEF SlotIsHighest
<1>11. \A c, d \in chases' : Climbs(c, d)
  BY <1>2 DEF PlanInv, ClaimsClimb
<1>12. \A q \in Requests, c \in chases' :
          Inserting(q)' => Climbs(request'[q], c) /\ Climbs(c, request'[q])
  BY <1>2, <1>3, <1>8 DEF PlanInv, ClaimsClimb, Climbs
<1>13. \A p, q \in Requests : Inserting(p)' /\ Inserting(q)' => Climbs(request'[p], request'[q])
  <2>1. Climbs(request'[r], request'[r])
    BY <1>2, <1>6 DEF Climbs
  <2>2. \A p, q \in Requests \ {r} :
           Inserting(p)' /\ Inserting(q)' => Climbs(request'[p], request'[q])
    BY <1>3 DEF PlanInv, ClaimsClimb, Climbs
  <2> QED BY <1>3, <1>9, <2>1, <2>2
<1>14. ClaimsClimb'
  BY <1>11, <1>12, <1>13 DEF ClaimsClimb, Climbs
<1>15. ReadingsHold'
  BY <1>2, <1>3 DEF ReadingsHold, ToPlan, Inserting
<1> QED BY <1>10, <1>14, <1>15

LEMMA PlanInsert ==
    ASSUME TypeOK, PlanInv, planned, NEW r \in Requests, Insert(r)
    PROVE  SlotIsHighest' /\ ClaimsClimb' /\ ReadingsHold'
<1> DEFINE new == NewChase(r, request[r].sentAt)
<1>1. /\ new.sentAt = request[r].sentAt /\ new.level = request[r].level
      /\ new.kind = request[r].kind
  BY DEF NewChase
<1>2. chases' = chases \cup {new} /\ invoice' = invoice /\ now' = now /\ Inserting(r)
  BY DEF Insert, Inserting
<1> HIDE DEF new
<1>3. \A q \in Requests : Inserting(q)' => q # r /\ Inserting(q) /\ request'[q] = request[q]
  BY RestingType DEF Insert, Inserting, TypeOK
<1>4. \A q \in Requests : ToPlan(q)' => ToPlan(q) /\ request'[q] = request[q]
  BY RestingType DEF Insert, ToPlan, TypeOK
<1>5. SlotIsHighest'
  BY <1>1, <1>2, <1>3 DEF PlanInv, SlotIsHighest
<1>6. \A c \in chases : Climbs(c, new) /\ Climbs(new, c)
  BY <1>1, <1>2 DEF PlanInv, ClaimsClimb, Climbs
<1>7. \A q \in Requests : Inserting(q)' => Climbs(request'[q], new) /\ Climbs(new, request'[q])
  BY <1>1, <1>2, <1>3 DEF PlanInv, ClaimsClimb, Climbs
<1>8. Climbs(new, new)
  BY <1>1 DEF TypeOK, Local, Time, Climbs
<1>9. \A c, d \in chases' : Climbs(c, d)
  BY <1>2, <1>6, <1>8 DEF PlanInv, ClaimsClimb
<1>10. \A q \in Requests, c \in chases' :
          Inserting(q)' => Climbs(request'[q], c) /\ Climbs(c, request'[q])
  BY <1>2, <1>3, <1>7 DEF PlanInv, ClaimsClimb
<1>11. \A p, q \in Requests : Inserting(p)' /\ Inserting(q)' => Climbs(request'[p], request'[q])
  BY <1>3 DEF PlanInv, ClaimsClimb
<1>12. ReadingsHold'
  BY <1>2, <1>4 DEF PlanInv, ReadingsHold, ReadFor
<1> QED BY <1>5, <1>9, <1>10, <1>11, <1>12 DEF ClaimsClimb, Climbs

LEMMA PlanOther ==
    ASSUME TypeOK, TypeOK', PlanInv, planned,
           \/ \E r \in Requests : Stamp(r) \/ SlotTaken(r) \/ GiveUp(r)
           \/ Pay \/ WriterStep \/ Elapse
           \/ \E value \in BOOLEAN : SetDoNotChase(value)
           \/ UNCHANGED vars
    PROVE  SlotIsHighest' /\ ClaimsClimb' /\ ReadingsHold'
<1>1. invoice'.level = invoice.level /\ invoice'.last = invoice.last
  BY WriterMoves DEF Stamp, SlotTaken, GiveUp, Pay, Elapse, SetDoNotChase, vars, TypeOK, Invoice
<1>2. \A d \in chases' : \E c \in chases :
         d.sentAt = c.sentAt /\ d.level = c.level /\ d.kind = c.kind
  <2>1. CASE Pay
    BY <2>1 DEF Pay, TypeOK, Chase
  <2>2. CASE ~Pay
    <3>1. chases' = chases
      BY <2>2, WriterMoves DEF Stamp, SlotTaken, GiveUp, Elapse, SetDoNotChase, vars
    <3> QED BY <3>1
  <2> QED BY <2>1, <2>2
\* A send is stamped, or comes to rest, or none is touched.
<1>10. \/ request' = request /\ now <= now'
       \/ \E r \in Requests : Stamp(r)
       \/ \E r \in Requests : request' = [request EXCEPT ![r] = Resting] /\ now' = now
  <2>1. CASE \E r \in Requests : SlotTaken(r) \/ GiveUp(r)
    BY <2>1 DEF SlotTaken, GiveUp
  <2>2. CASE Elapse
    BY <2>2 DEF Elapse, TypeOK, Time
  <2>3. CASE Pay \/ WriterStep \/ (\E value \in BOOLEAN : SetDoNotChase(value)) \/ UNCHANGED vars
    <3>1. now' = now /\ request' = request
      BY <2>3, WriterMoves DEF Pay, SetDoNotChase, vars
    <3>2. now \in Int
      BY DEF TypeOK, Time
    <3> QED BY <3>1, <3>2
  <2> QED BY <2>1, <2>2, <2>3
<1>3. \A q \in Requests : Inserting(q)' => Inserting(q) /\ request'[q] = request[q]
  <2>1. CASE \E r \in Requests : Stamp(r)
    BY <2>1 DEF Stamp, Inserting, TypeOK
  <2>2. CASE \E r \in Requests : request' = [request EXCEPT ![r] = Resting]
    BY <2>2, RestingType DEF Inserting, TypeOK
  <2> QED BY <1>10, <2>1, <2>2 DEF Inserting
<1>4. SlotIsHighest' /\ ClaimsClimb'
  BY <1>1, <1>2, <1>3, ClaimsKept DEF PlanInv
\* What a send has read stays as good as it was, as time goes on.
<1>5. \A q \in Requests : ToPlan(q)' =>
         /\ ToPlan(q) /\ request'[q].level = request[q].level
         /\ request'[q].kind = request[q].kind
         /\ ReadFor(q) <= ReadFor(q)'
  <2>1. ASSUME NEW r \in Requests, Stamp(r), NEW q \in Requests, ToPlan(q)'
        PROVE  /\ ToPlan(q) /\ request'[q].level = request[q].level
               /\ request'[q].kind = request[q].kind
               /\ ReadFor(q) <= ReadFor(q)'
    <3>1. CASE q = r
      BY <2>1, <3>1 DEF Stamp, ToPlan, ReadFor, TypeOK, Local, Time
    <3>2. CASE q # r
      BY <2>1, <3>2 DEF Stamp, ToPlan, ReadFor, TypeOK, Local, Time
    <3> QED BY <3>1, <3>2
  <2>2. ASSUME NEW r \in Requests, request' = [request EXCEPT ![r] = Resting], now' = now,
               NEW q \in Requests, ToPlan(q)'
        PROVE  ToPlan(q) /\ request'[q] = request[q] /\ ReadFor(q) <= ReadFor(q)'
    <3>1. q # r /\ request'[q] = request[q]
      BY <2>2, RestingType DEF ToPlan, TypeOK
    <3> QED BY <2>2, <3>1 DEF ToPlan, ReadFor, TypeOK, Local, Time
  <2>3. CASE request' = request /\ now <= now'
    BY <2>3 DEF ToPlan, ReadFor, TypeOK, Local, Time
  <2> QED BY <1>10, <2>1, <2>2, <2>3
<1>7. \A q \in Requests : ReadFor(q) \in Nat /\ ReadFor(q)' \in Nat
  BY DEF ReadFor, TypeOK, Local, Time
<1>8. ASSUME NEW q \in Requests, ToPlan(q)'
      PROVE  /\ invoice'.level < request'[q].level
             /\ request'[q].kind = "bulk" =>
                  invoice'.last = Never \/ Day(ReadFor(q)') - Day(invoice'.last) >= Frequency
  <2>1. /\ invoice.level < request[q].level
        /\ request[q].kind = "bulk" =>
              invoice.last = Never \/ Day(ReadFor(q)) - Day(invoice.last) >= Frequency
    BY <1>5, <1>8 DEF PlanInv, ReadingsHold
  <2>2. Day(ReadFor(q)) <= Day(ReadFor(q)') /\ Day(ReadFor(q)) \in Int /\ Day(ReadFor(q)') \in Int
    BY <1>5, <1>7, <1>8, DayMonotone
  <2>3. invoice.last # Never => Day(invoice.last) \in Int
    BY DayMonotone DEF TypeOK, Invoice, Time
  <2> QED BY <1>1, <1>5, <1>8, <2>1, <2>2, <2>3
<1>9. ReadingsHold'
  BY <1>8 DEF ReadingsHold, ReadFor
<1> QED BY <1>4, <1>9

LEMMA PlanStep == TypeOK /\ ClaimsAreSpaced /\ PlanInv /\ [Next]_vars => PlanInv'
<1> SUFFICES ASSUME TypeOK, ClaimsAreSpaced, PlanInv, [Next]_vars, planned'
             PROVE  SlotIsHighest' /\ ClaimsClimb' /\ ReadingsHold'
  BY DEF PlanInv
<1>1. planned
  BY WriterMoves DEF Next, SendStep, Send, BulkSend, Begin, Stamp, Claim, SlotTaken, Insert,
         GiveUp, Pay, WriterStep, Elapse, SetDoNotChase, vars
<1>2. TypeOK'
  BY TypeStep
<1>3. CASE \E r \in Requests : Send(r) \/ BulkSend(r)
  BY <1>1, <1>3, PlanBegin
<1>4. CASE \E r \in Requests : Claim(r)
  BY <1>1, <1>4, PlanClaim
<1>5. CASE \E r \in Requests : Insert(r)
  BY <1>1, <1>5, PlanInsert
<1>6. CASE \/ \E r \in Requests : Stamp(r) \/ SlotTaken(r) \/ GiveUp(r)
           \/ Pay \/ WriterStep \/ Elapse
           \/ \E value \in BOOLEAN : SetDoNotChase(value)
           \/ UNCHANGED vars
  BY <1>1, <1>2, <1>6, PlanOther
<1> QED BY <1>3, <1>4, <1>5, <1>6 DEF Next, SendStep, WriterStep

\* As long as no send overtakes another and nobody asks for a level, every chase is
\* of a higher level than those before it, and a bulk send keeps its days from them.
THEOREM PlannedClimb == Spec => []PlannedChasesClimb
<1>1. Init => ClaimsAreSpaced /\ PlanInv
  BY RestingType DEF Init, ClaimsAreSpaced, ChasesSpaced, Inserting, PlanInv, SlotIsHighest,
       ClaimsClimb, ReadingsHold, ToPlan
<1>2. PlanInv => PlannedChasesClimb
  BY DEF PlanInv, ClaimsClimb, Climbs, PlannedChasesClimb
<1> QED BY <1>1, <1>2, InitType, TypeStep, SpacedStep, PlanStep, PTL DEF Spec
=============================================================================
