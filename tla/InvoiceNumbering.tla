-------------------------- MODULE InvoiceNumbering --------------------------
(***************************************************************************)
(* The FTA document sequence of services/invoice-numbering.service.ts and  *)
(* the handlers that draw numbers from it.                                 *)
(*                                                                         *)
(* A row of invoice_number_sequences is locked by the transaction that     *)
(* increments it until that transaction ends, so a creator that allocates  *)
(* INSIDE its inserting transaction holds the series until it commits or   *)
(* rolls back.  The quote conversion passes the global db handle instead:  *)
(* its increment commits at once and the insert is a later statement.      *)
(* PUT writes any number of the body on an invoice, and asks no allocator. *)
(***************************************************************************)
EXTENDS Naturals, FiniteSets

CONSTANTS
    Series,      \* the (company, document type, year) sequences
    TxCreators,  \* handlers creating invoices or credit notes in one transaction
    Converters,  \* handlers converting a quote to an invoice
    Quotes,      \* the quotes of the company
    Nobody,      \* the row lock's value when no transaction holds it
    MaxNumber    \* BOUND: the highest number any series reaches

ASSUME NumberingAssumption ==
    /\ MaxNumber \in Nat
    /\ Series # {} /\ Quotes # {}
    /\ TxCreators \cap Converters = {}
    /\ Nobody \notin TxCreators \cup Converters

VARIABLES
    lastValue,   \* committed last_value of each series (0: no row yet)
    rowLock,     \* the transaction holding the row of each series, or Nobody
    documents,   \* <<series, number>> of the documents in the database
    outside,     \* how many documents have a number that is of no series
    converted,   \* the quotes whose status is "converted"
    handler      \* the control state of every handler

\* History, read by no action: <<series, number>> ...
VARIABLES
    issued,      \* ... that a document was inserted with
    deleted,     \* ... of documents deleted after retention
    renumbered,  \* ... that a PUT took off an invoice
    written,     \* ... that a PUT put on one
    abandoned    \* ... committed by an allocation whose insert never came

history == <<issued, deleted, renumbered, written, abandoned>>

numberingVars == <<lastValue, rowLock, documents, outside, converted, handler, history>>

Handlers == TxCreators \cup Converters

Numbered == Series \X (1..MaxNumber)

\* A handler's control state and local variables.
HandlerState ==
    [pc : {"idle", "allocate", "insert", "mark"},
     series : Series, number : 0..MaxNumber, quote : Quotes]

\* A handler between two requests; its locals hold nothing of the last one.
HandlerRests == [pc |-> "idle", series |-> CHOOSE s \in Series : TRUE, number |-> 0,
                 quote |-> CHOOSE q \in Quotes : TRUE]

Finish(h) == handler' = [handler EXCEPT ![h] = HandlerRests]

NumberingInit ==
    /\ lastValue = [s \in Series |-> 0]
    /\ rowLock = [s \in Series |-> Nobody]
    /\ documents = {}
    /\ outside = 0
    /\ converted = {}
    /\ handler = [h \in Handlers |-> HandlerRests]
    /\ issued = {} /\ deleted = {} /\ renumbered = {} /\ written = {} /\ abandoned = {}

-----------------------------------------------------------------------------
(* Creation in one transaction: POST invoices and POST credit-note.         *)

\* allocateInvoiceNumber(.., tx): the upsert waits for the row, then sees the
\* committed value.
TxAllocate(h, s) ==
    /\ handler[h].pc = "idle"
    /\ rowLock[s] = Nobody
    /\ lastValue[s] < MaxNumber
    /\ rowLock' = [rowLock EXCEPT ![s] = h]
    /\ handler' = [handler EXCEPT ![h].pc = "insert", ![h].series = s,
                                  ![h].number = lastValue[s] + 1]
    /\ UNCHANGED <<lastValue, documents, outside, converted, history>>

\* The document and its lines are inserted and the transaction commits.  Numbers are
\* unique in a company: one that a PUT has put on an invoice before refuses the insert.
TxCommit(h) ==
    LET s == handler[h].series  n == handler[h].number IN
    /\ handler[h].pc = "insert"
    /\ <<s, n>> \notin documents
    /\ lastValue' = [lastValue EXCEPT ![s] = n]
    /\ documents' = documents \cup {<<s, n>>}
    /\ issued' = issued \cup {<<s, n>>}
    /\ rowLock' = [rowLock EXCEPT ![s] = Nobody]
    /\ Finish(h)
    /\ UNCHANGED <<outside, converted, deleted, renumbered, written, abandoned>>

\* Mutant: the allocation ran on the global handle, so a failed insert keeps it.
TxRollback_burns(h) ==
    /\ handler[h].pc = "insert"
    /\ lastValue' = [lastValue EXCEPT ![handler[h].series] = handler[h].number]
    /\ rowLock' = [rowLock EXCEPT ![handler[h].series] = Nobody]
    /\ Finish(h)
    /\ UNCHANGED <<documents, outside, converted, history>>

\* An insert is refused, the connection drops or the process dies: the
\* increment is rolled back with everything else.
TxRollback(h) ==
    /\ handler[h].pc = "insert"
    /\ rowLock' = [rowLock EXCEPT ![handler[h].series] = Nobody]
    /\ Finish(h)
    /\ UNCHANGED <<lastValue, documents, outside, converted, history>>

-----------------------------------------------------------------------------
(* POST /api/quotes/:id/convert-to-invoice: every statement commits alone. *)

ConvertRead(h, q) ==
    /\ handler[h].pc = "idle"
    /\ q \notin converted
    /\ handler' = [handler EXCEPT ![h].pc = "allocate", ![h].quote = q]
    /\ UNCHANGED <<lastValue, rowLock, documents, outside, converted, history>>

\* Mutant: SELECT MAX(..) over the documents, then insert.
ConvertAllocate_fromDocuments(h, s) ==
    LET used == {n \in 1..MaxNumber : <<s, n>> \in documents} IN
    /\ handler[h].pc = "allocate"
    /\ \E n \in (1..MaxNumber) \ used :
          /\ \A m \in 1..(n - 1) : m \in used
          /\ lastValue' = [lastValue EXCEPT ![s] = IF n > @ THEN n ELSE @]
          /\ handler' = [handler EXCEPT ![h].pc = "insert", ![h].series = s, ![h].number = n]
    /\ UNCHANGED <<rowLock, documents, outside, converted, history>>

ConvertAllocate(h, s) ==
    /\ handler[h].pc = "allocate"
    /\ rowLock[s] = Nobody
    /\ lastValue[s] < MaxNumber
    /\ lastValue' = [lastValue EXCEPT ![s] = @ + 1]
    /\ handler' = [handler EXCEPT ![h].pc = "insert", ![h].series = s,
                                  ![h].number = lastValue[s] + 1]
    /\ UNCHANGED <<rowLock, documents, outside, converted, history>>

ConvertInsert(h) ==
    LET doc == <<handler[h].series, handler[h].number>> IN
    /\ handler[h].pc = "insert"
    /\ doc \notin documents
    /\ documents' = documents \cup {doc}
    /\ issued' = issued \cup {doc}
    /\ handler' = [handler EXCEPT ![h].pc = "mark"]
    /\ UNCHANGED <<lastValue, rowLock, outside, converted, deleted, renumbered, written, abandoned>>

ConvertMark(h) ==
    /\ handler[h].pc = "mark"
    /\ converted' = converted \cup {handler[h].quote}
    /\ Finish(h)
    /\ UNCHANGED <<lastValue, rowLock, documents, outside, history>>

\* Any statement of the conversion fails, or the process dies between two of
\* them: what was committed stays.
ConvertFail(h) ==
    /\ handler[h].pc # "idle"
    /\ abandoned' = IF handler[h].pc = "insert"
                    THEN abandoned \cup {<<handler[h].series, handler[h].number>>}
                    ELSE abandoned
    /\ Finish(h)
    /\ UNCHANGED <<lastValue, rowLock, documents, outside, converted, issued, deleted, renumbered,
                   written>>

\* safeDeleteInvoice, once the five-year retention has expired.
DeleteDocument(doc) ==
    /\ doc \in documents
    /\ documents' = documents \ {doc}
    /\ deleted' = deleted \cup {doc}
    /\ UNCHANGED <<lastValue, rowLock, outside, converted, handler, issued, renumbered, written,
                   abandoned>>

DeleteOutside ==
    /\ outside > 0
    /\ outside' = outside - 1
    /\ UNCHANGED <<lastValue, rowLock, documents, converted, handler, history>>

-----------------------------------------------------------------------------
(* PUT /api/invoices/:id: updateInvoice writes the number of the body, unless *)
(* another document has it.                                                   *)

\* From one number of a series to another.
Renumber(doc, new) ==
    /\ doc \in documents /\ new \in Numbered \ documents
    /\ documents' = (documents \ {doc}) \cup {new}
    /\ renumbered' = renumbered \cup {doc}
    /\ written' = written \cup {new}
    /\ UNCHANGED <<lastValue, rowLock, outside, converted, handler, issued, deleted, abandoned>>

\* To a number that is of no series, and back.
RenumberOut(doc) ==
    /\ doc \in documents
    /\ documents' = documents \ {doc}
    /\ outside' = outside + 1
    /\ renumbered' = renumbered \cup {doc}
    /\ UNCHANGED <<lastValue, rowLock, converted, handler, issued, deleted, written, abandoned>>

RenumberIn(new) ==
    /\ outside > 0 /\ new \in Numbered \ documents
    /\ documents' = documents \cup {new}
    /\ outside' = outside - 1
    /\ written' = written \cup {new}
    /\ UNCHANGED <<lastValue, rowLock, converted, handler, issued, deleted, renumbered, abandoned>>

-----------------------------------------------------------------------------
TxStep(h) == (\E s \in Series : TxAllocate(h, s)) \/ TxCommit(h) \/ TxRollback(h)

ConvertStep(h) ==
    \/ \E q \in Quotes : ConvertRead(h, q)
    \/ \E s \in Series : ConvertAllocate(h, s)
    \/ ConvertInsert(h) \/ ConvertMark(h) \/ ConvertFail(h)

NumberingNext ==
    \/ \E h \in TxCreators : TxStep(h)
    \/ \E h \in Converters : ConvertStep(h)
    \/ \E doc \in documents : DeleteDocument(doc) \/ RenumberOut(doc)
    \/ \E doc \in documents, new \in Numbered : Renumber(doc, new)
    \/ \E new \in Numbered : RenumberIn(new)
    \/ DeleteOutside

NumberingSpec == NumberingInit /\ [][NumberingNext]_numberingVars

-----------------------------------------------------------------------------
NumberingTypeOK ==
    /\ lastValue \in [Series -> 0..MaxNumber]
    /\ rowLock \in [Series -> TxCreators \cup {Nobody}]
    /\ documents \subseteq Numbered
    /\ outside \in Nat
    /\ converted \subseteq Quotes
    /\ handler \in [Handlers -> HandlerState]
    /\ issued \subseteq Numbered /\ deleted \subseteq Numbered /\ abandoned \subseteq Numbered
    /\ renumbered \subseteq Numbered /\ written \subseteq Numbered

\* The numbers a handler has been given and not yet used.
Holds(h, s, n) == handler[h].pc = "insert" /\ handler[h].series = s /\ handler[h].number = n

\* The allocator never gives out a number twice: a number in the hands of one
\* handler is in nobody else's, and no document was ever created with it (deleting
\* or renumbering an invoice does not free its number).  What a PUT writes on an
\* invoice is no number of the allocator.
NoDoubleAllocation ==
    \A h \in Handlers : \A s \in Series, n \in 1..MaxNumber : Holds(h, s, n) =>
        /\ <<s, n>> \notin issued \cup abandoned
        /\ \A g \in Handlers \ {h} : ~Holds(g, s, n)

\* FTA Article 78 as invoices.routes.ts states it, as long as no PUT has touched a
\* number: at every moment the numbers a series has given out are 1, 2, ..
\* last_value with none missing, whatever creators commit, roll back or die.
Gapless ==
    renumbered \cup written = {} =>
        \A s \in Series :
            {n \in 1..MaxNumber : <<s, n>> \in documents \cup deleted} = 1..lastValue[s]

\* A number up to last_value that no document has is missing for one of three
\* reasons: its document was deleted, a PUT renumbered it, or a quote conversion
\* allocated the number and has not inserted, or never will insert, the invoice.
\* And only a PUT puts a number on a document that the series has not reached.
GapsAreExplained ==
    \A s \in Series, n \in 1..MaxNumber :
        /\ n <= lastValue[s] =>
              \/ <<s, n>> \in documents \cup deleted \cup renumbered \cup abandoned
              \/ \E h \in Converters : Holds(h, s, n)
        /\ n > lastValue[s] => <<s, n>> \notin (documents \cup deleted \cup abandoned) \ written

\* An open transaction is the only one on its series: the row it locked still
\* holds the value it read.
LockProtectsSeries ==
    /\ \A h \in TxCreators : handler[h].pc = "insert" =>
          /\ rowLock[handler[h].series] = h
          /\ handler[h].number = lastValue[handler[h].series] + 1
    /\ \A s \in Series : rowLock[s] # Nobody =>
          handler[rowLock[s]].pc = "insert" /\ handler[rowLock[s]].series = s
=============================================================================
