------------------------ MODULE InvoiceStateMachine ------------------------
(* services/invoice-state-machine.ts: the pure rules every handler that      *)
(* changes an invoice's status consults.  Amounts are whole fils, so the     *)
(* half-fils tolerance of the code is an exact comparison here.              *)
EXTENDS Integers

Statuses == {"draft", "sent", "posted", "partial", "paid", "void", "cancelled"}

Transitions ==
    [draft     |-> {"sent", "posted", "void", "cancelled"},
     sent      |-> {"paid", "partial", "void"},
     posted    |-> {"paid", "partial", "void"},
     partial   |-> {"paid", "void"},
     paid      |-> {"void"},
     void      |-> {},
     cancelled |-> {}]

CanTransition(from, to) == from = to \/ to \in Transitions[from]

IsTerminal(status) == status \in {"void", "cancelled", "paid"}

StatusFromPayments(status, total, paid) ==
    IF IsTerminal(status) THEN status
    ELSE IF paid >= total THEN "paid"
    ELSE IF paid > 0 THEN "partial"
    ELSE IF status = "partial" THEN "sent" ELSE status
=============================================================================
