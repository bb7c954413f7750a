-------------------------- MODULE MCRecurringInvoices --------------------------
(* Small instances of RecurringInvoices. *)
EXTENDS RecurringInvoices, TLC
=============================================================================
