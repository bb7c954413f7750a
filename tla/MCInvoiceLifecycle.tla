------------------------- MODULE MCInvoiceLifecycle -------------------------
(* Small instances of InvoiceLifecycle. *)
EXTENDS InvoiceLifecycle, TLC

RequestSymmetry == Permutations(Requests)
=============================================================================
