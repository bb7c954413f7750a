-------------------------- MODULE MCInvoiceNumbering --------------------------
(* A small instance of InvoiceNumbering: two transactional creators and two *)
(* quote conversions on one series.                                         *)
EXTENDS InvoiceNumbering, TLC

HandlerSymmetry == Permutations(TxCreators) \cup Permutations(Converters)
=============================================================================
