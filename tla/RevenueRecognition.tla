------------------------- MODULE RevenueRecognition -------------------------
(***************************************************************************)
(* What the ledger promises about the revenue of a sales invoice, whatever *)
(* the handlers do in between: it is recognised at most once, for one      *)
(* amount that never changes afterwards, and taken back at most once, in   *)
(* full (services/invoice-posting.service.ts and the void branch of        *)
(* routes/invoices.routes.ts).                                             *)
(***************************************************************************)
EXTENDS Integers

CONSTANT Invoices

VARIABLES
    phase,   \* how far each invoice has come
    amount   \* the revenue the ledger shows for it

Init ==
    /\ phase = [i \in Invoices |-> "unrecognised"]
    /\ amount = [i \in Invoices |-> 0]

Recognise(i) ==
    /\ phase[i] = "unrecognised"
    /\ phase' = [phase EXCEPT ![i] = "recognised"]
    /\ amount'[i] > 0
    /\ amount' = [amount EXCEPT ![i] = amount'[i]]

Reverse(i) ==
    /\ phase[i] = "recognised"
    /\ phase' = [phase EXCEPT ![i] = "reversed"]
    /\ amount' = [amount EXCEPT ![i] = 0]

Next == \E i \in Invoices : Recognise(i) \/ Reverse(i)

Spec == Init /\ [][Next]_<<phase, amount>>
=============================================================================
