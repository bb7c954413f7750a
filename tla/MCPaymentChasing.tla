---------------------------- MODULE MCPaymentChasing ----------------------------
(* Small instances of PaymentChasing. *)
EXTENDS PaymentChasing, FiniteSets, TLC

\* The levels begin on the days 1, 2, 3 and 4.
DailyLevels == [k \in Levels |-> k]

RequestSymmetry == Permutations(Requests)

\* BOUND: an invoice that is paid or void is followed as long as a send is under way, or
\* a writer that may open it again; a writer, beside one send at most; do_not_chase,
\* which only keeps sends from beginning, until the sends under way are done.
SomethingToShow ==
    LET Busy == {r \in Requests : request[r].step # "idle"}
        Writing == {w \in Writers : target[w] # NoStatus}
    IN  /\ \/ invoice.status \notin Terminal \/ Busy # {}
           \/ \E w \in Writing : target[w] = "sent"
        /\ Writing # {} => Cardinality(Busy) <= 1
        /\ doNotChase => Busy # {} /\ Writing = {}
=============================================================================
