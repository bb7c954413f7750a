-------------------------- MODULE MCJournalEntries --------------------------
(* A small instance of JournalEntries. *)
EXTENDS JournalEntries, TLC

\* Off by the tolerated fils, and off by two.
NearBalance ==
    {[split |-> 1, each |-> 20, credit |-> 10], [split |-> 1, each |-> 30, credit |-> 10]}

RequestSymmetry == Permutations(Requests)
=============================================================================
