----------------------------- MODULE MCMonthEndClose -----------------------------
(* Small instances of MonthEndClose. *)
EXTENDS MonthEndClose, FiniteSets, TLC

\* A day of one month; a day, the last day and its noon of the next.
MCDates == 1..4

MCDayOf == [d \in MCDates |-> IF d = 4 THEN 3 ELSE d]

MCMonthOf == [d \in MCDates |-> IF d = 1 THEN "jan" ELSE "feb"]

AtMost(n, Test(_)) == Cardinality({e \in JournalIds : Test(e)}) <= n

\* BOUND: one draft, one cost, one reversal or posing entry at a time and two of
\* these in all (a posing one is a posted sale); one entry of the first month, which
\* is not closed; two closings at once only while there is no more than one entry;
\* once two of a date have crossed, no more than two; and a row is left for what a
\* closing in progress will post.
FewEntries ==
    LET Draft(e) == journal[e].state = "draft"
        Spent(e) == journal[e].kind = "user" /\ journal[e].lines = Cost
        Other(e) == journal[e].kind \in {"reversal", "posing"}
    IN  /\ AtMost(1, LAMBDA e : Live(e) /\ journal[e].date = 1)
        /\ \A c \in Closings : closing[c].step # "idle" => closing[c].end # 1
        /\ \A e \in JournalIds : journal[e].kind = "posing" => ~Draft(e) /\ journal[e].lines = Sale
        /\ AtMost(1, Draft) /\ AtMost(1, Spent) /\ AtMost(1, Other)
        /\ AtMost(2, LAMBDA e : Draft(e) \/ Spent(e) \/ Other(e))
        /\ \/ \A c, d \in Closings : closing[c].step # "idle" /\ closing[d].step # "idle" => c = d
           \/ AtMost(1, Live)
        /\ crossed = {} \/ AtMost(2, Live)
        /\ (\E c \in Closings : closing[c].step # "idle") => AtMost(3, Live)

CloseSymmetry == Permutations(JournalIds) \cup Permutations(Closings)
=============================================================================
