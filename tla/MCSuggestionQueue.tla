---------------------------- MODULE MCSuggestionQueue ----------------------------
(* Small instances of SuggestionQueue. *)
EXTENDS SuggestionQueue, TLC

QueueSymmetry ==
    Permutations(Items) \cup Permutations(Entries) \cup Permutations(Scans)
    \cup Permutations(Requests) \cup Permutations(Lines)

\* A line that was crossed or torn and handled by hand has nothing left to show.
SomethingToShow == \A l \in Lines : past[l] = "clean" \/ l \notin byHand
=============================================================================
