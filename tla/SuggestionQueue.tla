---------------------------- MODULE SuggestionQueue ----------------------------
(***************************************************************************)
(* Bank lines and the AI that books them: the scan that queues a           *)
(* suggestion for each unreconciled line and drafts entries for the sure   *)
(* ones, the reviews that accept, correct or reject a suggestion           *)
(* (services/autonomous-gl.service.ts), and the routes that book, match    *)
(* and unmatch a line by hand (routes/bank-statements.routes.ts).          *)
(*                                                                         *)
(* Nothing here runs in a transaction but the insert of one entry: scans,  *)
(* reviews and routes read a row once and write entry, suggestion and line *)
(* by id with later calls.  Each action is one call with the code up to    *)
(* the next.  A locked month is one more reason to give up; the locks are  *)
(* JournalEntries'.                                                        *)
(***************************************************************************)
EXTENDS Naturals, FiniteSets

CONSTANTS
    Lines,     \* bank_transactions ids
    Items,     \* ai_gl_queue ids
    Entries,   \* journal entry ids
    None,      \* no entry
    Scans,     \* scans that may be in progress at the same time
    Requests   \* reviews, manual bookings and rewritings that may be in progress

ASSUME QueueAssumption ==
    /\ Lines # {} /\ Items # {} /\ Entries # {} /\ None \notin Entries
    /\ Scans \cap Requests = {}

VARIABLES
    line,      \* bank_transactions
    item,      \* ai_gl_queue
    entry,     \* the journal entries that book the lines
    scan,      \* the local state of every scan
    request    \* the local state of every review, manual booking and rewriting

\* No variables of the code, and read by no action.
VARIABLES
    past,      \* of each line: whether two processes were ever on it at the same
               \* time ("crossed"), or else one died between two writes ("torn")
    byHand     \* the lines booked, matched or unmatched, or whose draft was posted or
               \* rewritten, by another route than a review

stored == <<line, item, entry>>

vars == <<line, item, entry, scan, request, past, byHand>>

-----------------------------------------------------------------------------
AnyLine == CHOOSE l \in Lines : TRUE

AnyItem == CHOOSE i \in Items : TRUE

LineRow == [state : {"open", "reconciled"}, booked : Entries \cup {None}]

\* advice: no account, an account, or one with a confidence of 0.85 and more.
ItemRow ==
    [state : {"absent", "pending_review", "auto_posted", "accepted", "corrected", "rejected"},
     line : Lines, advice : {"none", "some", "sure"}, entry : Entries \cup {None}]

\* account: "rewritten" once a PUT has replaced the entry's lines by those of its body.
EntryRow == [state : {"absent", "draft", "posted"}, line : Lines,
             account : {"suggested", "chosen", "rewritten"}]

NoItem == [state |-> "absent", line |-> AnyLine, advice |-> "none", entry |-> None]

NoEntry == [state |-> "absent", line |-> AnyLine, account |-> "suggested"]

\* lines and items: what is still before this scan; entry: the draft it has just
\* made, of item.
ScanState == [step : {"idle", "classify", "draft", "mark"}, lines : SUBSET Lines,
              items : SUBSET Items, item : Items, entry : Entries \cup {None}]

RequestState ==
    [step : {"idle", "insert", "post", "setItem", "setLine", "rewrite"}, line : Lines, item : Items,
     verdict : {"accepted", "corrected", "rejected", "manual"}, entry : Entries \cup {None}]

ScanRests == [step |-> "idle", lines |-> {}, items |-> {},
              item |-> AnyItem, entry |-> None]

Resting == [step |-> "idle", line |-> AnyLine, item |-> AnyItem, verdict |-> "manual", entry |-> None]

Init ==
    /\ line = [l \in Lines |-> [state |-> "open", booked |-> None]]
    /\ item = [i \in Items |-> NoItem]
    /\ entry = [e \in Entries |-> NoEntry]
    /\ scan = [s \in Scans |-> ScanRests]
    /\ request = [r \in Requests |-> Resting]
    /\ past = [l \in Lines |-> "clean"]
    /\ byHand = {}

-----------------------------------------------------------------------------
\* The lines a process is on.  Whoever rewrites a draft writes no line and no suggestion.
On(p) ==
    IF p \in Requests
    THEN {l \in {request[p].line} : request[p].step \notin {"idle", "rewrite"}}
    ELSE scan[p].lines \cup {item[i].line : i \in scan[p].items}

\* p comes onto some lines.
Meets(p, S) ==
    past' = [l \in Lines |->
        IF l \in S /\ \E q \in (Scans \cup Requests) \ {p} : l \in On(q) THEN "crossed" ELSE past[l]]

\* p ends between two writes.
Tears(S) == past' = [l \in Lines |-> IF l \in S /\ past[l] = "clean" THEN "torn" ELSE past[l]]

-----------------------------------------------------------------------------
(* POST ai-gl/scan: scanAndClassifyTransactions, then autoPostHighConfidence. *)

Unqueued ==
    {l \in Lines : /\ line[l].state = "open"
                   /\ \A i \in Items : item[i].state = "absent" \/ item[i].line # l}

ScanBegin(s) ==
    /\ scan[s].step = "idle"
    /\ scan' = [scan EXCEPT ![s].step = "classify", ![s].lines = Unqueued]
    /\ Meets(s, Unqueued)
    /\ UNCHANGED <<stored, request, byHand>>

\* By a rule or by the AI; a failing call is stored as no advice.
Classify(s, l, i) ==
    /\ l \in scan[s].lines
    /\ item[i].state = "absent"
    /\ \E advice \in {"none", "some", "sure"} :
          item' = [item EXCEPT ![i] = [NoItem EXCEPT !.state = "pending_review", !.line = l,
                                                     !.advice = advice]]
    /\ scan' = [scan EXCEPT ![s].lines = @ \ {l}]
    /\ UNCHANGED <<line, entry, request, past, byHand>>

Sure == {i \in Items : item[i].state = "pending_review" /\ item[i].advice = "sure"}

ListSure(s) ==
    /\ scan[s].step = "classify" /\ scan[s].lines = {}
    /\ scan' = [scan EXCEPT ![s].step = "draft", ![s].items = Sure]
    /\ Meets(s, {item[i].line : i \in Sure})
    /\ UNCHANGED <<stored, request, byHand>>

Draft(s, i, e) ==
    /\ scan[s].step = "draft" /\ i \in scan[s].items
    /\ entry[e].state = "absent"
    /\ entry' = [entry EXCEPT ![e] = [state |-> "draft", line |-> item[i].line,
                                      account |-> "suggested"]]
    /\ scan' = [scan EXCEPT ![s].step = "mark", ![s].item = i, ![s].entry = e]
    /\ UNCHANGED <<line, item, request, past, byHand>>

\* The UPDATE does not ask what the status is by now.
Mark(s, i) ==
    /\ scan[s].step = "mark" /\ i = scan[s].item
    /\ item' = [item EXCEPT ![i].state = "auto_posted", ![i].entry = scan[s].entry]
    /\ scan' = [scan EXCEPT ![s].step = "draft", ![s].items = @ \ {i},
                       ![s].item = AnyItem, ![s].entry = None]
    /\ UNCHANGED <<line, entry, request, past, byHand>>

\* What fails for one item is noted, and the next one is taken.
SkipItem(s, i) ==
    /\ i \in scan[s].items
    /\ scan[s].step = "mark" => i = scan[s].item
    /\ scan' = [scan EXCEPT ![s].step = "draft", ![s].items = @ \ {i},
                       ![s].item = AnyItem, ![s].entry = None]
    /\ IF scan[s].step = "mark" THEN Tears({item[i].line}) ELSE UNCHANGED past
    /\ UNCHANGED <<stored, request, byHand>>

\* Everything is done, or the server stops.
ScanEnd(s) ==
    /\ scan[s].step # "idle"
    /\ scan' = [scan EXCEPT ![s] = ScanRests]
    /\ IF scan[s].step = "mark" THEN Tears({item[scan[s].item].line}) ELSE UNCHANGED past
    /\ UNCHANGED <<stored, request, byHand>>

-----------------------------------------------------------------------------
(* processUserFeedback                                                      *)

\* Mutant: a suggestion is reviewed whatever its status.
Reviewable_always(i) == item[i].state # "absent"

Reviewable(i) == item[i].state \in {"pending_review", "auto_posted"}

Begin(r, l, local) ==
    /\ request[r].step = "idle"
    /\ request' = [request EXCEPT ![r] = local]
    /\ Meets(r, {l})
    /\ UNCHANGED <<stored, scan>>

Review(r, i, verdict, step) ==
    /\ Reviewable(i)
    /\ Begin(r, item[i].line, [step |-> step, line |-> item[i].line, item |-> i,
                               verdict |-> verdict, entry |-> item[i].entry])
    /\ UNCHANGED byHand

Accept(r, i) ==
    \/ item[i].entry = None /\ item[i].advice # "none" /\ Review(r, i, "accepted", "insert")
    \/ item[i].entry # None /\ Review(r, i, "accepted", "post")

\* Mutant: a correction posts the draft there is, if there is one.
Correct_draft(r, i) == Review(r, i, "corrected", IF item[i].entry = None THEN "insert" ELSE "post")

\* A correction posts an entry of its own; a draft there is stays as it is.
Correct(r, i) == Review(r, i, "corrected", "insert")

Reject(r, i) == Review(r, i, "rejected", "setItem")

\* createJournalEntry, posted at once.
InsertPosted(r, e) ==
    /\ request[r].step = "insert"
    /\ entry[e].state = "absent"
    /\ entry' = [entry EXCEPT ![e] =
          [state |-> "posted", line |-> request[r].line,
           account |-> IF request[r].verdict = "accepted" THEN "suggested" ELSE "chosen"]]
    /\ request' = [request EXCEPT ![r].entry = e,
                       ![r].step = IF request[r].verdict = "manual" THEN "setLine" ELSE "setItem"]
    /\ UNCHANGED <<line, item, scan, past, byHand>>

\* UPDATE ... WHERE status = 'draft'.
PostDraft(r) ==
    /\ request[r].step = "post"
    /\ entry' = [entry EXCEPT ![request[r].entry].state = "posted"]
    /\ request' = [request EXCEPT ![r].step = "setItem"]
    /\ UNCHANGED <<line, item, scan, past, byHand>>

SetItem(r) ==
    LET i == request[r].item  rejected == request[r].verdict = "rejected" IN
    /\ request[r].step = "setItem"
    /\ item' = [item EXCEPT ![i].state = request[r].verdict,
                            ![i].entry = IF rejected THEN @ ELSE request[r].entry]
    /\ request' = [request EXCEPT ![r] = IF rejected THEN Resting ELSE [@ EXCEPT !.step = "setLine"]]
    /\ UNCHANGED <<line, entry, scan, past, byHand>>

\* Mutant: the line is left for the next scan.
SetLine_forgotten(r) ==
    /\ request[r].step = "setLine"
    /\ request' = [request EXCEPT ![r] = Resting]
    /\ UNCHANGED <<line, item, entry, scan, past, byHand>>

SetLine(r) ==
    /\ request[r].step = "setLine"
    /\ line' = [line EXCEPT ![request[r].line] = [state |-> "reconciled", booked |-> request[r].entry]]
    /\ request' = [request EXCEPT ![r] = Resting]
    /\ UNCHANGED <<item, entry, scan, past, byHand>>

\* A refusal, a locked month, a failing call, or the end of the server.
GiveUp(r) ==
    /\ request[r].step # "idle"
    /\ request' = [request EXCEPT ![r] = Resting]
    /\ IF request[r].step \in {"setItem", "setLine"} /\ request[r].verdict # "rejected"
       THEN Tears({request[r].line}) ELSE UNCHANGED past
    /\ UNCHANGED <<stored, scan, byHand>>

-----------------------------------------------------------------------------
(* By hand: POST create-entry, POST and DELETE match of a bank line,         *)
(* POST journal/:id/post and PUT journal/:id.  None of them looks at what    *)
(* was done before.                                                         *)

Book(r, l) ==
    /\ Begin(r, l, [Resting EXCEPT !.step = "insert", !.line = l])
    /\ byHand' = byHand \cup {l}

Match(l, e) ==
    /\ entry[e].state # "absent"
    /\ line' = [line EXCEPT ![l] = [state |-> "reconciled", booked |-> e]]
    /\ byHand' = byHand \cup {l}
    /\ UNCHANGED <<item, entry, scan, request, past>>

Unmatch(l) ==
    /\ line' = [line EXCEPT ![l] = [state |-> "open", booked |-> None]]
    /\ byHand' = byHand \cup {l}
    /\ UNCHANGED <<item, entry, scan, request, past>>

PostByHand(e) ==
    /\ entry[e].state = "draft"
    /\ entry' = [entry EXCEPT ![e].state = "posted"]
    /\ byHand' = byHand \cup {entry[e].line}
    /\ UNCHANGED <<line, item, scan, request, past>>

\* PUT journal/:id reads a draft ...
RewriteBegin(r, e) ==
    /\ request[r].step = "idle"
    /\ entry[e].state = "draft"
    /\ request' = [request EXCEPT ![r] = [Resting EXCEPT !.step = "rewrite", !.line = entry[e].line,
                                                        !.entry = e]]
    /\ UNCHANGED <<stored, scan, past, byHand>>

\* ... and writes the lines of its body, and its status if there is one, whatever
\* the entry has become.
Rewrite(r) ==
    LET e == request[r].entry IN
    /\ request[r].step = "rewrite"
    /\ \E status \in {entry[e].state, "draft", "posted"} :
          entry' = [entry EXCEPT ![e] = [@ EXCEPT !.state = status, !.account = "rewritten"]]
    /\ byHand' = byHand \cup {entry[e].line}
    /\ request' = [request EXCEPT ![r] = Resting]
    /\ UNCHANGED <<line, item, scan, past>>

-----------------------------------------------------------------------------
ScanStep(s) ==
    \/ ScanBegin(s) \/ ListSure(s) \/ ScanEnd(s)
    \/ \E i \in Items :
          \/ \E l \in Lines : Classify(s, l, i)
          \/ \E e \in Entries : Draft(s, i, e)
          \/ Mark(s, i) \/ SkipItem(s, i)

RequestStep(r) ==
    \/ \E i \in Items : Accept(r, i) \/ Correct(r, i) \/ Reject(r, i)
    \/ \E l \in Lines : Book(r, l)
    \/ \E e \in Entries : InsertPosted(r, e) \/ RewriteBegin(r, e)
    \/ Rewrite(r) \/ PostDraft(r) \/ SetItem(r) \/ SetLine(r) \/ GiveUp(r)

ByHand ==
    \/ \E l \in Lines : Unmatch(l) \/ \E e \in Entries : Match(l, e)
    \/ \E e \in Entries : PostByHand(e)

Next ==
    \/ \E s \in Scans : ScanStep(s)
    \/ \E r \in Requests : RequestStep(r)
    \/ ByHand

Spec == Init /\ [][Next]_vars

-----------------------------------------------------------------------------
(* Properties *)

\* Rows and processes have their types.
TypeOK ==
    /\ line \in [Lines -> LineRow]
    /\ item \in [Items -> ItemRow]
    /\ entry \in [Entries -> EntryRow]
    /\ scan \in [Scans -> ScanState]
    /\ request \in [Requests -> RequestState]
    /\ past \in [Lines -> {"clean", "torn", "crossed"}]
    /\ byHand \subseteq Lines

Posted(l) == {e \in Entries : entry[e].state = "posted" /\ entry[e].line = l}

\* What the queue alone has done on l, one process after the other, none of them
\* ending half way.
Orderly(l) == past[l] = "clean" /\ l \notin byHand

AtRest(l) == \A p \in Scans \cup Requests : l \notin On(p)

\* Between reviews a line says reconciled exactly when it is in the ledger, once, by the
\* posted entry it names, on the account that was chosen if the suggestion was
\* corrected and on the suggested one if it was accepted.
LedgerFollowsReview ==
    \A l \in Lines : Orderly(l) /\ AtRest(l) =>
        /\ line[l].state = "reconciled" <=> Posted(l) # {}
        /\ \A e \in Posted(l) : \E i \in Items :
              /\ item[i].line = l /\ item[i].entry = e /\ line[l].booked = e
              /\ \/ item[i].state = "accepted" /\ entry[e].account = "suggested"
                 \/ item[i].state = "corrected" /\ entry[e].account = "chosen"

\* Whatever crosses or dies, and whatever is booked, matched or posted by hand: a
\* suggestion that says accepted or corrected names an entry of its line, and
\* unless a PUT has rewritten that entry's lines, it is posted, on the account that
\* was decided.
DecisionsArePosted ==
    \A i \in Items : item[i].state \in {"accepted", "corrected"} =>
        /\ item[i].entry # None
        /\ entry[item[i].entry].state # "absent" /\ entry[item[i].entry].line = item[i].line
        /\ \/ entry[item[i].entry].account = "rewritten"
           \/ /\ entry[item[i].entry].state = "posted"
              /\ entry[item[i].entry].account = IF item[i].state = "accepted" THEN "suggested" ELSE "chosen"

\* A suggestion that has been decided on is never decided on again, nor put back
\* into the queue by a scan, unless processes have crossed on its line.
DecisionsStand ==
    [][\A i \in Items :
          item[i].state \in {"accepted", "corrected", "rejected"} /\ past'[item[i].line] # "crossed"
             => item'[i] = item[i]]_vars

=============================================================================
