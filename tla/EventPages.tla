------------------------------ MODULE EventPages ------------------------------
(***************************************************************************)
(* readTransferEvents: the accepted transfers of a right, read page by     *)
(* page from nodes that each remember a little more or less of the past.   *)
(*                                                                         *)
(* A ledger holds any number of transfers, of the right asked about or of  *)
(* another.  A page scans Span ledgers and ends with the last of them, or  *)
(* with its Limit-th event, which may have others of its ledger after it.  *)
(* The code reads of the cursor only the ledger it is in.  Meanwhile       *)
(* ledgers close.  A node refuses what is outside what it remembers, and   *)
(* the read starts again further on; or it sheds load, and the read starts *)
(* again where it started.                                                 *)
(***************************************************************************)
EXTENDS Sequences, Naturals

CONSTANTS
    Reach,        \* how far back it starts (120,000)
    Span, Limit,  \* what one request scans (about 10,000) and lists (200)
    MaxPages,     \* how many pages one attempt reads (31)
    Attempts,     \* how often it starts again (5)
    Margin, Day,  \* where it starts after a refusal (3,000 and 14,000)
    \* Bounds of the model: ledgers, and events in them
    MaxHead, MaxEvents

VARIABLES
    head,         \* the latest ledger
    log,          \* the transfers accepted so far, in their order
    stage,        \* "latest", "reading", "listed" or "failed"
    start,        \* startLedger of this attempt
    scanned,      \* the ledger its cursor is in, as ledgerOf has it
    past,         \* how many events the cursor itself is past
    found,        \* the events of this attempt, by their place in the log
    pages, tries,
    seen          \* latestLedger, as the last page said

chain == <<head, log>>
cursor == <<scanned, past>>
progress == <<start, cursor, found, pages, tries, seen>>
vars == <<chain, stage, progress>>

Larger(m, n) == IF m >= n THEN m ELSE n
Before(m, n) == IF m > n THEN m - n ELSE 0

Init ==
    /\ head = 1 /\ log = << >>
    /\ stage = "latest"
    /\ start = 0 /\ scanned = 0 /\ past = 0
    /\ found = << >> /\ pages = 0 /\ tries = 0 /\ seen = 0

Close ==
    /\ head < MaxHead /\ head' = head + 1
    /\ \E n \in 0..(MaxEvents - Len(log)) : \E of \in [1..n -> {"mine", "other"}] :
          log' = log \o [i \in 1..n |-> [ledger |-> head', of |-> of[i]]]
    /\ UNCHANGED <<stage, progress>>

\* getLatestLedger, and the first attempt's start
GetLatest ==
    /\ stage = "latest" /\ stage' = "reading"
    /\ start' = Larger(1, Before(head, Reach))
    /\ scanned' = start' - 1
    /\ UNCHANGED <<chain, past, found, pages, tries, seen>>

\* How many events there are up to the end of ledger l.
UpTo(l) == CHOOSE k \in 0..Len(log) : \A i \in 1..Len(log) : log[i].ledger <= l <=> i <= k

\* The first request names a ledger, those after it the cursor of the page before.
GetEvents ==
    /\ stage = "reading" /\ scanned < head
    /\ LET from == IF pages = 0 THEN UpTo(start - 1) ELSE past
           reach == IF scanned + Span <= head THEN scanned + Span ELSE head
           full == UpTo(reach) >= from + Limit
       IN /\ past' = IF full THEN from + Limit ELSE UpTo(reach)
          /\ scanned' = IF full THEN log[from + Limit].ledger ELSE reach
          /\ found' = found \o [n \in 1..(past' - from) |-> from + n]
    /\ seen' = head
    /\ pages' = pages + 1
    /\ stage' = IF scanned' < head /\ pages' < MaxPages THEN "reading" ELSE "listed"
    /\ UNCHANGED <<chain, start, tries>>

\* Mutant: what an attempt found before it was refused is kept.
FoundSoFar == found

\* Each attempt of readFrom finds anew.
FoundAnew == << >>

StartAgain(from) ==
    /\ start' = from /\ scanned' = from - 1 /\ past' = 0
    /\ found' = FoundAnew /\ pages' = 0
    /\ tries' = tries + 1
    /\ stage' = IF tries >= Attempts THEN "failed" ELSE "reading"
    /\ UNCHANGED <<chain, seen>>

\* The node remembers the ledgers from `oldest` on only, or the ledger asked for has not
\* closed yet; the refusal names the range.
RangeRefused(oldest) ==
    /\ stage = "reading" /\ oldest <= head
    /\ LET asked == IF pages = 0 THEN start ELSE scanned IN asked < oldest \/ head < asked
    /\ StartAgain(Larger(oldest + Margin, Before(head, Day)))

Shed == stage = "reading" /\ StartAgain(start)

\* Any other error
Unreadable ==
    /\ stage \in {"latest", "reading"} /\ stage' = "failed"
    /\ UNCHANGED <<chain, progress>>

Next ==
    \/ Close \/ GetLatest \/ GetEvents \/ Shed \/ Unreadable
    \/ \E oldest \in 1..MaxHead : RangeRefused(oldest)

Spec == Init /\ [][Next]_vars

\* The answer: of the events found, in their order, those of the right asked about.
Listed == {n \in DOMAIN found : log[found[n]].of = "mine"}

\* What was accepted in the ledgers asked for and is not in the answer.
Missed ==
    {i \in DOMAIN log : /\ log[i].of = "mine" /\ log[i].ledger \in start..seen
                        /\ \A n \in DOMAIN found : found[n] # i}

-----------------------------------------------------------------------------
TypeOK ==
    /\ stage \in {"latest", "reading", "listed", "failed"}
    /\ head \in Nat /\ start \in Nat /\ scanned \in Nat /\ seen \in 0..head
    /\ past \in 0..Len(log) /\ found \in Seq(1..Len(log))
    /\ pages \in 0..MaxPages /\ tries \in 0..(Attempts + 1)

\* "The accepted transfers of a right that the RPC still remembers" (contract.ts, 484), as
\* far as the code keeps it: an answer lists each transfer once, in the order of the
\* chain, from where its last attempt started, whatever was refused, shed and found
\* before.  It has no gap: what it leaves out comes after all that was found and after
\* where the cursor came to.  That is only what is beyond the last of its pages, or
\* follows a full page within the ledger where that page ended.  When that ledger is
\* the latest one, the loop takes the page for the last and the rest of the ledger is
\* lost (contract.ts, 500 and 520).
ListedOnceAndComplete ==
    stage = "listed" =>
        /\ \A m, n \in Listed : m < n => found[m] < found[n]
        /\ \A n \in Listed : log[found[n]].ledger \in start..seen
        /\ \A i \in Missed :
              /\ log[i].ledger >= scanned /\ \A n \in DOMAIN found : found[n] < i
              /\ log[i].ledger > scanned => pages = MaxPages
              /\ log[i].ledger = scanned => Len(found) >= Limit
=============================================================================
