------------------------------ MODULE Inventory ------------------------------
(***************************************************************************)
(* readInventory: every right in the registry, read by a few loops that    *)
(* share a cursor over the ids, each id by several calls that are not one  *)
(* snapshot, with retries.                                                 *)
(*                                                                         *)
(* A Worker is one of the asynchronous loops; between two awaits it runs   *)
(* without interruption.  Meanwhile the registry itself goes on: rights    *)
(* are issued and burned.  What a call answers about a right is left out,  *)
(* except whether there is one.                                            *)
(***************************************************************************)
EXTENDS Integers

CONSTANTS
    Concurrency,    \* how many loops there are at most (5)
    Attempts,       \* how often one right is tried (3)
    Reads,          \* the calls one right takes (4)
    QuietReads,     \* those that answer nothing, not RightNotFound, for no right
    \* Bound of the model
    MaxRights

ASSUME InventoryAssumption ==
    /\ Concurrency \in Nat \ {0} /\ Attempts \in Nat \ {0}
    /\ QuietReads \subseteq Reads /\ Reads \ QuietReads # {}
    /\ MaxRights \in Nat

VARIABLES
    \* The contract
    next_id,     \* rights are numbered 1..(next_id - 1)
    live,        \* those that are not burned
    \* The call
    step,        \* "next_id", "reading", "done" or "failed"
    upto,        \* the last id it is to read
    cursor,      \* the next id to be taken (the code counts on past the last)
    rows,        \* the ids that have a row
    at,          \* where each worker is suspended
    on,          \* the id it has taken, or 0
    attempt,     \* how often it has tried it
    got,         \* the calls of this attempt that have answered
    \* History, read by no action
    since        \* the rights that were live when next_id was read

registry == <<next_id, live>>
worker == <<at, on, attempt, got>>
vars == <<registry, step, upto, cursor, rows, worker, since>>

Workers == 1..Concurrency

Init ==
    /\ next_id \in 1..(MaxRights + 1)
    /\ live = 1..(next_id - 1)
    /\ step = "next_id"
    /\ upto = 0 /\ cursor = 1
    /\ rows = {} /\ since = {}
    /\ at = [w \in Workers |-> "idle"]
    /\ on = [w \in Workers |-> 0]
    /\ attempt = [w \in Workers |-> 0]
    /\ got = [w \in Workers |-> {}]

-----------------------------------------------------------------------------
(* The registry: ids are dense, and a burned right's is not used again.     *)

Issue ==
    /\ next_id <= MaxRights
    /\ next_id' = next_id + 1
    /\ live' = live \cup {next_id}
    /\ UNCHANGED <<step, upto, cursor, rows, worker, since>>

Burn(id) ==
    /\ id \in live
    /\ live' = live \ {id}
    /\ UNCHANGED <<next_id, step, upto, cursor, rows, worker, since>>

-----------------------------------------------------------------------------
(* The call                                                                 *)

\* No more loops are started than there are ids.
ReadNextId ==
    /\ step = "next_id"
    /\ step' = "reading"
    /\ upto' = next_id - 1
    /\ at' = [w \in Workers |-> IF w <= next_id - 1 THEN "take" ELSE "idle"]
    /\ since' = live
    /\ UNCHANGED <<registry, cursor, rows, on, attempt, got>>

\* This read is not retried.
NextIdFails ==
    /\ step = "next_id"
    /\ step' = "failed"
    /\ UNCHANGED <<registry, upto, cursor, rows, worker, since>>

Suspend(w, place, id, tries, answered) ==
    /\ at' = [at EXCEPT ![w] = place]
    /\ on' = [on EXCEPT ![w] = id]
    /\ attempt' = [attempt EXCEPT ![w] = tries]
    /\ got' = [got EXCEPT ![w] = answered]

\* Mutant: one id too many.
TakeOneTooMany(w) ==
    /\ at[w] = "take"
    /\ IF cursor > upto + 1
       THEN Suspend(w, "finished", 0, 0, {}) /\ UNCHANGED cursor
       ELSE Suspend(w, "reading", cursor, 1, {}) /\ cursor' = cursor + 1
    /\ UNCHANGED <<registry, step, upto, rows, since>>

Take(w) ==
    /\ at[w] = "take"
    /\ IF cursor > upto
       THEN Suspend(w, "finished", 0, 0, {}) /\ UNCHANGED cursor
       ELSE Suspend(w, "reading", cursor, 1, {}) /\ cursor' = cursor + 1
    /\ UNCHANGED <<registry, step, upto, rows, since>>

\* One of the calls answers.
Answers(w, read) ==
    /\ at[w] = "reading" /\ read \notin got[w]
    /\ on[w] \in live \/ read \in QuietReads
    /\ Suspend(w, "reading", on[w], attempt[w], got[w] \cup {read})
    /\ UNCHANGED <<registry, step, upto, cursor, rows, since>>

\* Mutant: the row goes where the cursor is by now, not where it was.
FillAtCursor(w) ==
    /\ at[w] = "reading" /\ got[w] = Reads
    /\ rows' = rows \cup ({cursor} \cap 1..upto)
    /\ Suspend(w, "take", 0, 0, {})
    /\ UNCHANGED <<registry, step, upto, cursor, since>>

\* All have: the row is complete, and the loop goes round.
Fill(w) ==
    /\ at[w] = "reading" /\ got[w] = Reads
    /\ rows' = rows \cup {on[w]}
    /\ Suspend(w, "take", 0, 0, {})
    /\ UNCHANGED <<registry, step, upto, cursor, since>>

\* The first call to fail decides: RightNotFound means no row.
Missing(w) ==
    /\ at[w] = "reading"
    /\ on[w] \notin live
    /\ Reads \ (QuietReads \cup got[w]) # {}
    /\ Suspend(w, "take", 0, 0, {})
    /\ UNCHANGED <<registry, step, upto, cursor, rows, since>>

\* Mutant: any failure is taken for RightNotFound.
RefusedIsMissing(w) ==
    /\ at[w] = "reading" /\ got[w] # Reads
    /\ Suspend(w, "take", 0, 0, {})
    /\ UNCHANGED <<registry, step, upto, cursor, rows, since>>

\* Any other failure: the endpoint sheds load, or cannot be reached.
Refused(w) ==
    /\ at[w] = "reading" /\ got[w] # Reads
    /\ Suspend(w, "pausing", on[w], attempt[w], {})
    /\ UNCHANGED <<registry, step, upto, cursor, rows, since>>

\* Mutant: the attempts are not counted.
RetryForever(w) ==
    /\ at[w] = "pausing"
    /\ Suspend(w, "reading", on[w], attempt[w], {})
    /\ UNCHANGED <<registry, step, upto, cursor, rows, since>>

\* After the pause, try again or give the whole call up.  The other loops are
\* not stopped: they go on, and nobody looks at what they read.
Retry(w) ==
    /\ at[w] = "pausing"
    /\ IF attempt[w] < Attempts
       THEN Suspend(w, "reading", on[w], attempt[w] + 1, {}) /\ UNCHANGED step
       ELSE Suspend(w, "threw", 0, 0, {}) /\ step' = "failed"
    /\ UNCHANGED <<registry, upto, cursor, rows, since>>

\* Promise.all over the loops
Return ==
    /\ step = "reading"
    /\ \A w \in Workers : at[w] \in {"idle", "finished"}
    /\ step' = "done"
    /\ UNCHANGED <<registry, upto, cursor, rows, worker, since>>

-----------------------------------------------------------------------------
Loop(w) ==
    \/ Take(w) \/ Fill(w) \/ Missing(w) \/ Refused(w) \/ Retry(w)
    \/ \E read \in Reads : Answers(w, read)

Next ==
    \/ Issue
    \/ \E id \in live : Burn(id)
    \/ ReadNextId \/ NextIdFails \/ Return
    \/ \E w \in Workers : Loop(w)

Spec == Init /\ [][Next]_vars

\* Every request is answered or fails in the end, and the event loop gets round
\* to every answer.
FairSpec ==
    /\ Spec
    /\ WF_vars(ReadNextId \/ NextIdFails) /\ WF_vars(Return)
    /\ \A w \in Workers : WF_vars(Loop(w))

-----------------------------------------------------------------------------
\* A loop that works on an id has taken it from the cursor.
TypeOK ==
    /\ next_id \in Nat \ {0} /\ live \subseteq 1..(next_id - 1)
    /\ step \in {"next_id", "reading", "done", "failed"}
    /\ upto \in 0..(next_id - 1) /\ cursor \in 1..(upto + 1)
    /\ rows \subseteq 1..(cursor - 1) /\ since \subseteq 1..upto
    /\ at \in [Workers -> {"idle", "take", "reading", "pausing", "finished", "threw"}]
    /\ on \in [Workers -> 0..(cursor - 1)]
    /\ attempt \in [Workers -> 0..Attempts]
    /\ got \in [Workers -> SUBSET Reads]

\* "A week silently absent is worse than an error" (contract.ts, lines 245-248):
\* when the call answers, a week that has no row is burned, however many reads
\* failed, whatever was issued or burned meanwhile, and whichever loop had it.
CompleteOrError ==
    step = "done" => live \cap 1..upto \subseteq rows

\* Whatever fails, the call ends.
CallEnds == <>(step \in {"done", "failed"})

-----------------------------------------------------------------------------
(* The abstract specification                                               *)

Promised == INSTANCE RegistryRead WITH
    issued <- next_id - 1,
    step   <- IF step = "next_id" THEN "idle" ELSE step,
    asked  <- since,
    shown  <- IF step = "done" THEN rows ELSE {}

\* Reading the registry keeps the promise: every week, or an error.
ImplementsRead == Promised!Spec
=============================================================================
