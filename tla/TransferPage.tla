----------------------------- MODULE TransferPage -----------------------------
(***************************************************************************)
(* The Transfer screen, for one right: build the transfer with its proof   *)
(* and the buyer's consent, sign it, submit it, wait, and record that the  *)
(* ask is answered.                                                        *)
(*                                                                         *)
(* Between two of these anything may happen: the ask is withdrawn, the box *)
(* is edited, another transfer settles.  submit gives up on a transaction  *)
(* that may settle later; the same file can then be submitted again, which *)
(* the contract refuses if the first one went through.                     *)
(*                                                                         *)
(* A file is a transfer with a proof of its own; its nullifier is the file.*)
(* An ask is its place in the store, and to buy it carries a consent with  *)
(* a nonce of its own, which dies some days later.  The seller stays       *)
(* signed in; ListPage is about accounts that change.                      *)
(***************************************************************************)
EXTENDS Sequences, Naturals, FiniteSets

CONSTANTS
    Accounts, None,
    Seller,       \* the account on whose screen this is
    Hashes,
    Files,        \* the transfer.json files there are
    \* Bounds of the model
    MaxAsks, MaxSent, MaxUploads

File == [from : Accounts, to : Accounts, sale : BOOLEAN, hash : Hashes \cup {None}]

VARIABLES
    file,         \* the file in the box, or None
    uploads,      \* the files chosen whose text is still to come
    task,         \* the submission under way: busy is task # Idle
    outcome,      \* what the screen says came of it, or None
    title, tenant,   \* on chain: the title holder, and who rents the week, or None
    sent,         \* every transaction sent: its file, its consent, what became of it
    requests,     \* the asks on record
    dead          \* the asks whose consent can no longer be used

box == <<file, uploads>>
page == <<box, task, outcome>>
chain == <<title, tenant, sent>>
store == <<requests, dead>>
vars == <<page, chain, store>>

Idle == [at |-> "none", file |-> None, ask |-> 0, tx |-> 0]
Holder == IF tenant = None THEN title ELSE tenant
Spent == {sent[n].file : n \in {m \in DOMAIN sent : sent[m].became = "success"}}
UsedConsents == {sent[n].ask : n \in {m \in DOMAIN sent : sent[m].became = "success" /\ sent[m].file.sale}}

Init ==
    /\ file = None /\ uploads = {} /\ task = Idle /\ outcome = None
    /\ title = Seller /\ tenant = None /\ sent = << >>
    /\ requests = << >> /\ dead = {}

-----------------------------------------------------------------------------
(* The store of asks, and the clock                                         *)

\* An account that does not hold the week has one open ask at a time, of the kind
\* the week is offered for, put to whoever holds it.
Ask(by, sale, hash) ==
    /\ Len(requests) < MaxAsks /\ by # Holder /\ tenant = None
    /\ sale <=> hash # None
    /\ \A i \in DOMAIN requests : requests[i].by = by => requests[i].status # "open"
    /\ requests' = Append(requests, [by |-> by, to_holder |-> Holder, sale |-> sale, hash |-> hash,
                                     status |-> "open", tx |-> 0])
    /\ UNCHANGED <<page, chain, dead>>

\* Withdrawn by the asker, or declined by the holder.
Close(i) ==
    /\ requests[i].status = "open"
    /\ requests' = [requests EXCEPT ![i].status = "closed"]
    /\ UNCHANGED <<page, chain, dead>>

ConsentDies(i) ==
    /\ requests[i].sale /\ i \notin dead
    /\ dead' = dead \cup {i}
    /\ UNCHANGED <<page, chain, requests>>

TermEnds ==
    /\ tenant # None /\ tenant' = None
    /\ UNCHANGED <<page, title, sent, store>>

-----------------------------------------------------------------------------
(* The contract, as far as it decides a transfer (QuietStayRights)          *)

\* A sale takes the asker's consent; the signature is for the hash asked with.
Accepts(f, ask) ==
    /\ title = f.from /\ tenant = None /\ f.to # f.from
    /\ f \notin Spent
    /\ f.sale => /\ ask # 0 /\ ask \notin dead \cup UsedConsents
                 /\ requests[ask].by = f.to /\ requests[ask].hash = f.hash

-----------------------------------------------------------------------------
(* The screen                                                               *)

\* readUpload: the outcome goes at once, the box is filled when the text has been read,
\* over whatever it holds by then.  What does not parse is no file.
Upload(f) ==
    /\ Cardinality(uploads) < MaxUploads
    /\ uploads' = uploads \cup {f} /\ outcome' = None
    /\ UNCHANGED <<file, task, chain, store>>

UploadRead(f) ==
    /\ f \in uploads /\ uploads' = uploads \ {f}
    /\ file' = f
    /\ UNCHANGED <<task, outcome, chain, store>>

\* A file is pasted, or the box is cleared.
Paste(f) ==
    /\ f # file
    /\ file' = f /\ outcome' = None
    /\ UNCHANGED <<uploads, task, chain, store>>

\* The button, for a file of the account's own; the screen shows it while idle.
Submit ==
    /\ task = Idle /\ file # None /\ file.from = Seller
    /\ outcome' = None
    /\ task' = [Idle EXCEPT !.at = "build", !.file = file]
    /\ UNCHANGED <<box, chain, store>>

\* The open ask the route matches: to buy with this very h, or to rent.
Matching(f) ==
    {i \in DOMAIN requests :
        /\ requests[i].status = "open" /\ requests[i].by = f.to /\ requests[i].sale = f.sale
        /\ f.sale => requests[i].hash = f.hash}

\* buildProvenTransferTx simulates twice: the first time to learn that a sale wants the
\* buyer's signature, which has to be there; then the whole call with it.
Simulated(f, ask) ==
    /\ f.sale => ask # 0
    /\ Accepts(f, ask)

\* proven-transfer: the call is simulated before anyone signs.
Build ==
    /\ task.at = "build"
    /\ \E ask \in IF Matching(task.file) = {} THEN {0} ELSE Matching(task.file) :
          /\ Simulated(task.file, ask)
          /\ task' = [task EXCEPT !.at = "sign", !.ask = ask]
    /\ UNCHANGED <<box, outcome, chain, store>>

\* Signed by the wallet, and sent: refused on the spot, or on its way.
Send ==
    /\ task.at = "sign" /\ Len(sent) < MaxSent
    /\ \E became \in {"pending", "refused"} :
          sent' = Append(sent, [file |-> task.file, ask |-> task.ask, became |-> became])
    /\ task' = [task EXCEPT !.at = "wait", !.tx = Len(sent) + 1]
    /\ UNCHANGED <<box, outcome, title, tenant, store>>

\* The network applies it, in the polling or long after.
Settle(n) ==
    /\ sent[n].became = "pending"
    /\ LET f == sent[n].file IN
       IF Accepts(f, sent[n].ask)
       THEN /\ sent' = [sent EXCEPT ![n].became = "success"]
            /\ IF f.sale THEN title' = f.to /\ UNCHANGED tenant
                         ELSE tenant' = f.to /\ UNCHANGED title
       ELSE sent' = [sent EXCEPT ![n].became = "refused"] /\ UNCHANGED <<title, tenant>>
    /\ UNCHANGED <<page, store>>

\* Mutant: an ask is recorded as accepted whatever became of the transfer.
RecordsAnyway(t) == t.ask # 0

\* The ask is answered when there is one, and the transfer went through.
Records(t) == sent[t.tx].became = "success" /\ t.ask # 0

\* submit answers: the transfer went through, or was refused.
Answered ==
    /\ task.at = "wait" /\ sent[task.tx].became # "pending"
    /\ task' = [task EXCEPT !.at = IF Records(task) THEN "record" ELSE "show"]
    /\ UNCHANGED <<box, outcome, chain, store>>

\* The route records it only against the chain: the asker holds the week, and the
\* ask is open and was put to the caller.  What it answers is not looked at.
Record ==
    /\ task.at = "record"
    /\ LET i == task.ask IN
       requests' = IF requests[i].status = "open" /\ Holder = requests[i].by /\ requests[i].to_holder = Seller
                   THEN [requests EXCEPT ![i].status = "accepted", ![i].tx = task.tx]
                   ELSE requests
    /\ task' = [task EXCEPT !.at = "show"]
    /\ UNCHANGED <<box, outcome, chain, dead>>

\* Mutant: what is announced is the file in the box.
Announced == IF file = None THEN task.file ELSE file

\* The outcome, about the file that was sent.
Sent == task.file

Show ==
    /\ task.at = "show"
    /\ outcome' = [file |-> Sent, tx |-> task.tx,
                   kind |-> IF sent[task.tx].became = "success" THEN "confirmed" ELSE "rejected-on-chain"]
    /\ task' = [task EXCEPT !.at = "refresh"]
    /\ UNCHANGED <<box, chain, store>>

\* refreshStanding: whoever holds no week any more loses the form, with all it shows.
Refresh ==
    /\ task.at = "refresh"
    /\ task' = Idle
    /\ \/ UNCHANGED <<box, outcome>>
       \/ Holder # Seller /\ file' = None /\ uploads' = {} /\ outcome' = None
    /\ UNCHANGED <<chain, store>>

\* A step throws: the build is refused, the wallet declines, the wait is over before
\* the transaction has settled, or a call fails.
Throws ==
    /\ task.at \in {"build", "sign", "wait", "record"}
    /\ task' = Idle
    /\ UNCHANGED <<box, outcome, chain, store>>

-----------------------------------------------------------------------------
Next ==
    \/ \E by \in Accounts, sale \in BOOLEAN, hash \in Hashes \cup {None} : Ask(by, sale, hash)
    \/ \E i \in DOMAIN requests : Close(i) \/ ConsentDies(i)
    \/ TermEnds
    \/ \E f \in Files \cup {None} : Upload(f) \/ UploadRead(f) \/ Paste(f)
    \/ Submit \/ Build \/ Send \/ Answered \/ Record \/ Show \/ Refresh \/ Throws
    \/ \E n \in DOMAIN sent : Settle(n)

Spec == Init /\ [][Next]_vars

-----------------------------------------------------------------------------
TypeOK ==
    /\ file \in Files \cup {None} /\ uploads \subseteq Files \cup {None}
    /\ task.file \in Files \cup {None}
    /\ task.ask \in 0..Len(requests) /\ task.tx \in 0..Len(sent)
    /\ title \in Accounts /\ tenant \in Accounts \cup {None}
    /\ \A n \in DOMAIN sent : sent[n].ask \in 0..Len(requests)
    /\ \A i \in DOMAIN requests : requests[i].tx \in 0..Len(sent)
    /\ dead \subseteq DOMAIN requests

\* What the screen announces is what became of the transaction it names, and is said
\* of the transfer in it, whatever was uploaded while it was out.
OutcomeIsOfItsTransaction ==
    outcome # None =>
        /\ outcome.file = sent[outcome.tx].file
        /\ sent[outcome.tx].became = IF outcome.kind = "confirmed" THEN "success" ELSE "refused"

\* The transaction an accepted ask names is one that went through, and moved the
\* week to the account that asked, in the way it asked for: also when a submission
\* was given up and tried again, and the week had moved there meanwhile.
AcceptedByItsTransaction ==
    \A i \in DOMAIN requests :
        requests[i].status = "accepted" =>
            LET t == sent[requests[i].tx] IN
            /\ t.became = "success" /\ t.ask = i
            /\ t.file.to = requests[i].by /\ t.file.sale = requests[i].sale
=============================================================================
