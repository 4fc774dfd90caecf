------------------------------ MODULE Requests ------------------------------
(***************************************************************************)
(* Transfer requests: what people ask each other for, kept by the          *)
(* application beside the contract, for one right.                         *)
(*                                                                         *)
(* The list of requests is one value in a key-value store, and every       *)
(* handler changes it by reading all of it, changing one entry and writing *)
(* all of it back, with awaits in between.  A Worker is one handler        *)
(* invocation; at[w] is the await it is suspended in, and each action runs *)
(* it to the next one.  Meanwhile the week itself moves on the contract,   *)
(* of which this module keeps who is in possession and what is on offer.   *)
(***************************************************************************)
EXTENDS Integers, Sequences

CONSTANTS
    Accounts, Owner,   \* the owner is the week's first holder
    Workers,
    None,
    GetFails,          \* whether the store may be unreachable for a read
    SetFails,          \* whether it may for a write, before or after applying it
    \* Bounds of the model
    MaxAsks, MaxPossessions

ASSUME RequestsAssumption ==
    /\ Owner \in Accounts
    /\ None \notin Accounts \cup {"sale", "rental", "accepted", "declined", "withdrawn"}
    /\ GetFails \in BOOLEAN /\ SetFails \in BOOLEAN
    /\ MaxAsks \in Nat /\ MaxPossessions \in Nat

VARIABLES
    \* The contract
    possession,   \* who has been in possession, in order, and how they came by it
    offer,        \* "sale", "rental" or None: the listing
    ended,        \* whether the week's last night has passed
    prepared,     \* the transfer last built, which may yet be submitted
    \* The application
    store,        \* the stored requests, by id
    at, call,     \* where each worker is suspended, and what it was called with
    list,         \* the list each worker last loaded, as it has changed it
    \* History, read by no action except to draw a fresh id
    asked,        \* per id: by whom, for what, and since which possession
    writes        \* what was written, or found nowhere to write, and for whom

contract == <<possession, offer, ended, prepared>>
handlers == <<at, call, list>>
vars == <<contract, store, handlers, asked, writes>>

Kinds == {"sale", "rental"}
Answers == {"accepted", "declined", "withdrawn"}
Ids == 1..MaxAsks

Put(f, key, value) == [k \in DOMAIN f \cup {key} |-> IF k = key THEN value ELSE f[k]]

\* What a worker holds that was called by `a`.  A row's two reads are empty
\* until they answer; the holding read is remembered as its place in possession.
Called(a, id, answer) ==
    [by |-> a, id |-> id, answer |-> answer, listing |-> None, listed |-> FALSE, holding |-> 0]
NoCall == Called(None, 0, None)

Init ==
    /\ possession = <<[holder |-> Owner, how |-> "issue", ask |-> 0]>>
    /\ offer = None
    /\ ended = FALSE
    /\ prepared = None
    /\ store = << >>
    /\ at = [w \in Workers |-> "idle"]
    /\ call = [w \in Workers |-> NoCall]
    /\ list = [w \in Workers |-> << >>]
    /\ asked = << >>
    /\ writes = {}

-----------------------------------------------------------------------------
(* The contract, as QuietStayRights has it: the account in possession may   *)
(* list, only for a term when it rents; only a title holder in possession   *)
(* can prove a transfer; a term lapses by itself.                           *)

Current == possession[Len(possession)]
OnTerm(p) == p.how = "rental"

Moves(holder, how, ask) ==
    /\ Len(possession) < MaxPossessions
    /\ possession' = Append(possession, [holder |-> holder, how |-> how, ask |-> ask])

List(kind) ==
    /\ offer = None
    /\ OnTerm(Current) => kind = "rental"
    /\ offer' = kind
    /\ UNCHANGED <<possession, ended, prepared, store, handlers, asked, writes>>

Unlist ==
    /\ offer # None
    /\ offer' = None
    /\ UNCHANGED <<possession, ended, prepared, store, handlers, asked, writes>>

\* The holding before a rental is the title holder's.
Lapse ==
    /\ OnTerm(Current)
    /\ Moves(possession[Len(possession) - 1].holder, "lapse", 0)
    /\ UNCHANGED <<offer, ended, prepared, store, handlers, asked, writes>>

WeekEnds ==
    /\ ~ended
    /\ ended' = TRUE
    /\ UNCHANGED <<possession, offer, prepared, store, handlers, asked, writes>>

\* Submitting a transfer that was built earlier.  A buyer's consent has a nonce:
\* it authorizes one sale.
Submit ==
    LET t == prepared IN
    /\ t # None
    /\ Current.holder = t.from /\ ~OnTerm(Current)
    /\ t.how = "sale" => \A i \in DOMAIN possession : possession[i].ask # t.ask
    /\ Moves(t.to, t.how, t.ask)
    /\ offer' = None
    /\ prepared' = None
    /\ UNCHANGED <<ended, store, handlers, asked, writes>>

-----------------------------------------------------------------------------
(* The store.  A read of an unreachable store answers the empty list; a     *)
(* write that fails may have been applied all the same.                     *)

Loads == {store} \cup (IF GetFails THEN {<< >>} ELSE {})

Resume(w, place, c, l) ==
    /\ at' = [at EXCEPT ![w] = place]
    /\ call' = [call EXCEPT ![w] = c]
    /\ list' = [list EXCEPT ![w] = l]

Return(w) == Resume(w, "idle", NoCall, << >>)

\* Any step may end the call with an error or with nothing: a chain read that
\* fails, a consent that does not check out, a handler that is killed.
Abandon(w) ==
    /\ at[w] # "idle"
    /\ Return(w)
    /\ UNCHANGED <<contract, store, asked, writes>>

Record(w, outcome) ==
    writes' = writes \cup
        {[by |-> call[w].by, id |-> call[w].id, outcome |-> outcome,
          status |-> IF call[w].answer = None THEN "open" ELSE call[w].answer]}

\* Mutant: the caller is told of success although the write failed.
SaveToldAnyway(w) ==
    /\ at[w] = "save"
    /\ store' \in {list[w]} \cup (IF SetFails THEN {store} ELSE {})
    /\ Record(w, "stored")
    /\ Return(w)
    /\ UNCHANGED <<contract, asked>>

\* saveRequests, at the end of both handlers
Save(w) ==
    /\ at[w] = "save"
    /\ \/ store' = list[w] /\ Record(w, "stored")
       \/ SetFails /\ store' = list[w] /\ Record(w, "refused")
       \/ SetFails /\ UNCHANGED <<store, writes>>
    /\ Return(w)
    /\ UNCHANGED <<contract, asked>>

-----------------------------------------------------------------------------
(* POST /api/requests: ask for the week                                     *)

Ask(w, a) ==
    /\ at[w] = "idle"
    /\ Resume(w, "row", Called(a, 0, None), << >>)
    /\ UNCHANGED <<contract, store, asked, writes>>

\* The row is read by calls that are not one snapshot (Promise.all).
ReadListing(w) ==
    /\ at[w] = "row" /\ ~call[w].listed
    /\ Resume(w, "row", [call[w] EXCEPT !.listed = TRUE, !.listing = offer], << >>)
    /\ UNCHANGED <<contract, store, asked, writes>>

ReadHolding(w) ==
    /\ at[w] = "row" /\ call[w].holding = 0
    /\ Resume(w, "row", [call[w] EXCEPT !.holding = Len(possession)], << >>)
    /\ UNCHANGED <<contract, store, asked, writes>>

RowRefused(c) ==
    \/ c.listing = None
    \/ possession[c.holding].holder = c.by
    \/ ended
    \/ OnTerm(possession[c.holding])

HasOpenRequest(requests, a) ==
    \E id \in DOMAIN requests : requests[id].by = a /\ requests[id].status = "open"

\* Mutant: an account may ask any number of times.
AskCheckUnlimited(w) ==
    /\ at[w] = "row" /\ call[w].listed /\ call[w].holding # 0
    /\ IF RowRefused(call[w]) THEN Return(w) ELSE Resume(w, "consent", call[w], << >>)
    /\ UNCHANGED <<contract, store, asked, writes>>

\* The refusals, in one step with openRequestBy's load
AskCheck(w) ==
    /\ at[w] = "row" /\ call[w].listed /\ call[w].holding # 0
    /\ \E loaded \in Loads :
          IF RowRefused(call[w]) \/ HasOpenRequest(loaded, call[w].by)
          THEN Return(w)
          ELSE Resume(w, "consent", call[w], << >>)
    /\ UNCHANGED <<contract, store, asked, writes>>

\* The consent checked out: the record is made, the list loaded again, and the
\* record appended to it.
AskRecord(w) ==
    /\ at[w] = "consent"
    /\ Len(asked) < MaxAsks
    /\ LET c  == call[w]
           id == Len(asked) + 1
       IN /\ asked' = Append(asked, [by |-> c.by, term |-> c.listing, since |-> c.holding])
          /\ \E loaded \in Loads :
                Resume(w, "save", [c EXCEPT !.id = id],
                       Put(loaded, id, [by |-> c.by, term |-> c.listing, status |-> "open",
                                        to_holder |-> possession[c.holding].holder]))
    /\ UNCHANGED <<contract, store, writes>>

-----------------------------------------------------------------------------
(* POST /api/requests/<id>: answer a request                                *)

Answer(w, a, id, answer) ==
    /\ at[w] = "idle"
    /\ Resume(w, "find", Called(a, id, answer), << >>)
    /\ UNCHANGED <<contract, store, asked, writes>>

\* Mutant: an answered request may be answered again.
FindAnswered(w) ==
    /\ at[w] = "find"
    /\ \E loaded \in Loads :
          IF \/ call[w].id \notin DOMAIN loaded
             \/ call[w].answer = "withdrawn" /\ loaded[call[w].id].by # call[w].by
          THEN Return(w)
          ELSE Resume(w, IF call[w].answer = "withdrawn" THEN "update" ELSE "holding",
                      call[w], loaded)
    /\ UNCHANGED <<contract, store, asked, writes>>

Find(w) ==
    /\ at[w] = "find"
    /\ \E loaded \in Loads :
          LET c == call[w] IN
          IF \/ c.id \notin DOMAIN loaded
             \/ loaded[c.id].status # "open"
             \/ c.answer = "withdrawn" /\ loaded[c.id].by # c.by
          THEN Return(w)
          ELSE Resume(w, IF c.answer = "withdrawn" THEN "update" ELSE "holding", c, loaded)
    /\ UNCHANGED <<contract, store, asked, writes>>

\* Mutants: an acceptance is taken on trust; anyone may decline.
MayAnswerOnTrust(c, existing, holder) ==
    \/ c.answer = "declined" /\ holder = c.by
    \/ c.answer = "accepted" /\ existing.to_holder = c.by
MayAnswerAnyone(c, existing, holder) ==
    \/ c.answer = "declined"
    \/ c.answer = "accepted" /\ holder = existing.by

\* Who may decline, and when an acceptance may be recorded and by whom
MayAnswer(c, existing, holder) ==
    \/ c.answer = "declined" /\ holder = c.by
    \/ c.answer = "accepted" /\ holder = existing.by /\ existing.to_holder = c.by

CheckHolding(w) ==
    /\ at[w] = "holding"
    /\ IF MayAnswer(call[w], list[w][call[w].id], Current.holder)
       THEN Resume(w, "update", call[w], list[w])
       ELSE Return(w)
    /\ UNCHANGED <<contract, store, asked, writes>>

\* updateRequest loads the list again; the handler reports success even when
\* it no longer finds the request.
Update(w) ==
    /\ at[w] = "update"
    /\ \E loaded \in Loads :
          IF call[w].id \in DOMAIN loaded
          THEN /\ Resume(w, "save", call[w], [loaded EXCEPT ![call[w].id].status = call[w].answer])
               /\ UNCHANGED writes
          ELSE Return(w) /\ Record(w, "gone")
    /\ UNCHANGED <<contract, store, asked>>

-----------------------------------------------------------------------------
(* POST /api/tx/proven-transfer: build the transfer a proof was made for.   *)
(* A sale needs an open ask to buy, whose consent it carries; a rental      *)
(* needs none.  The build's simulation repeats what the contract checks at  *)
(* submission.                                                              *)

PrepareSale(a, to) ==
    /\ \E loaded \in Loads : \E ask \in DOMAIN loaded :
          /\ loaded[ask].status = "open"
          /\ loaded[ask].by = to /\ loaded[ask].term = "sale"
          /\ prepared' = [from |-> a, to |-> to, how |-> "sale", ask |-> ask]
    /\ UNCHANGED <<possession, offer, ended, store, handlers, asked, writes>>

PrepareRental(a, to) ==
    /\ prepared' = [from |-> a, to |-> to, how |-> "rental", ask |-> 0]
    /\ UNCHANGED <<possession, offer, ended, store, handlers, asked, writes>>

-----------------------------------------------------------------------------
Next ==
    \/ \E kind \in Kinds : List(kind)
    \/ Unlist \/ Lapse \/ WeekEnds \/ Submit
    \/ \E a \in Accounts : \E to \in Accounts \ {a} :
          PrepareSale(a, to) \/ PrepareRental(a, to)
    \/ \E w \in Workers :
          \/ \E a \in Accounts :
                \/ Ask(w, a)
                \/ \E id \in DOMAIN asked, answer \in Answers : Answer(w, a, id, answer)
          \/ ReadListing(w) \/ ReadHolding(w) \/ AskCheck(w) \/ AskRecord(w)
          \/ Find(w) \/ CheckHolding(w) \/ Update(w)
          \/ Save(w) \/ Abandon(w)

Spec == Init /\ [][Next]_vars

-----------------------------------------------------------------------------
(* Types *)

Possession == [holder : Accounts, how : Kinds \cup {"issue", "lapse"}, ask : Nat]
Statuses == {"open"} \cup Answers
TransferRequest ==
    [by : Accounts, to_holder : Accounts, term : Kinds, status : Statuses]
Call == [by : Accounts \cup {None}, id : Nat, answer : Answers \cup {None},
         listing : Kinds \cup {None}, listed : BOOLEAN, holding : Nat]
Transfer == [from : Accounts, to : Accounts, how : Kinds, ask : Nat]
RequestList(f) == DOMAIN f \subseteq DOMAIN asked /\ f \in [DOMAIN f -> TransferRequest]

\* Every request a list holds was asked for, and a worker that is about to
\* write holds the request it writes.
TypeOK ==
    /\ possession \in Seq(Possession) /\ possession # << >>
    /\ offer \in Kinds \cup {None}
    /\ ended \in BOOLEAN
    /\ prepared \in Transfer \cup {None}
    /\ RequestList(store)
    /\ at \in [Workers -> {"idle", "row", "consent", "find", "holding", "update", "save"}]
    /\ call \in [Workers -> Call]
    /\ \A w \in Workers :
          /\ RequestList(list[w])
          /\ at[w] \in {"holding", "save"} => call[w].id \in DOMAIN list[w]
          /\ at[w] # "idle" => call[w].by \in Accounts
          /\ call[w].holding \in 0..Len(possession)
    /\ asked \in Seq([by : Accounts, term : Kinds, since : Nat])
    /\ writes \subseteq [by : Accounts, id : Nat, status : Statuses,
                         outcome : {"stored", "refused", "gone"}]

-----------------------------------------------------------------------------
(* What holds whatever the interleaving *)

\* An ask is recorded as accepted only if the week came to the account that
\* asked, by a transfer made after it looked at who held it: not because the
\* asker had it before, or got it back when somebody's term lapsed.
AcceptedMeansMoved ==
    \A id \in DOMAIN store : store[id].status = "accepted" =>
        \E i \in (asked[id].since + 1)..Len(possession) :
            possession[i].holder = asked[id].by /\ possession[i].how \in Kinds

\* Whatever an answered request says, the party entitled to say so said it: the
\* asker that it is withdrawn, somebody who has held the week since the ask
\* that it is declined, the holder it was made to that it is accepted.
Entitled(r) ==
    \/ r.status = "withdrawn" /\ r.by = asked[r.id].by
    \/ r.status = "declined" /\ \E i \in asked[r.id].since..Len(possession) :
                                   possession[i].holder = r.by
    \/ r.status = "accepted" /\ r.by = possession[asked[r.id].since].holder

AnswersAreTheirsToGive ==
    \A id \in DOMAIN store : store[id].status # "open" =>
        \E r \in writes : r.id = id /\ r.status = store[id].status /\ Entitled(r)

-----------------------------------------------------------------------------
(* What holds as long as handlers run one at a time and reads do not fail   *)

\* What a caller was told is recorded stays recorded: an ask, until it is
\* answered, and an answer for good.
AcknowledgedStays ==
    \A r \in writes : r.outcome = "stored" =>
        /\ r.id \in DOMAIN store
        /\ r.status # "open" => store[r.id].status = r.status

\* An account has at most one open ask, even when it was told that an earlier
\* one could not be recorded.
OneOpenAskEach ==
    \A i, j \in DOMAIN store :
        store[i].by = store[j].by /\ store[i].status = "open" /\ store[j].status = "open"
        => i = j

\* An answered request never changes again.
AnswersAreFinal ==
    [][\A id \in DOMAIN store : store[id].status # "open" =>
          id \in DOMAIN store' /\ store'[id] = store[id]]_vars

\* The store, which any call may be about to overwrite with the list it read before, is
\* a book of asks.
Book == INSTANCE AskBook WITH book <- store
ImplementsAskBook == Book!Spec

-----------------------------------------------------------------------------
(* What the code's comments say and the code does not do *)

\* lib/requests.ts, lines 150-152: "the request would be accepted, acknowledged,
\* and gone before the holder ever saw it.  Losing somebody's ask silently is
\* worse than declining to take it".
AsksAreNotLost ==
    \A r \in writes : r.status = "open" /\ r.outcome = "stored" => r.id \in DOMAIN store
=============================================================================
