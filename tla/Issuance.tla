------------------------------ MODULE Issuance ------------------------------
(***************************************************************************)
(* Issuing a week: what owners ask the issuer for, and what the issuing    *)
(* route does between their ask and a week on chain with an attestation.   *)
(*                                                                         *)
(* One request of the issuer reads the list of asks, reads the chain,      *)
(* submits a transaction, waits for it, and writes two keys of the store.  *)
(* A Worker is one handler invocation, suspended at the await at[w].       *)
(* Transactions are sequenced by the issuer's account: one built on a      *)
(* sequence number that is used by another can no longer be included.      *)
(***************************************************************************)
EXTENDS Integers, Sequences

CONSTANTS
    Accounts, Hashes, Records,
    Workers,
    None,
    GetFails,          \* whether the store may be unreachable for a read
    SetFails,          \* whether it may for a write, before or after applying it
    GivesUp,           \* whether a call may end before its transaction has settled
    \* Bounds of the model
    MaxEntries, MaxSent

Week == [owner : Accounts, record : Records, hash : Hashes]

ASSUME IssuanceAssumption ==
    /\ None \notin Week
    /\ {GetFails, SetFails, GivesUp} \subseteq BOOLEAN
    /\ MaxEntries \in Nat /\ MaxSent \in Nat

VARIABLES
    \* The network
    weeks,          \* the weeks on chain, by id
    sent,           \* the transactions taken by the network, as the calls that built them
    included,       \* those on the ledger, in order, and whether they succeeded
    \* The application
    issuance,       \* the stored issuance requests, by id
    attestations,   \* the record each stored attestation is about, by right
    at, call,       \* where each worker is suspended, and what it works on
    list,           \* the list each worker is about to save
    \* History, read by no action except to draw a fresh id
    made,           \* the asks and direct issuances entered, in order
    answers         \* what the issuer was told once a week was attested

network == <<weeks, sent, included>>
handlers == <<at, call, list>>
vars == <<network, issuance, attestations, handlers, made, answers>>

Put(f, key, value) == [k \in DOMAIN f \cup {key} |-> IF k = key THEN value ELSE f[k]]

\* What a call works on: the ask it closes or 0, the week, and what it read
NoCall == [request |-> 0, week |-> None, right |-> 0, sequence |-> 0, tx |-> 0]

Init ==
    /\ weeks = << >> /\ sent = << >> /\ included = << >>
    /\ issuance = << >>
    /\ attestations = << >>
    /\ at = [w \in Workers |-> "idle"]
    /\ call = [w \in Workers |-> NoCall]
    /\ list = [w \in Workers |-> << >>]
    /\ made = << >>
    /\ answers = {}

Loads == {issuance} \cup (IF GetFails THEN {<< >>} ELSE {})

Resume(w, place, c, l) ==
    /\ at' = [at EXCEPT ![w] = place]
    /\ call' = [call EXCEPT ![w] = c]
    /\ list' = [list EXCEPT ![w] = l]

Return(w) == Resume(w, "idle", NoCall, << >>)

Open(a, h) == [by |-> a, hash |-> h, status |-> "open", right |-> 0]
Secures(entry, h) == entry.status = "issued" /\ entry.hash = h

-----------------------------------------------------------------------------
(* The network                                                              *)

\* The next sequence number of the issuer's account
Sequence == Len(included) + 1

\* A transaction is included, and succeeds or is rejected.  (One whose simulation
\* saw another next id would touch entries outside its footprint and fail; but
\* then the issuer's sequence number has moved on too.)
Include(t) ==
    /\ sent[t].sequence = Sequence
    /\ \E successful \in BOOLEAN :
          /\ included' = Append(included, [tx |-> t, successful |-> successful])
          /\ weeks' = IF successful THEN Append(weeks, sent[t].week) ELSE weeks
    /\ UNCHANGED <<sent, issuance, attestations, handlers, made, answers>>

Settled(c) == \E k \in DOMAIN included : included[k].tx = c.tx

\* Any step may end the call: a read that fails, a transaction that does not
\* settle in time, a handler that is killed.
Abandon(w) ==
    /\ at[w] # "idle"
    /\ at[w] = "poll" => GivesUp \/ Settled(call[w])
    /\ Return(w)
    /\ UNCHANGED <<network, issuance, attestations, made, answers>>

-----------------------------------------------------------------------------
(* POST /api/requests/issuance: ask for a week                              *)

\* Loaded, checked and appended to without an await.
AskIssuance(w, a, h) ==
    /\ at[w] = "idle"
    /\ Len(made) < MaxEntries
    /\ \E loaded \in Loads :
          /\ \A id \in DOMAIN loaded :
                /\ loaded[id] # Open(a, h)
                /\ ~Secures(loaded[id], h)
          /\ Resume(w, "save ask", NoCall, Put(loaded, Len(made) + 1, Open(a, h)))
    /\ made' = Append(made, [by |-> a, hash |-> h])
    /\ UNCHANGED <<network, issuance, attestations, answers>>

SaveAsk(w) ==
    /\ at[w] = "save ask"
    /\ issuance' \in {list[w]} \cup (IF SetFails THEN {issuance} ELSE {})
    /\ Return(w)
    /\ UNCHANGED <<network, attestations, made, answers>>

-----------------------------------------------------------------------------
(* POST /api/issue                                                          *)

\* The ask a week is issued from
AskMatches(ask, week) == ask.status = "open" /\ ask.by = week.owner /\ ask.hash = week.hash

\* Issuing from an ask that was picked, or with a hash typed in: the ask that
\* is the same is closed all the same, and none is found if the store cannot be read.
AsksFor(loaded, week) ==
    LET same == {id \in DOMAIN loaded : AskMatches(loaded[id], week)}
    IN IF same = {} THEN {0} ELSE same

Issue(w, week) ==
    /\ at[w] = "idle"
    /\ \E loaded \in Loads : \E request \in AsksFor(loaded, week) :
          Resume(w, "spent", [NoCall EXCEPT !.request = request, !.week = week], << >>)
    /\ UNCHANGED <<network, issuance, attestations, made, answers>>

\* Mutant: whatever the list says, the hash is used.
SpentNotLooked(w) ==
    /\ at[w] = "spent"
    /\ Resume(w, "next", call[w], << >>)
    /\ UNCHANGED <<network, issuance, attestations, made, answers>>

\* weekSecuredBy answers the first entry, in the order they were made, that the
\* hash secures; the call's own is no objection.
CheckSpent(w) ==
    /\ at[w] = "spent"
    /\ \E loaded \in Loads :
          LET securing == {id \in DOMAIN loaded : Secures(loaded[id], call[w].week.hash)}
              first == {id \in securing : \A other \in securing : id <= other}
          IN IF first \subseteq {call[w].request}
             THEN Resume(w, "next", call[w], << >>)
             ELSE Return(w)
    /\ UNCHANGED <<network, issuance, attestations, made, answers>>

\* Mutant: off by one, the id last issued.
ReadLastId(w) ==
    /\ at[w] = "next"
    /\ Resume(w, "build", [call[w] EXCEPT !.right = IF weeks = << >> THEN 1 ELSE Len(weeks)], << >>)
    /\ UNCHANGED <<network, issuance, attestations, made, answers>>

ReadNextId(w) ==
    /\ at[w] = "next"
    /\ Resume(w, "build", [call[w] EXCEPT !.right = Len(weeks) + 1], << >>)
    /\ UNCHANGED <<network, issuance, attestations, made, answers>>

\* getAccount, then the simulation, which changes nothing
BuildIssueTx(w) ==
    /\ at[w] = "build"
    /\ Resume(w, "submit", [call[w] EXCEPT !.sequence = Sequence], << >>)
    /\ UNCHANGED <<network, issuance, attestations, made, answers>>

\* Refused at submission when its sequence number is used up; the network may
\* also forget it later, and never include it.
Submit(w) ==
    /\ at[w] = "submit"
    /\ IF call[w].sequence = Sequence
       THEN /\ Len(sent) < MaxSent
            /\ LET c == [call[w] EXCEPT !.tx = Len(sent) + 1] IN
               sent' = Append(sent, c) /\ Resume(w, "poll", c, << >>)
       ELSE Return(w) /\ UNCHANGED sent
    /\ UNCHANGED <<weeks, included, issuance, attestations, made, answers>>

\* Mutant: a rejected transaction counts as the week's issuance.
PollAnyResult(w) ==
    /\ at[w] = "poll"
    /\ Settled(call[w])
    /\ Resume(w, "attest", call[w], << >>)
    /\ UNCHANGED <<network, issuance, attestations, made, answers>>

Poll(w) ==
    /\ at[w] = "poll"
    /\ \E k \in DOMAIN included :
          /\ included[k].tx = call[w].tx
          /\ IF included[k].successful THEN Resume(w, "attest", call[w], << >>) ELSE Return(w)
    /\ UNCHANGED <<network, issuance, attestations, made, answers>>

\* The attestation is signed and kept under the id that was read.
SaveAttestation(w) ==
    /\ at[w] = "attest"
    /\ LET saved == Put(attestations, call[w].right, call[w].week.record) IN
       \/ attestations' = saved /\ Resume(w, "close", call[w], << >>)
       \/ SetFails /\ attestations' \in {attestations, saved} /\ Return(w)
    /\ UNCHANGED <<network, issuance, made, answers>>

Told(w, note) ==
    answers' = answers \cup {[hash |-> call[w].week.hash, note |-> note, weeks |-> Len(weeks)]}

Mark(entry, c) == [entry EXCEPT !.status = "issued", !.right = c.right]

\* markIssued, which says nothing when it does not find the ask, or
\* recordDirectIssuance
Close(w) ==
    /\ at[w] = "close"
    /\ \E loaded \in Loads :
          LET c == call[w] IN
          \/ /\ c.request \in DOMAIN loaded
             /\ Resume(w, "save", c, [loaded EXCEPT ![c.request] = Mark(@, c)])
             /\ UNCHANGED <<made, answers>>
          \/ /\ c.request # 0 /\ c.request \notin DOMAIN loaded
             /\ Return(w) /\ Told(w, FALSE)
             /\ UNCHANGED made
          \/ /\ c.request = 0
             /\ Len(made) < MaxEntries
             /\ made' = Append(made, [by |-> c.week.owner, hash |-> c.week.hash])
             /\ Resume(w, "save", c, Put(loaded, Len(made) + 1,
                                     Mark(Open(c.week.owner, c.week.hash), c)))
             /\ UNCHANGED answers
    /\ UNCHANGED <<network, issuance, attestations>>

\* The answer notes a write that failed.
SaveIssuance(w) ==
    /\ at[w] = "save"
    /\ \/ issuance' = list[w] /\ Told(w, FALSE)
       \/ SetFails /\ issuance' \in {issuance, list[w]} /\ Told(w, TRUE)
    /\ Return(w)
    /\ UNCHANGED <<network, attestations, made>>

-----------------------------------------------------------------------------
Next ==
    \/ \E t \in DOMAIN sent : Include(t)
    \/ \E w \in Workers :
          \/ \E a \in Accounts, h \in Hashes : AskIssuance(w, a, h)
          \/ \E week \in Week : Issue(w, week)
          \/ SaveAsk(w) \/ CheckSpent(w) \/ ReadNextId(w) \/ BuildIssueTx(w)
          \/ Submit(w) \/ Poll(w) \/ SaveAttestation(w) \/ Close(w) \/ SaveIssuance(w)
          \/ Abandon(w)

Spec == Init /\ [][Next]_vars

-----------------------------------------------------------------------------
(* Types *)

Entry == [by : Accounts, hash : Hashes, status : {"open", "issued"}, right : Nat]
Call == [request : Nat, week : Week \cup {None}, right : Nat, sequence : Nat, tx : Nat]
Issuing == {"spent", "next", "build", "submit", "poll", "attest", "close", "save"}

\* An entry never changes whose it is or what it secures, and names a right as
\* soon as it is issued.
EntryList(f) ==
    /\ DOMAIN f \subseteq DOMAIN made
    /\ f \in [DOMAIN f -> Entry]
    /\ \A id \in DOMAIN f :
          /\ f[id].by = made[id].by /\ f[id].hash = made[id].hash
          /\ f[id].status = "issued" <=> f[id].right # 0

TypeOK ==
    /\ weeks \in Seq(Week)
    /\ sent \in Seq(Call)
    /\ \A t \in DOMAIN sent : sent[t].week \in Week
    /\ included \in Seq([tx : Nat, successful : BOOLEAN])
    /\ \A k \in DOMAIN included : included[k].tx \in DOMAIN sent
    /\ made \in Seq([by : Accounts, hash : Hashes])
    /\ EntryList(issuance)
    /\ attestations \in [DOMAIN attestations -> Records]
    /\ at \in [Workers -> {"idle", "save ask"} \cup Issuing]
    /\ call \in [Workers -> Call]
    /\ \A w \in Workers : EntryList(list[w])
    /\ \A w \in Workers : at[w] \in Issuing => call[w].week \in Week
    /\ answers \subseteq [hash : Hashes, note : BOOLEAN, weeks : Nat]

-----------------------------------------------------------------------------
(* What holds whatever the interleaving and whatever fails                  *)

\* An ask that reads `issued` was: a week of that account, under that secret, is
\* on chain, even when another handler's stale list was written over it since,
\* the transaction settled late or the store failed.
IssuedAsksHaveWeeks ==
    \A id \in DOMAIN issuance : issuance[id].status = "issued" =>
        \E i \in DOMAIN weeks :
            weeks[i].owner = issuance[id].by /\ weeks[i].hash = issuance[id].hash

\* Nothing is attested that is not on chain: an attestation's right exists, and
\* its record is that of some week.
AttestedWeeksExist ==
    \A i \in DOMAIN attestations :
        /\ i \in DOMAIN weeks
        /\ \E j \in DOMAIN weeks : weeks[j].record = attestations[i]

-----------------------------------------------------------------------------
(* What holds as long as handlers run one at a time, wait for their         *)
(* transaction, and reads do not fail                                       *)

\* issue/route.ts, lines 18-19: "sign an attestation bound to `d`, this right
\* and this contract".  The attestation under an id is about the record of the
\* week with that id.
AttestationIsOfItsWeek ==
    \A i \in DOMAIN attestations :
        i \in DOMAIN weeks /\ attestations[i] = weeks[i].record

\* An issued ask names the week it was issued as: a week of that account.
IssuedNamesItsWeek ==
    \A id \in DOMAIN issuance : issuance[id].status = "issued" =>
        LET i == issuance[id].right IN
        /\ i \in DOMAIN weeks
        /\ weeks[i].owner = issuance[id].by /\ weeks[i].hash = issuance[id].hash

\* issue/route.ts, line 217: "The week is on chain whatever happens here; a
\* request left open is said so."  When the answer has no note, the secret is
\* recorded as spent.
LeftOpenIsSaid ==
    \A answer \in answers : ~answer.note =>
        \E id \in DOMAIN issuance : Secures(issuance[id], answer.hash)

\* issue/route.ts, lines 159-160: "One secret per week ...: refused before anything goes
\* on chain".  After an answer without a note, no later week has its secret.
OneSecretPerWeek ==
    \A answer \in answers : ~answer.note =>
        \A i \in DOMAIN weeks : i > answer.weeks => weeks[i].hash # answer.hash
=============================================================================
