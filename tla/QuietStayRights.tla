-------------------------- MODULE QuietStayRights --------------------------
(***************************************************************************)
(* The rights contract (contracts/quietstay-rights): one action per entry  *)
(* point that writes, plus the ledger closing.                             *)
(*                                                                         *)
(* A contract call is one atomic transaction: it either succeeds and       *)
(* writes, or answers an error and every write it made is rolled back.  So *)
(* each entry point is an operator XxxError, the error it answers (checked *)
(* in the code's order), and an action Xxx, enabled when that error is Ok. *)
(* The caller named by an entry point (`from`, `by`, the issuer) is the    *)
(* account that signed the call (require_auth).                            *)
(*                                                                         *)
(* Signals are canonical and eleven in number here: their byte encoding is *)
(* not modelled.  Persistent and instance entries are never lost (the      *)
(* network archives them, and restores them on use); temporary entries     *)
(* are, when their live-until ledger has passed.                           *)
(***************************************************************************)
EXTENDS OwnershipProof, FiniteSets

CONSTANTS
    Addresses,        \* what a call may name: accounts, and contracts (C...)
    Keeps,            \* Keeps[a]: the secrets account a draws and keeps
    Windows,          \* the [period, validity] pairs the issuer may ask for
    Wraps,            \* the commitments the issuer may ask for, right or wrong
    ListTerms,        \* the rental terms a listing may offer, in seconds
    MaxProofWindow,   \* auth.rs: how far ahead a proof's deadline may be
    MinTempTtl,       \* network setting: min_temp_entry_ttl
    Gaps,             \* seconds a ledger may take to close
    \* Bounds of the model
    MaxRights, MaxTransfers, MaxLedger

ASSUME QuietStayRightsAssumption ==
    /\ Accounts \subseteq Addresses
    /\ None \notin Hashes \cup {ZeroHash}
    /\ Keeps \in [Accounts -> SUBSET Secrets]
    /\ Windows \subseteq [period : [start : Nat, end : Nat],
                          validity : [from : Nat, until : Nat]]
    /\ Wraps \subseteq Commitments
    /\ ListTerms \subseteq Nat
    /\ MaxProofWindow \in Nat /\ MinTempTtl \in Nat
    /\ Gaps \subseteq Nat \ {0}
    /\ MaxRights \in Nat /\ MaxTransfers \in Nat /\ MaxLedger \in Nat

VARIABLES
    ledger,       \* env.ledger().sequence()
    now,          \* env.ledger().timestamp()
    next_id,      \* DataKey::NextId
    rights,       \* DataKey::Right(id), for the ids stored
    listings,     \* DataKey::Listing(id), for the ids listed
    balances,     \* DataKey::Balance(account); 0 stands for no entry
    nullifiers,   \* DataKey::Nullifier(n) -> its live-until ledger
    \* History, read by no action
    spent,        \* the nullifier of every transfer ever accepted
    transfers     \* how many transfers were accepted

vars == <<ledger, now, next_id, rights, listings, balances, nullifiers, spent, transfers>>
records == <<next_id, rights, listings, balances>>
history == <<spent, transfers>>

RightIds == 1..MaxRights

\* storage().set and storage().remove on a family of keys
Put(store, key, value) ==
    [k \in DOMAIN store \cup {key} |-> IF k = key THEN value ELSE store[k]]
Remove(store, key) == [k \in DOMAIN store \ {key} |-> store[k]]

Holder(id) == EffectiveHolding(rights[id].holdings, now)
TitleHolder(id) == rights[id].holdings[1].holder

\* What the page that verifies a week shows as its holder: the top of the chain
\* as it is stored.
ShownHolding(id) == rights[id].holdings[Len(rights[id].holdings)]

-----------------------------------------------------------------------------
(* __constructor *)

Init ==
    /\ ledger = 0
    /\ now = 0
    /\ next_id = 1
    /\ rights = << >>
    /\ listings = << >>
    /\ balances = [a \in Accounts |-> 0]
    /\ nullifiers = << >>
    /\ spent = {}
    /\ transfers = 0

-----------------------------------------------------------------------------
(* issue: signed by the issuer *)

IssueError(owner, window) ==
    LET period == window.period
        validity == window.validity
    IN IF owner \notin Accounts THEN "NotAnAccount"
       ELSE IF period.start >= period.end THEN "InvalidPeriod"
       ELSE IF \/ validity.from > period.start
               \/ period.end > validity.until
               \/ validity.from >= validity.until
            THEN "InvalidValidity"
       ELSE Ok

Issue(owner, window, commitment) ==
    /\ next_id <= MaxRights
    /\ IssueError(owner, window) = Ok
    /\ next_id' = next_id + 1
    /\ rights' = Put(rights, next_id,
                     [period |-> window.period,
                      validity |-> window.validity, commitment |-> commitment,
                      holdings |-> <<TitleOf(owner)>>])
    /\ balances' = [balances EXCEPT ![owner] = @ + 1]
    /\ UNCHANGED <<ledger, now, listings, nullifiers, history>>

-----------------------------------------------------------------------------
(* list and unlist: signed by `by` *)

ListError(by, id, term_secs) ==
    IF id \notin DOMAIN rights THEN "RightNotFound"
    ELSE IF ActiveError(rights[id].validity, now) # Ok
         THEN ActiveError(rights[id].validity, now)
    ELSE IF Holder(id).holder # by THEN "NotHolder"
    ELSE IF term_secs = 0 THEN "InvalidTerm"
    ELSE IF term_secs = None /\ Holder(id).expires_at # None THEN "NotTitleHolder"
    ELSE IF id \in DOMAIN listings THEN "AlreadyListed"
    ELSE Ok

\* The time of listing is recorded too; nothing reads it, so it is left out.
List(by, id, term_secs) ==
    /\ ListError(by, id, term_secs) = Ok
    /\ listings' = Put(listings, id, [by |-> by, term_secs |-> term_secs])
    /\ UNCHANGED <<ledger, now, next_id, rights, balances, nullifiers, history>>

UnlistError(by, id) ==
    IF id \notin DOMAIN rights THEN "RightNotFound"
    ELSE IF id \notin DOMAIN listings THEN "NotListed"
    ELSE IF Holder(id).holder # by THEN "NotHolder"
    ELSE Ok

Unlist(by, id) ==
    /\ UnlistError(by, id) = Ok
    /\ listings' = Remove(listings, id)
    /\ UNCHANGED <<ledger, now, next_id, rights, balances, nullifiers, history>>

-----------------------------------------------------------------------------
(* transfer: signed by `from`, with an ownership proof p, and on a sale    *)
(* with the buyer's signature over (right_id, next secret hash).  `signed` *)
(* is the hash that signature covers, None if the buyer signed nothing.    *)

\* Mutants: the proof need not name the sender; the buyer's signature is not
\* asked for; a proof is refused already at its last ledger.
Named(id, to, expires_at, p) ==
    /\ p.commitment = rights[id].commitment /\ p.right_id = id
    /\ to \in Accounts /\ p.to = to /\ p.mode = ModeOf(expires_at)
    /\ p.expiry_ledger \in ledger..(ledger + MaxProofWindow)
    /\ (expires_at = None) # (p.next_secret_hash = ZeroHash)
    /\ p.nullifier \notin DOMAIN nullifiers
ProofErrorAnySender(id, from, to, expires_at, p, signed) ==
    IF /\ Named(id, to, expires_at, p) /\ from \in Accounts
       /\ expires_at = None => signed = p.next_secret_hash
    THEN Ok ELSE "Refused"
ProofErrorUnsigned(id, from, to, expires_at, p, signed) ==
    IF Named(id, to, expires_at, p) /\ p.from = from THEN Ok ELSE "Refused"
ProofErrorLastLedger(id, from, to, expires_at, p, signed) ==
    IF /\ Named(id, to, expires_at, p) /\ p.from = from
       /\ p.expiry_ledger > ledger
       /\ expires_at = None => signed = p.next_secret_hash
    THEN Ok ELSE "Refused"

\* auth::check_transfer_proof, in its order
ProofError(id, from, to, expires_at, p, signed) ==
    IF {from, to} \ Accounts # {} THEN "NotAnAccount"
    ELSE IF p.commitment # rights[id].commitment THEN "CommitmentMismatch"
    ELSE IF p.right_id # id THEN "RightMismatch"
    ELSE IF p.from # from THEN "WrongAccount"
    ELSE IF p.to # to THEN "RecipientMismatch"
    ELSE IF p.mode # ModeOf(expires_at) THEN "ModeMismatch"
    ELSE IF p.expiry_ledger < ledger THEN "ProofExpired"
    ELSE IF p.expiry_ledger - ledger > MaxProofWindow THEN "ExpiryBeyondWindow"
    ELSE IF (expires_at = None) = (p.next_secret_hash = ZeroHash)
         THEN "NextSecretHashMismatch"
    ELSE IF expires_at = None /\ signed # p.next_secret_hash THEN "NotAuthorized"
    ELSE IF p.nullifier \in DOMAIN nullifiers THEN "NullifierUsed"
    ELSE Ok

TransferError(from, to, id, expires_at, p, signed) ==
    IF id \notin DOMAIN rights THEN "RightNotFound"
    ELSE LET right   == rights[id]
             active  == ActiveError(right.validity, now)
             checked == ProofError(id, from, to, expires_at, p, signed)
             granted == GrantError(right.holdings, right.validity.until,
                                   from, to, expires_at, now)
         IN IF active # Ok THEN active
            ELSE IF checked # Ok THEN checked
            ELSE IF granted # Ok THEN granted
            ELSE IF ~Verifies(p) THEN "InvalidProof"
            ELSE Ok

\* Mutant: the entry's life is left at the network's minimum.
LiveUntilMinimum(p) == ledger + MinTempTtl - 1

\* Spending a nullifier: the new temporary entry lives at least as long as the
\* network's minimum, and is extended to outlive the proof.
LiveUntil(p) ==
    LET minimum  == ledger + MinTempTtl - 1
        extended == p.expiry_ledger + 1
    IN IF minimum >= extended THEN minimum ELSE extended

\* Mutant: the seller keeps the count.
MoveTitleCreditOnly(from, to, expires_at) ==
    IF expires_at = None THEN [balances EXCEPT ![to] = @ + 1] ELSE balances

\* What a sale does to title (adjust_balance twice) and a rental does not
MoveTitle(from, to, expires_at) ==
    IF expires_at = None
    THEN [balances EXCEPT ![from] = @ - 1, ![to] = @ + 1]
    ELSE balances

\* Mutant: the listing is left behind.
TransferKeepingListing(from, to, id, expires_at, p, signed) ==
    /\ TransferError(from, to, id, expires_at, p, signed) = Ok
    /\ rights' = [rights EXCEPT
            ![id].holdings = Grant(@, to, expires_at, now),
            ![id].commitment = IF expires_at = None THEN p.next_commitment ELSE @]
    /\ balances' = MoveTitle(from, to, expires_at)
    /\ nullifiers' = Put(nullifiers, p.nullifier, LiveUntil(p))
    /\ spent' = spent \cup {p.nullifier}
    /\ transfers' = transfers + 1
    /\ UNCHANGED <<ledger, now, next_id, listings>>

Transfer(from, to, id, expires_at, p, signed) ==
    /\ TransferError(from, to, id, expires_at, p, signed) = Ok
    /\ rights' = [rights EXCEPT
            ![id].holdings = Grant(@, to, expires_at, now),
            ![id].commitment = IF expires_at = None THEN p.next_commitment ELSE @]
    /\ balances' = MoveTitle(from, to, expires_at)
    /\ nullifiers' = Put(nullifiers, p.nullifier, LiveUntil(p))
    /\ listings' = Remove(listings, id)
    /\ spent' = spent \cup {p.nullifier}
    /\ transfers' = transfers + 1
    /\ UNCHANGED <<ledger, now, next_id>>

-----------------------------------------------------------------------------
(* burn: signed by `from` *)

\* Mutant: the title holder may burn whoever is in possession.
BurnErrorByTitle(from, id) ==
    IF id \notin DOMAIN rights THEN "RightNotFound"
    ELSE IF TitleHolder(id) # from THEN "NotTitleHolder"
    ELSE Ok

BurnError(from, id) ==
    IF id \notin DOMAIN rights THEN "RightNotFound"
    ELSE IF Holder(id).holder # from THEN "NotHolder"
    ELSE IF Holder(id).expires_at # None THEN "NotTitleHolder"
    ELSE Ok

\* Mutant: the listing outlives the right.
BurnKeepingListing(from, id) ==
    /\ BurnError(from, id) = Ok
    /\ rights' = Remove(rights, id)
    /\ balances' = [balances EXCEPT ![from] = @ - 1]
    /\ UNCHANGED <<ledger, now, next_id, listings, nullifiers, history>>

Burn(from, id) ==
    /\ BurnError(from, id) = Ok
    /\ rights' = Remove(rights, id)
    /\ listings' = Remove(listings, id)
    /\ balances' = [balances EXCEPT ![from] = @ - 1]
    /\ UNCHANGED <<ledger, now, next_id, nullifiers, history>>

-----------------------------------------------------------------------------
(* The network closes a ledger.  Time passes, and temporary entries whose  *)
(* live-until ledger is behind are gone.                                   *)

LedgerClose ==
    /\ ledger < MaxLedger
    /\ ledger' = ledger + 1
    /\ \E gap \in Gaps : now' = now + gap
    /\ nullifiers' = [n \in {m \in DOMAIN nullifiers : nullifiers[m] >= ledger + 1}
                         |-> nullifiers[n]]
    /\ UNCHANGED <<records, history>>

-----------------------------------------------------------------------------
(* The signals a call may carry.  A prover can make signals for any record *)
(* and secret, but only those whose commitment some right stores can pass, *)
(* so those are the ones enumerated.  The rest of the signals is for any   *)
(* transfer at all, of this right or another, with any deadline; and they  *)
(* may have been doctored after proving, which the pairing check must see. *)

CurrentCommitments == {rights[id].commitment : id \in DOMAIN rights}

EndTimes == 0..(MaxLedger + 1)
Deadlines == {l \in (ledger - 1)..(ledger + MaxProofWindow + 1) : l >= 0}

Proofs ==
    {CircuitInput(c.digest, c.hash.secret, id, c.account, to, end, deadline, h) :
        c \in {c \in CurrentCommitments : c.hash # ZeroHash},
        id \in RightIds, to \in Accounts, end \in EndTimes \cup {None},
        deadline \in Deadlines, h \in Hashes \cup {ZeroHash}}

Doctored(p) ==
    {[p EXCEPT !.next_commitment.digest = d] : d \in Digests}
    \cup {[p EXCEPT !.next_commitment.account = a] : a \in Accounts}
    \cup {[p EXCEPT !.nullifier.secret = s] : s \in Secrets}

\* The hash a recipient has signed for this right, if any: one of its own.
Signatures(to) ==
    {None} \cup {SecretHash(s) : s \in IF to \in Accounts THEN Keeps[to] ELSE {}}

\* Transfer repeats the first two conjuncts: they only spare TLC the proofs of
\* calls that cannot succeed.
Submit(from, to, id, expires_at) ==
    /\ id \in DOMAIN rights
    /\ GrantError(rights[id].holdings, rights[id].validity.until,
                  from, to, expires_at, now) = Ok
    /\ \E p \in Proofs : \E q \in {p} \cup Doctored(p), signed \in Signatures(to) :
            Transfer(from, to, id, expires_at, q, signed)

Next ==
    \/ \E owner \in Addresses, window \in Windows, commitment \in Wraps :
            Issue(owner, window, commitment)
    \/ \E by \in Accounts, id \in RightIds :
            \/ \E term_secs \in ListTerms \cup {None} : List(by, id, term_secs)
            \/ Unlist(by, id)
            \/ Burn(by, id)
    \/ /\ transfers < MaxTransfers
       /\ \E from, to \in Addresses, id \in RightIds, expires_at \in EndTimes \cup {None} :
            Submit(from, to, id, expires_at)
    \/ LedgerClose

Spec == Init /\ [][Next]_vars
FairSpec == Spec /\ WF_vars(LedgerClose)

-----------------------------------------------------------------------------
(* Invariants *)

Right ==
    [period : [start : Nat, end : Nat], validity : [from : Nat, until : Nat],
     commitment : Commitments, holdings : Seq(Holding)]
Listing == [by : Accounts, term_secs : Nat \cup {None}]

\* Every stored value has the type its storage key gives it (types.rs).
TypeOK ==
    /\ ledger \in Nat /\ now \in Nat
    /\ next_id \in Nat \ {0}
    /\ DOMAIN rights \subseteq 1..(next_id - 1)
    /\ rights \in [DOMAIN rights -> Right]
    /\ DOMAIN listings \subseteq DOMAIN rights
    /\ listings \in [DOMAIN listings -> Listing]
    /\ balances \in [Accounts -> Int]
    /\ DOMAIN nullifiers \subseteq spent
    /\ nullifiers \in [DOMAIN nullifiers -> Nat]
    /\ spent \subseteq Nullifiers
    /\ transfers \in Nat

\* Every stored chain has the shape types.rs promises (Right, lines 40-42).
ChainsWellFormed ==
    \A id \in DOMAIN rights :
        WellFormed(rights[id].holdings, rights[id].validity.until)

\* The ownership proof leaves no room for a sub-let: a proof names the account
\* in the commitment, which is the title holder's, and a renter in possession
\* is the only one who may grant.  So the four levels store.rs allows for are
\* never used, and HoldingDepthExceeded is never answered.
NoSublet == \A id \in DOMAIN rights : Len(rights[id].holdings) <= 2

\* A right that has ever been rented is committed to its title holder, and
\* a right committed to someone else has never moved.
RentedByCommittedHolder ==
    \A id \in DOMAIN rights :
        Len(rights[id].holdings) > 1 => rights[id].commitment.account = TitleHolder(id)

\* balance() counts the titles an account holds: sales, burns and issues keep
\* the separate counter and the chains in step; rentals do not touch it.
BalancesCountTitles ==
    \A a \in Accounts :
        balances[a] = Cardinality({id \in DOMAIN rights : TitleHolder(id) = a})

\* No proof is ever accepted twice, although the entry that marks it spent is
\* temporary and the network drops it: there is no ledger at which the entry
\* is gone and the proof still inside its window (auth.rs, 237-245).
SpentOnce == Cardinality(spent) = transfers

\* The same fact as it can be carried from step to step: a spent nullifier
\* whose proof could still be accepted is still stored, and outlives it.
SpentIsStored ==
    \A n \in spent :
        n.expiry_ledger >= ledger =>
            n \in DOMAIN nullifiers /\ nullifiers[n] > n.expiry_ledger

\* Outside the right's own window only the title holder is ever in possession:
\* a term ends, at the latest, at the very second the window does.
NobodyRentsPastTheWindow ==
    \A id \in DOMAIN rights :
        now >= rights[id].validity.until => Holder(id) = rights[id].holdings[1]

\* While a right is rented, the only listing it can have is the renter's own,
\* for a term; an open-ended offer is always the title holder's.  A listing
\* may otherwise have been left by a renter whose term is over.
ListingsAreTheirsToMake ==
    \A id \in DOMAIN listings :
        /\ Holder(id).expires_at # None => listings[id].by = Holder(id).holder
        /\ listings[id].term_secs = None => listings[id].by = TitleHolder(id)
        /\ \E k \in DOMAIN rights[id].holdings :
              listings[id].by = rights[id].holdings[k].holder

\* verify/page.tsx, line 235: "The account offering the week is the account the
\* contract says holds it".  What the page compares with is what holding()
\* answers, also when a term is over and no call has written since.
ShownHolderHolds == \A id \in DOMAIN rights : ShownHolding(id) = Holder(id)

\* Nobody is locked out: in the window, a title holder in possession whose
\* commitment is their own, and who makes a fresh proof, is refused only if
\* that very proof was spent.  No call by anyone else, and no past transfer,
\* listing or rental, can take this away.
HolderCanAlwaysTransfer ==
    \A id \in DOMAIN rights : \A to \in Accounts, deadline \in ledger..(ledger + MaxProofWindow) :
        LET stored == rights[id].commitment
            from == TitleHolder(id)
            Try(expires_at, h, signed) ==
                LET p == CircuitInput(stored.digest, stored.hash.secret, id, from, to,
                                      expires_at, deadline, h)
                    error == TransferError(from, to, id, expires_at, p, signed)
                IN error = Ok \/ (error = "NullifierUsed" /\ p.nullifier \in spent)
        IN /\ ActiveError(rights[id].validity, now) = Ok
           /\ Holder(id).holder = from /\ to # from
           /\ stored.account = from /\ stored.hash # ZeroHash
           => /\ \A s \in Keeps[to] : Try(None, SecretHash(s), SecretHash(s))
              /\ \A t \in (now + 1)..rights[id].validity.until : Try(t, ZeroHash, None)

-----------------------------------------------------------------------------
(* What a step may never do *)

\* Title moves only by an accepted proof, while nobody rents the week, and
\* takes the commitment with it: the new one names the new holder, wraps a
\* secret of theirs, and the same record as before.
SaleRekeys ==
    [][\A id \in DOMAIN rights \cap DOMAIN rights' :
          TitleHolder(id)' # TitleHolder(id) =>
             /\ transfers' = transfers + 1
             /\ Holder(id) = rights[id].holdings[1]
             /\ rights'[id].commitment.account = TitleHolder(id)'
             /\ \E s \in Keeps[TitleHolder(id)'] :
                   rights'[id].commitment.hash = SecretHash(s)]_vars

\* The record a right stands for never changes, whoever holds it: the digest
\* inside the commitment survives every sale although the contract never sees
\* it, and neither the week nor the window is ever rewritten.
RecordNeverChanges ==
    [][\A id \in DOMAIN rights \cap DOMAIN rights' :
          /\ rights'[id].commitment.digest = rights[id].commitment.digest
          /\ rights'[id].period = rights[id].period
          /\ rights'[id].validity = rights[id].validity]_vars

\* A renter's term cannot be cut short by anybody: not by a sale, another
\* rental, a burn or a new issue.
TermsAreHonoured ==
    [][\A id \in DOMAIN rights :
          \A k \in 2..Len(rights[id].holdings) :
             ~Lapsed(rights[id].holdings[k], now') =>
                /\ id \in DOMAIN rights'
                /\ k <= Len(rights'[id].holdings)
                /\ rights'[id].holdings[k] = rights[id].holdings[k]]_vars

-----------------------------------------------------------------------------
(* The abstract specification the contract implements.  A chain of two is a *)
(* tenancy, live or over; nothing deeper is ever stored (NoSublet).          *)

Times == EndTimes \cup {w.validity.from : w \in Windows} \cup {w.validity.until : w \in Windows}

Weeks == INSTANCE WeekOwnership WITH
    NoTenancy <- None,
    minted    <- next_id - 1,
    title     <- [id \in DOMAIN rights |-> TitleHolder(id)],
    window    <- [id \in DOMAIN rights |-> rights[id].validity],
    tenancy   <- [id \in DOMAIN rights |->
                    IF Len(rights[id].holdings) < 2 THEN None
                    ELSE [tenant |-> rights[id].holdings[2].holder,
                          until  |-> rights[id].holdings[2].expires_at]]

\* The contract does no more than WeekOwnership allows: every step of the
\* contract is a step of it, or leaves titles, tenancies and clock alone.
ImplementsWeeks == Weeks!Spec

-----------------------------------------------------------------------------
(* Liveness, under FairSpec: ledgers keep closing *)

\* Every rental gives the week back to the title holder, with no further
\* transaction by anybody (lib.rs, lines 282-283).
EveryTermEnds ==
    \A id \in RightIds :
        (id \in DOMAIN rights /\ Holder(id).expires_at # None)
            ~> (id \in DOMAIN rights /\ Holder(id) = rights[id].holdings[1])
=============================================================================
