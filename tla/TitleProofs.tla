---------------------------- MODULE TitleProofs ----------------------------
(***************************************************************************)
(* What a step may never do to a right, for any number of rights, accounts *)
(* and transfers: titles, records and running terms.  What the contract's  *)
(* state amounts to: whose listings there are, what a balance counts, and  *)
(* that title and tenancy change as WeekOwnership promises.  And that what *)
(* the pages show of it, or offer, can be had (Shop), whatever the bounds  *)
(* on a proof's deadline.                                                  *)
(***************************************************************************)
EXTENDS Shop, QuietStayRightsProofs

\* Somebody's finite term is in force only at the top of a chain of two; when
\* the holder in possession is open-ended, every term has lapsed.
LEMMA OpenEndedMeansLapsed ==
    ASSUME IInv, NEW id \in DOMAIN rights,
           Holder(id).expires_at = None \/ LiveLength(rights[id].holdings, now) = 1
    PROVE  /\ \A k \in 2..Len(rights[id].holdings) : Lapsed(rights[id].holdings[k], now)
           /\ Holder(id) = rights[id].holdings[1]
<1>. DEFINE chain == rights[id].holdings
            n == LiveLength(chain, now)
<1>1. /\ chain \in Seq(Holding) /\ now \in Nat /\ rights[id].validity.until \in Nat
      /\ WellFormed(chain, rights[id].validity.until)
    BY DEF IInv, TypeOK, Right, ChainsWellFormed
<1>2. Len(chain) >= 1
    BY <1>1 DEF WellFormed
<1>3. /\ n \in 1..Len(chain)
      /\ \A k \in (n + 1)..Len(chain) : Lapsed(chain[k], now)
    BY <1>1, <1>2, LiveLengthProperty
<1>. HIDE DEF n
<1>4. n = 1
    <2>1. CASE n # 1
        <3>1. n \in 2..Len(chain)
            BY <2>1, <1>3
        <3>2. chain[n].expires_at # None
            BY <3>1, <1>1, HoldingChainAssumption DEF WellFormed
        <3>. QED
            BY <2>1, <3>2 DEF Holder, EffectiveHolding, n
    <2>. QED
        BY <2>1
<1>. QED
    BY <1>3, <1>4 DEF Holder, EffectiveHolding, n

\* Outside the window only the title holder is ever in possession.
LEMMA NobodyRentsLate == IInv => NobodyRentsPastTheWindow
<1>. SUFFICES ASSUME IInv, NEW id \in DOMAIN rights, now >= rights[id].validity.until
              PROVE  Holder(id) = rights[id].holdings[1]
    BY DEF NobodyRentsPastTheWindow
<1>. DEFINE chain == rights[id].holdings
            n == LiveLength(chain, now)
            until == rights[id].validity.until
<1>1. /\ chain \in Seq(Holding) /\ now \in Nat /\ until \in Nat
      /\ WellFormed(chain, until)
    BY DEF IInv, TypeOK, Right, ChainsWellFormed
<1>2. Len(chain) >= 1
    BY <1>1 DEF WellFormed
<1>3. /\ n \in 1..Len(chain)
      /\ n = 1 \/ ~Lapsed(chain[n], now)
    BY <1>1, <1>2, LiveLengthProperty
<1>. HIDE DEF n
<1>4. n = 1
    <2>1. CASE n # 1
        <3>1. n \in 2..Len(chain)
            BY <2>1, <1>3
        <3>2. chain[n].expires_at \in Nat /\ chain[n].expires_at <= until
            BY <3>1, <1>1 DEF WellFormed
        <3>3. chain[n].expires_at <= now
            BY <3>2, <1>1
        <3>. QED
            BY <2>1, <1>3, <3>2, <3>3, HoldingChainAssumption DEF Lapsed
    <2>. QED
        BY <2>1
<1>. QED
    BY <1>4, OpenEndedMeansLapsed DEF n

-----------------------------------------------------------------------------
(* Action properties: an accepted transfer, and every other step *)

SaleStep ==
    \A id \in DOMAIN rights \cap DOMAIN rights' :
        TitleHolder(id)' # TitleHolder(id) =>
           /\ transfers' = transfers + 1
           /\ Holder(id) = rights[id].holdings[1]
           /\ rights'[id].commitment.account = TitleHolder(id)'
           /\ \E s \in Keeps[TitleHolder(id)'] :
                 rights'[id].commitment.hash = SecretHash(s)

RecordStep ==
    \A id \in DOMAIN rights \cap DOMAIN rights' :
        /\ rights'[id].commitment.digest = rights[id].commitment.digest
        /\ rights'[id].period = rights[id].period
        /\ rights'[id].validity = rights[id].validity

TermStep ==
    \A id \in DOMAIN rights :
        \A k \in 2..Len(rights[id].holdings) :
           ~Lapsed(rights[id].holdings[k], now') =>
              /\ id \in DOMAIN rights'
              /\ k <= Len(rights'[id].holdings)
              /\ rights'[id].holdings[k] = rights[id].holdings[k]

StepOK == SaleStep /\ RecordStep /\ TermStep

LEMMA TransferSteps ==
    ASSUME IInv, NEW from, NEW to, NEW id, NEW expires_at \in Nat \cup {None},
           NEW p \in Signals, NEW signed \in Signatures(to),
           Transfer(from, to, id, expires_at, p, signed)
    PROVE  StepOK
<1>1. TransferError(from, to, id, expires_at, p, signed) = Ok
    BY DEF Transfer
<1>2. /\ id \in DOMAIN rights /\ to \in Accounts
      /\ p.commitment = rights[id].commitment /\ p.to = to
      /\ (expires_at = None) # (p.next_secret_hash = ZeroHash)
      /\ expires_at = None => signed = p.next_secret_hash
      /\ Verifies(p)
    BY <1>1, TransferOk
<1>3. LiveLength(rights[id].holdings, now) = 1
    BY <1>1, OnlyTheTitleHolderGrants
<1>4. /\ DOMAIN rights' = DOMAIN rights
      /\ \A k \in DOMAIN rights \ {id} : rights'[k] = rights[k]
      /\ rights'[id].commitment =
            IF expires_at = None THEN p.next_commitment ELSE rights[id].commitment
      /\ rights'[id].period = rights[id].period
      /\ rights'[id].validity = rights[id].validity
      /\ rights'[id].holdings[1].holder = IF expires_at = None THEN to ELSE TitleHolder(id)
    <2>1. Effect(to, id, expires_at, p)
        BY TransferEffect
    <2>. QED
        BY <2>1 DEF Effect
<1>5. /\ p.next_commitment.digest = p.commitment.digest
      /\ p.next_commitment.account = to
      /\ p.next_commitment.hash = p.next_secret_hash
    BY <1>2 DEF Verifies, Satisfies, Commit
<1>6. /\ \A k \in 2..Len(rights[id].holdings) : Lapsed(rights[id].holdings[k], now)
      /\ Holder(id) = rights[id].holdings[1]
    BY <1>2, <1>3, OpenEndedMeansLapsed
<1>7. transfers' = transfers + 1 /\ now' = now
    BY DEF Transfer
<1>8. SaleStep
    <2>1. CASE expires_at = None
        <3>1. p.next_secret_hash # None
            BY QuietStayRightsAssumption DEF Signals
        <3>2. \E s \in Keeps[to] : p.next_secret_hash = SecretHash(s)
            BY <2>1, <3>1, <1>2 DEF Signatures
        <3>. QED
            BY <2>1, <3>2, <1>4, <1>5, <1>6, <1>7 DEF SaleStep, TitleHolder
    <2>2. CASE expires_at # None
        BY <2>2, <1>4 DEF SaleStep, TitleHolder
    <2>. QED
        BY <2>1, <2>2
<1>9. RecordStep
    BY <1>2, <1>4, <1>5 DEF RecordStep
<1>10. TermStep
    <2>. SUFFICES ASSUME NEW i \in DOMAIN rights, NEW k \in 2..Len(rights[i].holdings),
                         ~Lapsed(rights[i].holdings[k], now')
                  PROVE  i \in DOMAIN rights' /\ rights'[i] = rights[i]
        BY DEF TermStep
    <2>. QED
        BY <1>4, <1>6, <1>7
<1>. QED
    BY <1>8, <1>9, <1>10 DEF StepOK

LEMMA BurnSteps ==
    ASSUME IInv, NEW from, NEW id, Burn(from, id)
    PROVE  StepOK
<1>1. id \in DOMAIN rights /\ Holder(id).expires_at = None
    BY Zenon DEF Burn, BurnError, Ok
<1>2. \A k \in 2..Len(rights[id].holdings) : Lapsed(rights[id].holdings[k], now)
    BY <1>1, OpenEndedMeansLapsed
<1>3. /\ DOMAIN rights' = DOMAIN rights \ {id} /\ now' = now
      /\ \A k \in DOMAIN rights' : rights'[k] = rights[k]
    BY DEF Burn, Remove
<1>. QED
    BY <1>2, <1>3 DEF StepOK, SaleStep, RecordStep, TermStep, TitleHolder

LEMMA OtherSteps ==
    ASSUME TypeOK, DOMAIN rights \subseteq DOMAIN rights',
           \A id \in DOMAIN rights : rights'[id] = rights[id]
    PROVE  StepOK
<1>1. \A id \in DOMAIN rights : rights[id].holdings \in Seq(Holding)
    BY DEF TypeOK, Right
<1>. QED
    BY <1>1 DEF StepOK, SaleStep, RecordStep, TermStep, TitleHolder

LEMMA NextSteps == IInv /\ [Next]_vars => StepOK
<1>. SUFFICES ASSUME IInv, [Next]_vars PROVE StepOK
    OBVIOUS
<1>1. ASSUME UNCHANGED rights PROVE StepOK
    BY <1>1, OtherSteps DEF IInv
<1>2. CASE UNCHANGED vars
    BY <1>1, <1>2 DEF vars
<1>3. ASSUME NEW owner, NEW window, NEW commitment, Issue(owner, window, commitment)
      PROVE  StepOK
    <2>1. next_id \notin DOMAIN rights
        BY DEF IInv, TypeOK
    <2>2. /\ DOMAIN rights' = DOMAIN rights \cup {next_id}
          /\ \A k \in DOMAIN rights \ {next_id} : rights'[k] = rights[k]
        BY <1>3 DEF Issue, Put
    <2>. QED
        BY <2>1, <2>2, OtherSteps DEF IInv
<1>4. ASSUME NEW by, NEW id,
             \/ \E term_secs \in ListTerms \cup {None} : List(by, id, term_secs)
             \/ Unlist(by, id)
             \/ Burn(by, id)
      PROVE  StepOK
    BY <1>1, <1>4, BurnSteps DEF List, Unlist
<1>5. ASSUME NEW from, NEW to, NEW id, NEW expires_at \in EndTimes \cup {None},
             Submit(from, to, id, expires_at)
      PROVE  StepOK
    <2>1. PICK p \in Proofs : \E q \in {p} \cup Doctored(p), signed \in Signatures(to) :
                Transfer(from, to, id, expires_at, q, signed)
        BY <1>5 DEF Submit
    <2>2. PICK q \in {p} \cup Doctored(p), signed \in Signatures(to) :
                Transfer(from, to, id, expires_at, q, signed)
        BY <2>1
    <2>3. q \in Signals
        BY SubmittedSignals DEF IInv
    <2>4. expires_at \in Nat \cup {None}
        BY DEF EndTimes
    <2>. QED
        BY <2>2, <2>3, <2>4, TransferSteps
<1>6. CASE LedgerClose
    BY <1>1, <1>6 DEF LedgerClose, records
<1>. QED
    BY <1>2, <1>3, <1>4, <1>5, <1>6 DEF Next

-----------------------------------------------------------------------------
(* Theorems *)

\* At and after the end of a right's window, the title holder is in possession.
THEOREM NobodyRentsPast == Spec => []NobodyRentsPastTheWindow
BY NobodyRentsLate, Inductive, PTL

\* Title moves only by a proof, with the week in the seller's possession, and
\* the new commitment is the buyer's.
THEOREM SalesRekey == Spec => SaleRekeys
<1>1. IInv /\ [Next]_vars => SaleStep
    BY NextSteps DEF StepOK
<1>. QED
    BY <1>1, Inductive, PTL DEF Spec, SaleRekeys, SaleStep

\* The record behind a right outlives every sale.
THEOREM RecordsStay == Spec => RecordNeverChanges
<1>1. IInv /\ [Next]_vars => RecordStep
    BY NextSteps DEF StepOK
<1>. QED
    BY <1>1, Inductive, PTL DEF Spec, RecordNeverChanges, RecordStep

\* Nothing anybody calls ends a running term early.
THEOREM TermsRunTheirCourse == Spec => TermsAreHonoured
<1>1. IInv /\ [Next]_vars => TermStep
    BY NextSteps DEF StepOK
<1>. QED
    BY <1>1, Inductive, PTL DEF Spec, TermsAreHonoured, TermStep

-----------------------------------------------------------------------------
(* Listings and balances: what is stored beside a right follows its chain   *)

\* A chain of at most two holdings, and which of them is in force.
LEMMA TwoHoldings ==
    ASSUME NEW chain \in Seq(Holding), NEW until \in Nat, WellFormed(chain, until),
           Len(chain) <= 2, NEW t \in Nat
    PROVE  /\ Len(chain) = 1 \/ Len(chain) = 2
           /\ chain[1].expires_at = None
           /\ Len(chain) = 2 =>
                /\ chain[2].expires_at \in Nat /\ chain[2].expires_at <= until
                /\ chain[2].holder # chain[1].holder
           /\ IF Len(chain) = 2 /\ chain[2].expires_at > t
              THEN EffectiveHolding(chain, t) = chain[2]
              ELSE LiveLength(chain, t) = 1 /\ EffectiveHolding(chain, t) = chain[1]
<1>. DEFINE n == LiveLength(chain, t)
<1>0. Len(chain) \in Nat /\ Len(chain) >= 1
    BY HoldingChainAssumption DEF WellFormed
<1>1. Len(chain) = 1 \/ Len(chain) = 2
    BY <1>0, OneOrTwo, Zenon
<1>2. /\ n \in 1..Len(chain)
      /\ n = 1 \/ ~Lapsed(chain[n], t)
      /\ \A k \in (n + 1)..Len(chain) : Lapsed(chain[k], t)
    BY <1>0, LiveLengthProperty
<1>3. chain[1].expires_at = None
    BY DEF WellFormed
<1>4. ASSUME Len(chain) = 2
      PROVE  /\ chain[2].expires_at \in Nat /\ chain[2].expires_at <= until
             /\ chain[2].holder # chain[1].holder
             /\ Lapsed(chain[2], t) <=> ~(chain[2].expires_at > t)
    <2>1. 2 \in 2..Len(chain)
        BY <1>4
    <2>2. chain[2].expires_at \in Nat /\ chain[2].expires_at <= until
        BY <2>1 DEF WellFormed
    <2>3. chain[2].holder # chain[2 - 1].holder
        BY <2>1 DEF WellFormed
    <2>. QED
        BY <2>2, <2>3, HoldingChainAssumption DEF Lapsed
<1>. HIDE DEF n
<1>5. CASE Len(chain) = 2 /\ chain[2].expires_at > t
    <2>1. n = 2
        <3>1. n = 1 => Lapsed(chain[2], t)
            BY <1>2, <1>5
        <3>. QED
            BY <1>2, <1>4, <1>5, <3>1
    <2>. QED
        BY <1>1, <1>3, <1>4, <1>5, <2>1 DEF EffectiveHolding, n
<1>6. CASE ~(Len(chain) = 2 /\ chain[2].expires_at > t)
    <2>1. n = 1
        <3>1. n = 1 \/ (n = 2 /\ Len(chain) = 2)
            BY <1>1, <1>2
        <3>. QED
            BY <1>2, <1>4, <1>6, <3>1
    <2>. QED
        BY <1>1, <1>3, <1>4, <1>6, <2>1 DEF EffectiveHolding, n
<1>. QED
    BY <1>5, <1>6

\* The same of a stored right, at this second or a later one.
LEMMA StoredChain ==
    ASSUME IInv, NEW id \in DOMAIN rights, NEW t \in Nat
    PROVE  LET chain == rights[id].holdings IN
           /\ rights[id] \in Right
           /\ Len(chain) = 1 \/ Len(chain) = 2
           /\ chain[1].expires_at = None
           /\ Len(chain) = 2 =>
                /\ chain[2].expires_at \in Nat
                /\ chain[2].expires_at <= rights[id].validity.until
                /\ chain[2].holder # chain[1].holder
           /\ IF Len(chain) = 2 /\ chain[2].expires_at > t
              THEN EffectiveHolding(chain, t) = chain[2]
              ELSE LiveLength(chain, t) = 1 /\ EffectiveHolding(chain, t) = chain[1]
<1>1. /\ rights[id] \in Right /\ rights[id].holdings \in Seq(Holding)
      /\ rights[id].validity.until \in Nat
      /\ WellFormed(rights[id].holdings, rights[id].validity.until)
      /\ Len(rights[id].holdings) <= 2
    BY DEF IInv, TypeOK, Right, ChainsWellFormed, NoSublet
<1>. QED
    BY <1>1, TwoHoldings

\* Who offers a week, as a property of one listing.
TheirsToMake(listing, chain, t) ==
    LET holding == EffectiveHolding(chain, t) IN
    /\ holding.expires_at # None => listing.by = holding.holder
    /\ listing.term_secs = None => listing.by = chain[1].holder
    /\ \E k \in DOMAIN chain : listing.by = chain[k].holder

\* A listing stays its lister's to make while the chain is left alone: time may
\* end the term above a title, and never starts one.
LEMMA ListingsKept ==
    ASSUME IInv, ListingsAreTheirsToMake,
           now' \in Nat, now' >= now,
           DOMAIN listings' \subseteq DOMAIN listings,
           \A k \in DOMAIN listings' :
                listings'[k] = listings[k] /\ rights'[k].holdings = rights[k].holdings
    PROVE  ListingsAreTheirsToMake'
<1>. SUFFICES ASSUME NEW id \in DOMAIN listings'
              PROVE  TheirsToMake(listings'[id], rights'[id].holdings, now')
    BY DEF ListingsAreTheirsToMake, TheirsToMake, Holder, TitleHolder
<1>. DEFINE chain == rights[id].holdings
<1>1. /\ id \in DOMAIN rights /\ id \in DOMAIN listings /\ now \in Nat
      /\ rights'[id].holdings = chain /\ listings'[id] = listings[id]
    BY DEF IInv, TypeOK
<1>2. TheirsToMake(listings[id], chain, now)
    BY <1>1 DEF ListingsAreTheirsToMake, TheirsToMake, Holder, TitleHolder
<1>3. \/ EffectiveHolding(chain, now') = EffectiveHolding(chain, now)
      \/ EffectiveHolding(chain, now').expires_at = None
    <2>1. \/ EffectiveHolding(chain, now') = chain[1] /\ chain[1].expires_at = None
          \/ /\ Len(chain) = 2 /\ chain[2].expires_at > now' /\ chain[2].expires_at \in Nat
             /\ EffectiveHolding(chain, now') = chain[2]
        BY <1>1, StoredChain
    <2>2. ASSUME Len(chain) = 2, chain[2].expires_at > now', chain[2].expires_at \in Nat
          PROVE  EffectiveHolding(chain, now) = chain[2]
        <3>1. chain[2].expires_at > now
            BY <1>1, <2>2
        <3>. QED
            BY <1>1, <2>2, <3>1, StoredChain
    <2>. QED
        BY <2>1, <2>2
<1>. QED
    BY <1>1, <1>2, <1>3 DEF TheirsToMake

LEMMA ListListings ==
    ASSUME IInv, ListingsAreTheirsToMake, NEW by, NEW id, NEW term_secs, List(by, id, term_secs)
    PROVE  ListingsAreTheirsToMake'
<1>. DEFINE chain == rights[id].holdings
            listing == [by |-> by, term_secs |-> term_secs]
<1>1. /\ id \in DOMAIN rights /\ Holder(id).holder = by
      /\ term_secs = None => Holder(id).expires_at = None
    BY Zenon DEF List, ListError, Ok
<1>2. /\ DOMAIN listings' = DOMAIN listings \cup {id} /\ listings'[id] = listing
      /\ \A k \in DOMAIN listings \ {id} : listings'[k] = listings[k]
      /\ rights' = rights /\ now' = now
    BY DEF List, Put
<1>3. now \in Nat
    BY DEF IInv, TypeOK
<1>4. TheirsToMake(listing, chain, now)
    <2>1. /\ chain[1].expires_at = None
          /\ \/ Holder(id) = chain[1]
             \/ Len(chain) = 2 /\ Holder(id) = chain[2] /\ chain[2].expires_at \in Nat
          /\ chain \in Seq(Holding) /\ Len(chain) \in {1, 2}
        BY <1>1, <1>3, StoredChain DEF Holder, Right
    <2>2. \E k \in DOMAIN chain : Holder(id) = chain[k]
        BY <1>1, <1>3, <2>1, StoredChain DEF Right
    <2>3. Holder(id).expires_at = None => Holder(id) = chain[1]
        BY <2>1, HoldingChainAssumption
    <2>. QED
        BY <1>1, <2>2, <2>3 DEF TheirsToMake, Holder
<1>5. \A k \in DOMAIN listings : TheirsToMake(listings[k], rights[k].holdings, now)
    BY DEF ListingsAreTheirsToMake, TheirsToMake, Holder, TitleHolder
<1>6. \A k \in DOMAIN listings' : TheirsToMake(listings'[k], rights'[k].holdings, now')
    BY <1>2, <1>4, <1>5
<1>. QED
    BY <1>6 DEF ListingsAreTheirsToMake, TheirsToMake, Holder, TitleHolder

LEMMA NextListings == IInv /\ ListingsAreTheirsToMake /\ [Next]_vars => ListingsAreTheirsToMake'
<1>. SUFFICES ASSUME IInv, ListingsAreTheirsToMake, [Next]_vars PROVE ListingsAreTheirsToMake'
    OBVIOUS
<1>0. /\ now \in Nat /\ next_id \notin DOMAIN rights
      /\ DOMAIN listings \subseteq DOMAIN rights
    BY DEF IInv, TypeOK
<1>1. ASSUME UNCHANGED <<now, rights, listings>> PROVE ListingsAreTheirsToMake'
    BY <1>0, <1>1, ListingsKept
<1>2. CASE UNCHANGED vars
    BY <1>1, <1>2 DEF vars
<1>3. ASSUME NEW owner, NEW window, NEW commitment, Issue(owner, window, commitment)
      PROVE  ListingsAreTheirsToMake'
    <2>1. \A k \in DOMAIN rights : rights'[k] = rights[k]
        BY <1>0, <1>3 DEF Issue, Put
    <2>. QED
        BY <1>0, <1>3, <2>1, ListingsKept DEF Issue
<1>4. ASSUME NEW by, NEW id, NEW term_secs, List(by, id, term_secs)
      PROVE  ListingsAreTheirsToMake'
    BY <1>4, ListListings
<1>5. ASSUME NEW by, NEW id, Unlist(by, id)
      PROVE  ListingsAreTheirsToMake'
    BY <1>0, <1>5, ListingsKept DEF Unlist, Remove
<1>6. ASSUME NEW by, NEW id, Burn(by, id)
      PROVE  ListingsAreTheirsToMake'
    <2>1. /\ DOMAIN listings' \subseteq DOMAIN listings
          /\ \A k \in DOMAIN listings' : listings'[k] = listings[k] /\ rights'[k] = rights[k]
        BY <1>0, <1>6 DEF Burn, Remove
    <2>. QED
        BY <1>0, <1>6, <2>1, ListingsKept DEF Burn
<1>7. ASSUME NEW from, NEW to, NEW id, NEW expires_at \in EndTimes \cup {None},
             Submit(from, to, id, expires_at)
      PROVE  ListingsAreTheirsToMake'
    <2>1. PICK p, signed : p \in Signals /\ Transfer(from, to, id, expires_at, p, signed)
        BY <1>7, SubmittedSignals DEF Submit, IInv
    <2>2. Effect(to, id, expires_at, p)
        BY <2>1, TransferEffect DEF EndTimes
    <2>3. /\ DOMAIN listings' \subseteq DOMAIN listings
          /\ \A k \in DOMAIN listings' : listings'[k] = listings[k] /\ rights'[k] = rights[k]
        BY <1>0, <2>1, <2>2 DEF Transfer, Remove, Effect
    <2>4. now' = now
        BY <2>1 DEF Transfer
    <2>. QED
        BY <1>0, <2>3, <2>4, ListingsKept
<1>8. CASE LedgerClose
    <2>1. now' \in Nat /\ now' >= now /\ UNCHANGED <<rights, listings>>
        BY <1>0, <1>8, QuietStayRightsAssumption DEF LedgerClose, records
    <2>. QED
        BY <2>1, ListingsKept
<1>. QED
    BY <1>2, <1>3, <1>4, <1>5, <1>6, <1>7, <1>8 DEF Next

-----------------------------------------------------------------------------
(* Balances *)

Titles(a) == {id \in DOMAIN rights : TitleHolder(id) = a}

LEMMA TitlesAreFinite == ASSUME TypeOK, NEW a PROVE IsFiniteSet(Titles(a))
<1>1. next_id - 1 \in Int
    BY DEF TypeOK
<1>2. IsFiniteSet(1..(next_id - 1))
    BY <1>1, FS_Interval
<1>3. Titles(a) \subseteq 1..(next_id - 1)
    BY DEF Titles, TypeOK
<1>. QED
    BY <1>2, <1>3, FS_Subset

\* Issuing counts the new week to its owner.
LEMMA IssueBalances ==
    ASSUME IInv, BalancesCountTitles, NEW owner, NEW window, NEW commitment,
           Issue(owner, window, commitment)
    PROVE  BalancesCountTitles'
<1>1. owner \in Accounts
    BY Zenon DEF Issue, IssueError, Ok
<1>2. /\ next_id \notin DOMAIN rights
      /\ DOMAIN rights' = DOMAIN rights \cup {next_id}
      /\ rights'[next_id].holdings[1].holder = owner
      /\ \A k \in DOMAIN rights : rights'[k].holdings[1].holder = TitleHolder(k)
    BY DEF Issue, Put, TitleOf, IInv, TypeOK, TitleHolder
<1>3. /\ Titles(owner)' = Titles(owner) \cup {next_id}
      /\ next_id \notin Titles(owner)
      /\ \A a \in Accounts \ {owner} : Titles(a)' = Titles(a)
    BY <1>2 DEF Titles, TitleHolder
<1>4. Cardinality(Titles(owner)') = Cardinality(Titles(owner)) + 1
    BY <1>3, TitlesAreFinite, FS_AddElement DEF IInv
<1>5. balances' = [balances EXCEPT ![owner] = @ + 1] /\ balances \in [Accounts -> Int]
    BY DEF Issue, IInv, TypeOK
<1>6. \A a \in Accounts : balances[a] = Cardinality(Titles(a))
    BY DEF BalancesCountTitles, Titles
<1>7. \A a \in Accounts : balances'[a] = Cardinality(Titles(a)')
    BY <1>1, <1>3, <1>4, <1>5, <1>6
<1>. QED
    BY <1>7 DEF BalancesCountTitles, Titles

\* Burning takes one from the account in possession, which holds title.
LEMMA BurnBalances ==
    ASSUME IInv, BalancesCountTitles, NEW from \in Accounts, NEW id, Burn(from, id)
    PROVE  BalancesCountTitles'
<1>1. id \in DOMAIN rights /\ Holder(id).holder = from /\ Holder(id).expires_at = None
    BY Zenon DEF Burn, BurnError, Ok
<1>2. TitleHolder(id) = from
    BY <1>1, OpenEndedMeansLapsed DEF TitleHolder
<1>3. /\ DOMAIN rights' = DOMAIN rights \ {id}
      /\ \A k \in DOMAIN rights' : TitleHolder(k)' = TitleHolder(k)
    BY DEF Burn, Remove, TitleHolder
<1>4. /\ Titles(from)' = Titles(from) \ {id} /\ id \in Titles(from)
      /\ \A a \in Accounts \ {from} : Titles(a)' = Titles(a)
    BY <1>1, <1>2, <1>3 DEF Titles
<1>5. Cardinality(Titles(from)') = Cardinality(Titles(from)) - 1
    BY <1>4, TitlesAreFinite, FS_RemoveElement DEF IInv
<1>6. balances' = [balances EXCEPT ![from] = @ - 1] /\ balances \in [Accounts -> Int]
    BY DEF Burn, IInv, TypeOK
<1>7. \A a \in Accounts : balances[a] = Cardinality(Titles(a))
    BY DEF BalancesCountTitles, Titles
<1>8. \A a \in Accounts : balances'[a] = Cardinality(Titles(a)')
    BY <1>4, <1>5, <1>6, <1>7
<1>. QED
    BY <1>8 DEF BalancesCountTitles, Titles

\* A sale moves one from the seller, who holds title, to the buyer; a rental none.
LEMMA TransferBalances ==
    ASSUME IInv, BalancesCountTitles, NEW from, NEW to, NEW id,
           NEW expires_at \in Nat \cup {None}, NEW p \in Signals, NEW signed,
           Transfer(from, to, id, expires_at, p, signed)
    PROVE  BalancesCountTitles'
<1>1. TransferError(from, to, id, expires_at, p, signed) = Ok
    BY DEF Transfer
<1>2. /\ id \in DOMAIN rights /\ from \in Accounts /\ to \in Accounts
      /\ from = TitleHolder(id) /\ from # to
    BY <1>1, TransferOk, OnlyTheTitleHolderGrants, GrantOk
<1>3. /\ DOMAIN rights' = DOMAIN rights
      /\ \A k \in DOMAIN rights \ {id} : TitleHolder(k)' = TitleHolder(k)
      /\ TitleHolder(id)' = IF expires_at = None THEN to ELSE TitleHolder(id)
    <2>1. Effect(to, id, expires_at, p)
        BY TransferEffect
    <2>. QED
        BY <2>1 DEF Effect, TitleHolder
<1>4. \A a \in Accounts : balances[a] = Cardinality(Titles(a))
    BY DEF BalancesCountTitles, Titles
<1>5. balances' = MoveTitle(from, to, expires_at) /\ balances \in [Accounts -> Int]
    BY DEF Transfer, IInv, TypeOK
<1>6. \A a \in Accounts : balances'[a] = Cardinality(Titles(a)')
    <2>1. CASE expires_at # None
        <3>1. \A a \in Accounts : Titles(a)' = Titles(a)
            BY <2>1, <1>3 DEF Titles
        <3>. QED
            BY <2>1, <3>1, <1>4, <1>5 DEF MoveTitle
    <2>2. CASE expires_at = None
        <3>1. /\ Titles(from)' = Titles(from) \ {id} /\ id \in Titles(from)
              /\ Titles(to)' = Titles(to) \cup {id} /\ id \notin Titles(to)
              /\ \A a \in Accounts \ {from, to} : Titles(a)' = Titles(a)
            BY <2>2, <1>2, <1>3 DEF Titles
        <3>2. /\ Cardinality(Titles(from)') = Cardinality(Titles(from)) - 1
              /\ Cardinality(Titles(to)') = Cardinality(Titles(to)) + 1
            <4>1. IsFiniteSet(Titles(from)) /\ IsFiniteSet(Titles(to))
                BY TitlesAreFinite DEF IInv
            <4>2. Cardinality(Titles(from) \ {id}) = Cardinality(Titles(from)) - 1
                BY <3>1, <4>1, FS_RemoveElement
            <4>3. Cardinality(Titles(to) \cup {id}) = Cardinality(Titles(to)) + 1
                BY <3>1, <4>1, FS_AddElement
            <4>. QED
                BY <3>1, <4>2, <4>3
        <3>3. balances' = [balances EXCEPT ![from] = @ - 1, ![to] = @ + 1]
            BY <2>2, <1>5 DEF MoveTitle
        <3>4. /\ balances'[from] = balances[from] - 1 /\ balances'[to] = balances[to] + 1
              /\ \A a \in Accounts \ {from, to} : balances'[a] = balances[a]
            BY <3>3, <1>2, <1>5
        <3>. QED
            BY <3>1, <3>2, <3>4, <1>2, <1>4
    <2>. QED
        BY <2>1, <2>2
<1>. QED
    BY <1>6 DEF BalancesCountTitles, Titles

LEMMA NextBalances == IInv /\ BalancesCountTitles /\ [Next]_vars => BalancesCountTitles'
<1>. SUFFICES ASSUME IInv, BalancesCountTitles, [Next]_vars PROVE BalancesCountTitles'
    OBVIOUS
<1>1. ASSUME UNCHANGED <<rights, balances>> PROVE BalancesCountTitles'
    BY <1>1 DEF BalancesCountTitles, TitleHolder
<1>2. CASE UNCHANGED vars
    BY <1>1, <1>2 DEF vars
<1>3. ASSUME NEW owner, NEW window, NEW commitment, Issue(owner, window, commitment)
      PROVE  BalancesCountTitles'
    BY <1>3, IssueBalances
<1>4. ASSUME NEW by \in Accounts, NEW id,
             \/ \E term_secs \in ListTerms \cup {None} : List(by, id, term_secs)
             \/ Unlist(by, id)
             \/ Burn(by, id)
      PROVE  BalancesCountTitles'
    BY <1>1, <1>4, BurnBalances DEF List, Unlist
<1>5. ASSUME NEW from, NEW to, NEW id, NEW expires_at \in EndTimes \cup {None},
             Submit(from, to, id, expires_at)
      PROVE  BalancesCountTitles'
    <2>1. PICK p, signed : p \in Signals /\ Transfer(from, to, id, expires_at, p, signed)
        BY <1>5, SubmittedSignals DEF Submit, IInv
    <2>. QED
        BY <2>1, TransferBalances DEF EndTimes
<1>6. CASE LedgerClose
    BY <1>1, <1>6 DEF LedgerClose, records
<1>. QED
    BY <1>2, <1>3, <1>4, <1>5, <1>6 DEF Next

-----------------------------------------------------------------------------
(* The contract implements WeekOwnership                                    *)

\* What WeekOwnership sees of a chain beside its title holder.
TenancyOf(chain) ==
    IF Len(chain) < 2 THEN None
    ELSE [tenant |-> chain[2].holder, until |-> chain[2].expires_at]

WeekTitles == [id \in DOMAIN rights |-> TitleHolder(id)]
WeekWindows == [id \in DOMAIN rights |-> rights[id].validity]
WeekTenancies == [id \in DOMAIN rights |-> TenancyOf(rights[id].holdings)]

\* A week none of whose terms is running has no tenant.
LEMMA NobodyRents ==
    ASSUME IInv, NEW id \in DOMAIN rights,
           Holder(id).expires_at = None \/ LiveLength(rights[id].holdings, now) = 1
    PROVE  TenancyOf(rights[id].holdings) # None =>
                ~(TenancyOf(rights[id].holdings).until > now)
<1>. DEFINE chain == rights[id].holdings
<1>1. now \in Nat
    BY DEF IInv, TypeOK
<1>2. /\ Len(chain) = 1 \/ Len(chain) = 2
      /\ Len(chain) = 2 => chain[2].expires_at \in Nat
    BY <1>1, StoredChain
<1>3. Len(chain) = 2 => Lapsed(chain[2], now)
    BY <1>2, OpenEndedMeansLapsed
<1>4. Len(chain) = 2 => ~(chain[2].expires_at > now)
    BY <1>1, <1>2, <1>3 DEF Lapsed
<1>. QED
    BY <1>2, <1>4 DEF TenancyOf

LEMMA IssueMints ==
    ASSUME IInv, NEW owner, NEW window \in Windows, NEW commitment,
           Issue(owner, window, commitment)
    PROVE  Weeks!Next
<1>1. owner \in Accounts /\ ~(window.validity.from >= window.validity.until)
    BY Zenon DEF Issue, IssueError, Ok
<1>2. /\ window.validity.from \in Nat /\ window.validity.until \in Nat
      /\ window.validity = [from |-> window.validity.from, until |-> window.validity.until]
      /\ window.validity.from \in Times /\ window.validity.until \in Times
    BY QuietStayRightsAssumption DEF Times
<1>. DEFINE from == window.validity.from
            until == window.validity.until
<1>3. next_id \in Nat /\ next_id' = next_id + 1 /\ now' = now
    BY DEF Issue, IInv, TypeOK
<1>4. /\ DOMAIN rights' = DOMAIN rights \cup {next_id}
      /\ rights'[next_id].validity = window.validity
      /\ rights'[next_id].holdings = <<TitleOf(owner)>>
      /\ next_id \notin DOMAIN rights
      /\ \A k \in DOMAIN rights : rights'[k] = rights[k]
    BY DEF Issue, Put, IInv, TypeOK
<1>5. WeekTitles' = Weeks!With(WeekTitles, next_id, owner)
    BY <1>4 DEF WeekTitles, TitleHolder, TitleOf, Weeks!With
<1>6. WeekWindows' = Weeks!With(WeekWindows, next_id, [from |-> from, until |-> until])
    BY <1>2, <1>4 DEF WeekWindows, Weeks!With
<1>7. WeekTenancies' = Weeks!With(WeekTenancies, next_id, None)
    BY <1>4 DEF WeekTenancies, TenancyOf, Weeks!With
<1>8. next_id' - 1 = next_id /\ next_id' - 1 = (next_id - 1) + 1 /\ from < until
    BY <1>1, <1>2, <1>3
<1>9. Weeks!Mint(owner, from, until)
    BY <1>3, <1>5, <1>6, <1>7, <1>8
       DEF Weeks!Mint, WeekTitles, WeekWindows, WeekTenancies, TenancyOf
<1>. QED
    BY <1>1, <1>2, <1>9 DEF Weeks!Next

LEMMA BurnRetires ==
    ASSUME IInv, NEW from, NEW id, Burn(from, id)
    PROVE  Weeks!Next
<1>1. id \in DOMAIN rights /\ Holder(id).expires_at = None
    BY Zenon DEF Burn, BurnError, Ok
<1>2. /\ DOMAIN rights' = DOMAIN rights \ {id}
      /\ \A k \in DOMAIN rights' : rights'[k] = rights[k]
      /\ now' = now /\ next_id' = next_id
    BY DEF Burn, Remove
<1>3. /\ WeekTitles' = Weeks!Without(WeekTitles, id)
      /\ WeekWindows' = Weeks!Without(WeekWindows, id)
      /\ WeekTenancies' = Weeks!Without(WeekTenancies, id)
    BY <1>2 DEF WeekTitles, WeekWindows, WeekTenancies, TitleHolder, Weeks!Without
<1>4. WeekTenancies[id] # None => ~(WeekTenancies[id].until > now)
    BY <1>1, NobodyRents DEF WeekTenancies
<1>5. Weeks!Retire(id)
    BY <1>2, <1>3, <1>4
       DEF Weeks!Retire, Weeks!Tenanted, WeekTitles, WeekWindows, WeekTenancies, TenancyOf
<1>. QED
    BY <1>1, <1>5 DEF Weeks!Next

LEMMA TransferSellsOrLets ==
    ASSUME IInv, NEW from, NEW to, NEW id, NEW expires_at \in EndTimes \cup {None},
           NEW p \in Signals, NEW signed,
           Transfer(from, to, id, expires_at, p, signed)
    PROVE  Weeks!Next
<1>1. TransferError(from, to, id, expires_at, p, signed) = Ok
    BY DEF Transfer
<1>2. /\ id \in DOMAIN rights /\ to \in Accounts /\ from # to
      /\ from = TitleHolder(id) /\ LiveLength(rights[id].holdings, now) = 1
      /\ ActiveError(rights[id].validity, now) = Ok
      /\ expires_at # None =>
            ~(expires_at <= now) /\ ~(expires_at > rights[id].validity.until)
    BY <1>1, TransferOk, OnlyTheTitleHolderGrants, GrantOk
<1>3. Effect(to, id, expires_at, p)
    BY TransferEffect DEF EndTimes
<1>4. /\ rights[id] \in Right /\ now \in Nat
      /\ rights[id].validity.from \in Nat /\ rights[id].validity.until \in Nat
    BY <1>2 DEF IInv, TypeOK, Right
<1>5. rights[id].validity.from <= now /\ now < rights[id].validity.until
    <2>1. ~(now < rights[id].validity.from) /\ ~(now >= rights[id].validity.until)
        BY <1>2, Zenon DEF ActiveError, Ok
    <2>. QED
        BY <1>4, <2>1
<1>6. now' = now /\ next_id' = next_id
    BY DEF Transfer
<1>7. /\ DOMAIN rights' = DOMAIN rights
      /\ \A k \in DOMAIN rights \ {id} : rights'[k] = rights[k]
      /\ rights'[id].validity = rights[id].validity
    BY <1>3 DEF Effect
<1>8. Weeks!Open(id) /\ to # WeekTitles[id]
    BY <1>2, <1>5 DEF Weeks!Open, WeekTitles
<1>9. WeekTenancies[id] # None => ~(WeekTenancies[id].until > now)
    BY <1>2, NobodyRents DEF WeekTenancies
<1>10. WeekWindows' = WeekWindows
    BY <1>7 DEF WeekWindows
<1>11. CASE expires_at = None
    <2>1. Len(rights'[id].holdings) = 1 /\ rights'[id].holdings[1].holder = to
        BY <1>3, <1>11 DEF Effect
    <2>2. WeekTitles' = [WeekTitles EXCEPT ![id] = to]
        BY <1>2, <1>7, <2>1 DEF WeekTitles, TitleHolder
    <2>3. WeekTenancies' = [WeekTenancies EXCEPT ![id] = None]
        <3>1. TenancyOf(rights'[id].holdings) = None
            BY <2>1 DEF TenancyOf
        <3>. QED
            BY <1>2, <1>7, <3>1 DEF WeekTenancies
    <2>4. Weeks!Sell(id, to)
        BY <1>6, <1>8, <1>9, <1>10, <2>2, <2>3
           DEF Weeks!Sell, Weeks!Tenanted, WeekTitles, WeekWindows, WeekTenancies, TenancyOf
    <2>. QED
        BY <1>2, <2>4 DEF Weeks!Next
<1>12. CASE expires_at # None
    <2>1. /\ Len(rights'[id].holdings) = 2
          /\ rights'[id].holdings[1].holder = TitleHolder(id)
        BY <1>3, <1>12 DEF Effect
    <2>2. rights'[id].holdings[2] = [holder |-> to, expires_at |-> expires_at]
        <3>1. /\ rights[id].holdings \in Seq(Holding) /\ Len(rights[id].holdings) >= 1
              /\ expires_at \in Nat \cup {None}
            BY <1>1, OnlyTheTitleHolderGrants DEF EndTimes
        <3>2. Grant(rights[id].holdings, to, expires_at, now)[
                    Len(Grant(rights[id].holdings, to, expires_at, now))]
                = [holder |-> to, expires_at |-> expires_at]
            BY <1>2, <1>4, <3>1, GrantTyped
        <3>. QED
            BY <1>3, <2>1, <3>2 DEF Effect
    <2>3. WeekTitles' = WeekTitles
        BY <1>2, <1>7, <2>1 DEF WeekTitles, TitleHolder
    <2>4. WeekTenancies' =
            [WeekTenancies EXCEPT ![id] = [tenant |-> to, until |-> expires_at]]
        <3>1. TenancyOf(rights'[id].holdings) = [tenant |-> to, until |-> expires_at]
            BY <2>1, <2>2 DEF TenancyOf
        <3>. QED
            BY <1>2, <1>7, <3>1 DEF WeekTenancies
    <2>5. expires_at \in Nat /\ now < expires_at /\ expires_at <= WeekWindows[id].until
        BY <1>2, <1>4, <1>12 DEF EndTimes, WeekWindows
    <2>6. Weeks!Let(id, to, expires_at)
        BY <1>6, <1>8, <1>9, <1>10, <2>3, <2>4, <2>5
           DEF Weeks!Let, Weeks!Tenanted, WeekTitles, WeekWindows, WeekTenancies, TenancyOf
    <2>. QED
        BY <1>2, <1>12, <2>6 DEF Weeks!Next, Times
<1>. QED
    BY <1>11, <1>12

LEMMA NextWeeks == IInv /\ [Next]_vars => [Weeks!Next]_(Weeks!vars)
<1>. SUFFICES ASSUME IInv, [Next]_vars PROVE Weeks!Next \/ UNCHANGED Weeks!vars
    OBVIOUS
<1>1. ASSUME UNCHANGED <<now, next_id, rights>> PROVE UNCHANGED Weeks!vars
    BY <1>1 DEF Weeks!vars, TitleHolder
<1>2. CASE UNCHANGED vars
    BY <1>1, <1>2 DEF vars
<1>3. ASSUME NEW owner, NEW window \in Windows, NEW commitment, Issue(owner, window, commitment)
      PROVE  Weeks!Next
    BY <1>3, IssueMints
<1>4. ASSUME NEW by, NEW id,
             \/ \E term_secs \in ListTerms \cup {None} : List(by, id, term_secs)
             \/ Unlist(by, id)
      PROVE  UNCHANGED Weeks!vars
    BY <1>1, <1>4 DEF List, Unlist
<1>5. ASSUME NEW by, NEW id, Burn(by, id)
      PROVE  Weeks!Next
    BY <1>5, BurnRetires
<1>6. ASSUME NEW from, NEW to, NEW id, NEW expires_at \in EndTimes \cup {None},
             Submit(from, to, id, expires_at)
      PROVE  Weeks!Next
    <2>1. PICK p, signed : p \in Signals /\ Transfer(from, to, id, expires_at, p, signed)
        BY <1>6, SubmittedSignals DEF Submit, IInv
    <2>. QED
        BY <2>1, TransferSellsOrLets
<1>7. CASE LedgerClose
    <2>1. now' \in Nat /\ now' > now
        BY <1>7, QuietStayRightsAssumption DEF LedgerClose, IInv, TypeOK
    <2>2. UNCHANGED <<next_id, rights>>
        BY <1>7 DEF LedgerClose, records
    <2>3. Weeks!Tick
        BY <2>1, <2>2 DEF Weeks!Tick, TitleHolder
    <2>. QED
        BY <2>3 DEF Weeks!Next
<1>. QED
    BY <1>2, <1>3, <1>4, <1>5, <1>6, <1>7 DEF Next

LEMMA InitWeeks == Init => Weeks!Init
BY DEF Init, Weeks!Init, TitleHolder

-----------------------------------------------------------------------------
(* Theorems about what is stored beside the chains, and about all of it     *)

\* Whoever a week is listed by is its title holder or its last renter; only a
\* running term's own renter lists it, and only for a term.
THEOREM ListersAreHolders == Spec => []ListingsAreTheirsToMake
<1>1. Init => ListingsAreTheirsToMake
    BY DEF Init, ListingsAreTheirsToMake
<1>. QED
    BY <1>1, NextListings, Inductive, PTL DEF Spec

\* The separate counter of balance() is the number of titles, for every account.
THEOREM BalancesAreTitles == Spec => []BalancesCountTitles
<1>1. Init => BalancesCountTitles
    <2>. SUFFICES ASSUME Init, NEW a \in Accounts
                  PROVE  balances[a] = Cardinality({id \in DOMAIN rights : TitleHolder(id) = a})
        BY DEF BalancesCountTitles
    <2>1. balances[a] = 0 /\ {id \in DOMAIN rights : TitleHolder(id) = a} = {}
        BY DEF Init
    <2>. QED
        BY <2>1, FS_EmptySet
<1>. QED
    BY <1>1, NextBalances, Inductive, PTL DEF Spec

\* The contract, proofs, chains, errors and all, does nothing that a register of
\* titles and single tenancies may not do.
THEOREM ContractIsAWeekRegister == Spec => ImplementsWeeks
BY InitWeeks, NextWeeks, Inductive, PTL DEF Spec, ImplementsWeeks, Weeks!Spec

-----------------------------------------------------------------------------
(* Theorems about what the pages make of it                                *)

\* What the filters rely on without looking: a stay ends inside its window, and
\* a listing is made when the window is open already.
ShopInv ==
    /\ \A id \in DOMAIN rights : rights[id].period.end <= rights[id].validity.until
    /\ \A id \in DOMAIN listings : rights[id].validity.from <= now

LEMMA NextShopInv == IInv /\ ShopInv /\ [Next]_vars => ShopInv'
<1>. SUFFICES ASSUME IInv, ShopInv, [Next]_vars PROVE ShopInv'
    OBVIOUS
<1>0. /\ now \in Nat /\ next_id \notin DOMAIN rights
      /\ DOMAIN listings \subseteq DOMAIN rights
      /\ \A id \in DOMAIN rights : /\ rights[id].validity.from \in Nat
                                   /\ rights[id].validity.until \in Nat
    BY DEF IInv, TypeOK, Right
<1>1. ASSUME now' \in Nat, now' >= now,
             DOMAIN rights' \subseteq DOMAIN rights, DOMAIN listings' \subseteq DOMAIN listings,
             \A id \in DOMAIN rights' : /\ rights'[id].period = rights[id].period
                                        /\ rights'[id].validity = rights[id].validity,
             DOMAIN listings' \subseteq DOMAIN rights'
      PROVE  ShopInv'
    BY <1>0, <1>1 DEF ShopInv
<1>2. CASE UNCHANGED vars
    BY <1>0, <1>1, <1>2 DEF vars
<1>3. ASSUME NEW owner, NEW window \in Windows, NEW commitment, Issue(owner, window, commitment)
      PROVE  ShopInv'
    <2>1. ~(window.period.end > window.validity.until)
        BY <1>3, Zenon DEF Issue, IssueError, Ok
    <2>2. window.period.end \in Nat /\ window.validity.until \in Nat
        BY QuietStayRightsAssumption
    <2>3. /\ DOMAIN rights' = DOMAIN rights \cup {next_id}
          /\ rights'[next_id].period = window.period
          /\ rights'[next_id].validity = window.validity
          /\ \A k \in DOMAIN rights : rights'[k] = rights[k]
          /\ listings' = listings /\ now' = now
        BY <1>0, <1>3 DEF Issue, Put
    <2>. QED
        BY <1>0, <2>1, <2>2, <2>3 DEF ShopInv
<1>4. ASSUME NEW by, NEW id, NEW term_secs, List(by, id, term_secs)
      PROVE  ShopInv'
    <2>1. id \in DOMAIN rights /\ ActiveError(rights[id].validity, now) = Ok
        BY <1>4, Zenon DEF List, ListError, Ok
    <2>2. ~(now < rights[id].validity.from)
        BY <2>1, Zenon DEF ActiveError, Ok
    <2>3. DOMAIN listings' = DOMAIN listings \cup {id} /\ rights' = rights /\ now' = now
        BY <1>4 DEF List, Put
    <2>. QED
        BY <1>0, <2>1, <2>2, <2>3 DEF ShopInv
<1>5. ASSUME NEW by, NEW id, Unlist(by, id)
      PROVE  ShopInv'
    BY <1>0, <1>1, <1>5 DEF Unlist, Remove
<1>6. ASSUME NEW by, NEW id, Burn(by, id)
      PROVE  ShopInv'
    BY <1>0, <1>1, <1>6 DEF Burn, Remove
<1>7. ASSUME NEW from, NEW to, NEW id, NEW expires_at \in EndTimes \cup {None},
             Submit(from, to, id, expires_at)
      PROVE  ShopInv'
    <2>1. PICK p, signed : p \in Signals /\ Transfer(from, to, id, expires_at, p, signed)
        BY <1>7, SubmittedSignals DEF Submit, IInv
    <2>2. Effect(to, id, expires_at, p)
        BY <2>1, TransferEffect DEF EndTimes
    <2>3. DOMAIN listings' \subseteq DOMAIN listings /\ now' = now
        BY <2>1 DEF Transfer, Remove
    <2>. QED
        BY <1>0, <1>1, <2>2, <2>3 DEF Effect
<1>8. CASE LedgerClose
    <2>1. now' \in Nat /\ now' >= now /\ UNCHANGED <<rights, listings>>
        BY <1>0, <1>8, QuietStayRightsAssumption DEF LedgerClose, records
    <2>. QED
        BY <1>0, <1>1, <2>1
<1>. QED
    BY <1>2, <1>3, <1>4, <1>5, <1>6, <1>7, <1>8 DEF Next

LEMMA SpecShopInv == Spec => []ShopInv
<1>1. Init => ShopInv
    BY DEF Init, ShopInv
<1>. QED
    BY <1>1, NextShopInv, Inductive, PTL DEF Spec

-----------------------------------------------------------------------------
(* Lemmas about one week                                                    *)

\* An open window, as the contract's own check finds it.
LEMMA OpenIsActive ==
    ASSUME IInv, NEW id \in DOMAIN rights
    PROVE  ActiveError(rights[id].validity, now) = Ok <=>
                rights[id].validity.from <= now /\ now < rights[id].validity.until
<1>1. /\ now \in Nat /\ rights[id].validity.from \in Nat
      /\ rights[id].validity.until \in Nat
    BY DEF IInv, TypeOK, Right
<1>. QED
    BY <1>1 DEF ActiveError, Ok

\* The title holder in possession is granted every sale, and every rental that ends
\* in the future and inside the window.
LEMMA TitleHolderIsGranted ==
    ASSUME IInv, NEW id \in DOMAIN rights, NEW to,
           Holder(id).holder = TitleHolder(id), to # TitleHolder(id)
    PROVE  LET Tried(t) == GrantError(rights[id].holdings, rights[id].validity.until,
                                      TitleHolder(id), to, t, now)
           IN /\ Tried(None) = Ok
              /\ \A t \in Nat : now < t /\ t <= rights[id].validity.until => Tried(t) = Ok
<1>. DEFINE chain == rights[id].holdings
<1>1. now \in Nat /\ rights[id].validity.until \in Nat
    BY DEF IInv, TypeOK, Right
<1>2. /\ chain[1].expires_at = None
      /\ EffectiveHolding(chain, now) = chain[1] /\ LiveLength(chain, now) = 1
    <2>1. Len(chain) = 2 => chain[2].holder # chain[1].holder
        BY <1>1, StoredChain
    <2>2. EffectiveHolding(chain, now).holder = chain[1].holder
        BY DEF Holder, TitleHolder
    <2>3. \/ Len(chain) = 2 /\ EffectiveHolding(chain, now) = chain[2]
          \/ LiveLength(chain, now) = 1 /\ EffectiveHolding(chain, now) = chain[1]
        BY <1>1, StoredChain
    <2>. QED
        BY <1>1, <2>1, <2>2, <2>3, StoredChain
<1>3. GrantError(chain, rights[id].validity.until, TitleHolder(id), to, None, now) = Ok
    BY <1>2 DEF GrantError, TitleHolder
<1>4. ASSUME NEW t \in Nat, now < t, t <= rights[id].validity.until
      PROVE  GrantError(chain, rights[id].validity.until, TitleHolder(id), to, t, now) = Ok
    <2>1. t # None /\ ~(t <= now) /\ ~(t > rights[id].validity.until)
        BY <1>1, <1>4, HoldingChainAssumption
    <2>2. ~(1 >= MaxHoldingDepth)
        BY HoldingChainAssumption, ShopAssumption
    <2>. QED
        BY <1>2, <2>1, <2>2 DEF GrantError, TitleHolder
<1>. QED
    BY <1>3, <1>4

-----------------------------------------------------------------------------
(* Theorems                                                                 *)

LEMMA ShopIsOpen == IInv /\ ShopInv => ShopWindowCanBeTaken
<1>. SUFFICES ASSUME IInv, ShopInv, NEW id \in DOMAIN rights,
                     NEW to \in Accounts \ {TitleHolder(id)}
              PROVE  LET row == Row(id) IN
                     /\ Matches(row, "sale", to) => Granted(id, TitleHolder(id), to, None)
                     /\ Matches(row, "rent", to) =>
                            Granted(id, TitleHolder(id), to, row.week.end)
    BY DEF ShopWindowCanBeTaken, Registry, Row
<1>. DEFINE row == Row(id)
<1>1. ASSUME row.listing # None, ~IsBlocked(row)
      PROVE  /\ Granted(id, TitleHolder(id), to, None)
             /\ Granted(id, TitleHolder(id), to, row.week.end)
    <2>1. /\ id \in DOMAIN listings /\ Holder(id).expires_at = None
          /\ ~(rights[id].period.end <= now)
        BY <1>1 DEF Row, IsBlocked, IsSublet, WeekIsOver
    <2>2. /\ now \in Nat /\ rights[id].period.end \in Nat
          /\ rights[id].validity.until \in Nat
        BY DEF IInv, TypeOK, Right
    <2>3. /\ rights[id].validity.from <= now
          /\ rights[id].period.end <= rights[id].validity.until
        BY <2>1 DEF ShopInv
    <2>4. /\ now < rights[id].period.end
          /\ ActiveError(rights[id].validity, now) = Ok
        BY <2>1, <2>2, <2>3, OpenIsActive
    <2>5. Holder(id).holder = TitleHolder(id)
        BY <2>1, OpenEndedMeansLapsed DEF TitleHolder
    <2>. QED
        BY <2>2, <2>3, <2>4, <2>5, TitleHolderIsGranted DEF Granted, Row
<1>. QED
    BY <1>1 DEF Matches

\* Every week shown for sale or for rent is granted, by the contract's own rules,
\* to whoever asks for it.
THEOREM ShopWindowIsHonest == Spec => []ShopWindowCanBeTaken
BY ShopIsOpen, SpecShopInv, Inductive, PTL

LEMMA OffersGranted == IInv => OfferedTransfersAreGranted
<1>. SUFFICES ASSUME IInv, NEW account \in Accounts, NEW o \in OffersToProve(account),
                     NEW to \in Accounts \ {account}
              PROVE  /\ Granted(o.id, account, to, None)
                     /\ ~WeekIsOver(rights[o.id].period.end) =>
                            Granted(o.id, account, to, o.rental_until)
    BY DEF OfferedTransfersAreGranted
<1>1. PICK id \in DOMAIN rights :
        /\ o.id = id /\ TitleHolder(id) = account /\ Holder(id).holder = account
        /\ ActiveError(rights[id].validity, now) = Ok
        /\ o.rental_until = Minimum(rights[id].period.end, rights[id].validity.until)
    <2>1. PICK offer \in TransferableRights(account) :
            /\ offer.maySell
            /\ o = [id |-> offer.right.id, from |-> account,
                    rental_until |-> Minimum(offer.right.week.end, offer.maxTermEnds)]
        BY DEF OffersToProve
    <2>2. PICK row \in Owned(account) :
            /\ row.active
            /\ offer = [right |-> row, maySell |-> TRUE, maxTermEnds |-> row.validity.until]
        BY <2>1 DEF TransferableRights
    <2>3. PICK id \in DOMAIN rights : row = Row(id)
        BY <2>2 DEF Owned, Registry
    <2>. QED
        BY <2>1, <2>2, <2>3 DEF Row, Owned
<1>2. /\ now \in Nat /\ rights[id].period.end \in Nat
      /\ rights[id].validity.until \in Nat
    BY DEF IInv, TypeOK, Right
<1>3. now < rights[id].validity.until
    BY <1>1, OpenIsActive
<1>4. ~WeekIsOver(rights[id].period.end) =>
        /\ o.rental_until \in Nat
        /\ now < o.rental_until /\ o.rental_until <= rights[id].validity.until
    BY <1>1, <1>2, <1>3 DEF WeekIsOver, Minimum
<1>. QED
    BY <1>1, <1>4, TitleHolderIsGranted DEF Granted

\* No command the Transfer screen prints is for a transfer the contract's rules
\* would turn down.
THEOREM OffersAreHonest == Spec => []OfferedTransfersAreGranted
BY OffersGranted, Inductive, PTL

LEMMA TitleHolderIsHeard == IInv => HolderCanAlwaysTransfer
<1>. DEFINE P(id, to, t, h, deadline) ==
                CircuitInput(rights[id].commitment.digest, rights[id].commitment.hash.secret,
                             id, TitleHolder(id), to, t, deadline, h)
            Heard(id, to, t, h, deadline, signed) ==
                LET error == TransferError(TitleHolder(id), to, id, t,
                                           P(id, to, t, h, deadline), signed)
                IN error = Ok \/ (error = "NullifierUsed"
                                    /\ P(id, to, t, h, deadline).nullifier \in spent)
<1>. SUFFICES ASSUME IInv, NEW id \in DOMAIN rights, NEW to \in Accounts,
                     NEW deadline \in ledger..(ledger + MaxProofWindow),
                     ActiveError(rights[id].validity, now) = Ok,
                     Holder(id).holder = TitleHolder(id), to # TitleHolder(id),
                     rights[id].commitment.account = TitleHolder(id),
                     rights[id].commitment.hash # ZeroHash
              PROVE  /\ \A s \in Keeps[to] :
                            Heard(id, to, None, SecretHash(s), deadline, SecretHash(s))
                     /\ \A t \in (now + 1)..rights[id].validity.until :
                            Heard(id, to, t, ZeroHash, deadline, None)
    BY DEF HolderCanAlwaysTransfer
<1>. DEFINE from == TitleHolder(id)
            stored == rights[id].commitment
<1>1. /\ stored \in Commitments /\ from \in Accounts
      /\ stored.hash \in Hashes
      /\ now \in Nat /\ ledger \in Nat /\ rights[id].validity.until \in Nat
      /\ DOMAIN nullifiers \subseteq spent
    <2>1. stored \in Commitments /\ stored.hash \in Hashes
        BY DEF IInv, TypeOK, Right, Commitments
    <2>2. stored.account \in Accounts
        BY <2>1 DEF Commitments
    <2>. QED
        BY <2>1, <2>2 DEF IInv, TypeOK, Right
<1>2. /\ stored.digest \in Digests /\ stored.hash.secret \in Secrets
      /\ stored = Commit(stored.digest, from, SecretHash(stored.hash.secret))
    BY <1>1 DEF Commitments, Hashes, Commit, SecretHash
<1>3. ASSUME NEW t, NEW h, NEW signed,
             (t = None) # (h = ZeroHash), t = None => signed = h,
             GrantError(rights[id].holdings, rights[id].validity.until, from, to, t, now) = Ok
      PROVE  Heard(id, to, t, h, deadline, signed)
    <2>. DEFINE p == P(id, to, t, h, deadline)
    <2>1. /\ p.commitment = stored /\ p.right_id = id /\ p.from = from /\ p.to = to
          /\ p.mode = ModeOf(t) /\ p.expiry_ledger = deadline /\ p.next_secret_hash = h
        BY <1>2 DEF CircuitInput
    <2>2. Satisfies(p, stored.digest, stored.hash.secret)
        BY DEF CircuitInput, Satisfies
    <2>3. Verifies(p)
        BY <1>2, <2>2 DEF Verifies
    <2>4. ~(deadline < ledger) /\ ~(deadline - ledger > MaxProofWindow)
        BY <1>1, QuietStayRightsAssumption
    <2>5. {from, to} \ Accounts = {}
        BY <1>1
    <2>. HIDE DEF p
    <2>6. ProofError(id, from, to, t, p, signed) =
            IF p.nullifier \in DOMAIN nullifiers THEN "NullifierUsed" ELSE Ok
        BY <1>3, <2>1, <2>4, <2>5, Zenon DEF ProofError
    <2>7. TransferError(from, to, id, t, p, signed) =
            IF p.nullifier \in DOMAIN nullifiers THEN "NullifierUsed" ELSE Ok
        BY <1>3, <2>3, <2>6 DEF TransferError, Ok
    <2>. QED
        BY <1>1, <2>7 DEF p
<1>4. ASSUME NEW s \in Keeps[to]
      PROVE  Heard(id, to, None, SecretHash(s), deadline, SecretHash(s))
    <2>1. SecretHash(s) # ZeroHash
        BY QuietStayRightsAssumption, OwnershipProofAssumption DEF SecretHash
    <2>2. GrantError(rights[id].holdings, rights[id].validity.until, from, to, None, now) = Ok
        BY TitleHolderIsGranted
    <2>. QED
        BY <1>3, <2>1, <2>2
<1>5. ASSUME NEW t \in (now + 1)..rights[id].validity.until
      PROVE  Heard(id, to, t, ZeroHash, deadline, None)
    <2>1. t \in Nat /\ now < t /\ t <= rights[id].validity.until /\ t # None
        BY <1>1, HoldingChainAssumption
    <2>2. GrantError(rights[id].holdings, rights[id].validity.until, from, to, t, now) = Ok
        BY <2>1, TitleHolderIsGranted
    <2>. QED
        BY <1>3, <2>1, <2>2
<1>. QED
    BY <1>4, <1>5

\* Nobody is locked out of their week: a fresh proof by the title holder in
\* possession is accepted, unless that very proof was accepted before.
THEOREM NobodyIsLockedOut == Spec => []HolderCanAlwaysTransfer
BY TitleHolderIsHeard, Inductive, PTL
=============================================================================
