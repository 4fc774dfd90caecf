----------------------- MODULE QuietStayRightsProofs -----------------------
(***************************************************************************)
(* Proofs about the rights contract, for any accounts, secrets, records,   *)
(* windows, proof window and minimum TTL, and for any length of history.   *)
(***************************************************************************)
EXTENDS QuietStayRights, FiniteSetTheorems, SequenceTheorems, WellFoundedInduction, TLAPS

-----------------------------------------------------------------------------
(* Lemmas about chains of holdings: operators only, of any length and depth *)

\* Every non-empty set of naturals has a least element.
LEMMA LeastNatural ==
    ASSUME NEW S \in SUBSET Nat, S # {}
    PROVE  \E m \in S : \A k \in S : m <= k
<1>1. \E m \in S : \A k \in S : <<k, m>> \notin OpToRel(<, Nat)
    BY WFMin, NatLessThanWellFounded, Zenon
<1>2. PICK m \in S : \A k \in S : <<k, m>> \notin OpToRel(<, Nat)
    BY <1>1
<1>3. ASSUME NEW k \in S PROVE m <= k
    <2>1. k \in Nat /\ m \in Nat
        OBVIOUS
    <2>2. ~(k < m)
        BY <1>2, <2>1, Zenon DEF OpToRel
    <2>. QED
        BY <2>1, <2>2
<1>. QED
    BY <1>3

\* Popping the lapsed top of a chain stops somewhere: at the title, or at a
\* holding that has not lapsed; and everything above that has.
LEMMA LiveLengthProperty ==
    ASSUME NEW chain \in Seq(Holding), Len(chain) >= 1, NEW t \in Nat
    PROVE  LET n == LiveLength(chain, t) IN
           /\ n \in 1..Len(chain)
           /\ n = 1 \/ ~Lapsed(chain[n], t)
           /\ \A k \in (n + 1)..Len(chain) : Lapsed(chain[k], t)
<1>. DEFINE Top(n) == \A k \in (n + 1)..Len(chain) : Lapsed(chain[k], t)
            S == {n \in 1..Len(chain) : Top(n)}
<1>1. Len(chain) \in S
    OBVIOUS
<1>2. PICK m \in S : \A k \in S : m <= k
    <2>1. S \in SUBSET Nat /\ S # {}
        BY <1>1
    <2>. HIDE DEF S
    <2>. QED
        BY <2>1, LeastNatural
<1>3. m = 1 \/ ~Lapsed(chain[m], t)
    <2>1. SUFFICES ASSUME m # 1, Lapsed(chain[m], t) PROVE FALSE
        OBVIOUS
    <2>2. m \in 2..Len(chain) /\ Top(m)
        BY <2>1
    <2>3. ASSUME NEW k \in m..Len(chain) PROVE Lapsed(chain[k], t)
        BY <2>1, <2>2
    <2>4. m - 1 \in S
        BY <2>2, <2>3
    <2>5. m <= m - 1
        <3>. HIDE DEF S
        <3>. QED
            BY <1>2, <2>4
    <2>. QED
        BY <2>2, <2>5
<1>4. \E n \in 1..Len(chain) :
        /\ n = 1 \/ ~Lapsed(chain[n], t)
        /\ \A k \in (n + 1)..Len(chain) : Lapsed(chain[k], t)
    BY <1>2, <1>3
<1>. QED
    BY <1>4 DEF LiveLength

-----------------------------------------------------------------------------
\* The effective holding of a chain is one of its holdings, and pruning keeps
\* exactly the part of the chain up to it.
LEMMA PruneProperty ==
    ASSUME NEW chain \in Seq(Holding), Len(chain) >= 1, NEW t \in Nat
    PROVE  /\ EffectiveHolding(chain, t) \in Holding
           /\ PruneLapsed(chain, t) \in Seq(Holding)
           /\ Len(PruneLapsed(chain, t)) = LiveLength(chain, t)
           /\ \A k \in 1..LiveLength(chain, t) : PruneLapsed(chain, t)[k] = chain[k]
<1>. DEFINE n == LiveLength(chain, t)
<1>1. n \in 1..Len(chain)
    BY LiveLengthProperty
<1>. HIDE DEF n
<1>2. chain[n] \in Holding
    BY <1>1, ElementOfSeq
<1>3. SubSeq(chain, 1, n) \in Seq(Holding) /\ Len(SubSeq(chain, 1, n)) = n
    BY <1>1, SubSeqProperties
<1>4. \A k \in 1..n : SubSeq(chain, 1, n)[k] = chain[k]
    BY <1>1, SubSeqProperties
<1>. QED
    BY <1>2, <1>3, <1>4 DEF n, PruneLapsed, EffectiveHolding

\* The error operators answer Ok only when every check they make has passed.
LEMMA GrantOk ==
    ASSUME NEW chain, NEW until, NEW from, NEW to, NEW expires_at, NEW t,
           GrantError(chain, until, from, to, expires_at, t) = Ok
    PROVE  LET current == EffectiveHolding(chain, t) IN
           /\ from # to
           /\ current.holder = from
           /\ expires_at = None => current.expires_at = None
           /\ expires_at # None =>
                /\ ~(expires_at <= t)
                /\ ~(expires_at > until)
                /\ current.expires_at # None => ~(expires_at > current.expires_at)
                /\ ~(LiveLength(chain, t) >= MaxHoldingDepth)
BY Zenon DEF GrantError, Ok

\* Granting keeps a chain of holdings a chain of holdings, and well-formed:
\* the shape types.rs promises is kept by store::grant itself, whoever calls it.
LEMMA GrantTyped ==
    ASSUME NEW chain \in Seq(Holding), Len(chain) >= 1, NEW t \in Nat,
           NEW to \in Accounts, NEW expires_at \in Nat \cup {None}
    PROVE  /\ Grant(chain, to, expires_at, t) \in Seq(Holding)
           /\ Len(Grant(chain, to, expires_at, t)) =
                IF expires_at = None THEN 1 ELSE LiveLength(chain, t) + 1
           /\ Grant(chain, to, expires_at, t)[Len(Grant(chain, to, expires_at, t))]
                = [holder |-> to, expires_at |-> expires_at]
           /\ expires_at # None =>
                \A k \in 1..LiveLength(chain, t) :
                    Grant(chain, to, expires_at, t)[k] = chain[k]
<1>. DEFINE pruned == PruneLapsed(chain, t)
            new == [holder |-> to, expires_at |-> expires_at]
<1>1. /\ pruned \in Seq(Holding) /\ Len(pruned) = LiveLength(chain, t)
      /\ \A k \in 1..Len(pruned) : pruned[k] = chain[k]
    BY PruneProperty
<1>2. new \in Holding
    BY DEF Holding
<1>. HIDE DEF pruned
<1>3. CASE expires_at = None
    <2>1. Grant(chain, to, expires_at, t) = <<new>>
        BY <1>3 DEF Grant, TitleOf
    <2>. QED
        BY <2>1, <1>2, <1>3
<1>4. CASE expires_at # None
    <2>1. Grant(chain, to, expires_at, t) = Append(pruned, new)
        BY <1>4 DEF Grant, pruned
    <2>. HIDE DEF new
    <2>2. /\ Append(pruned, new) \in Seq(Holding)
          /\ Len(Append(pruned, new)) = Len(pruned) + 1
          /\ Append(pruned, new)[Len(pruned) + 1] = new
          /\ \A k \in 1..Len(pruned) : Append(pruned, new)[k] = pruned[k]
        BY <1>1, <1>2, AppendProperties
    <2>. QED
        BY <2>1, <2>2, <1>1, <1>4 DEF new
<1>. QED
    BY <1>3, <1>4

\* The shape is inductive: a grant the contract accepts turns a well-formed
\* chain into a well-formed chain, at any depth and for any terms.
THEOREM GrantKeepsWellFormed ==
    ASSUME NEW chain \in Seq(Holding), NEW until \in Nat, NEW t \in Nat,
           NEW from \in Accounts, NEW to \in Accounts,
           NEW expires_at \in Nat \cup {None},
           WellFormed(chain, until),
           GrantError(chain, until, from, to, expires_at, t) = Ok
    PROVE  WellFormed(Grant(chain, to, expires_at, t), until)
<1>. DEFINE result == Grant(chain, to, expires_at, t)
            n == LiveLength(chain, t)
            new == [holder |-> to, expires_at |-> expires_at]
<1>1. Len(chain) >= 1
    BY DEF WellFormed
<1>2. /\ n \in 1..Len(chain)
      /\ EffectiveHolding(chain, t) = chain[n]
    BY <1>1, LiveLengthProperty DEF EffectiveHolding
<1>3. /\ result \in Seq(Holding)
      /\ Len(result) = IF expires_at = None THEN 1 ELSE n + 1
      /\ result[Len(result)] = new
      /\ expires_at # None => \A k \in 1..n : result[k] = chain[k]
    BY <1>1, GrantTyped
<1>4. /\ from # to
      /\ chain[n].holder = from
      /\ expires_at = None => chain[n].expires_at = None
      /\ expires_at # None =>
            /\ expires_at \in Nat
            /\ expires_at <= until
            /\ chain[n].expires_at # None => ~(expires_at > chain[n].expires_at)
            /\ ~(n >= MaxHoldingDepth)
    BY <1>2, GrantOk
<1>. HIDE DEF result, n
<1>5. ASSUME expires_at = None PROVE WellFormed(result, until)
    BY <1>3, <1>5, HoldingChainAssumption DEF WellFormed
<1>6. ASSUME expires_at # None PROVE WellFormed(result, until)
    <2>1. Len(result) = n + 1 /\ n + 1 \in 1..MaxHoldingDepth
        BY <1>2, <1>3, <1>4, <1>6, HoldingChainAssumption DEF WellFormed
    <2>2. result[1].expires_at = None
        BY <1>2, <1>3, <1>6 DEF WellFormed
    <2>3. ASSUME NEW k \in 2..n
          PROVE  /\ result[k].expires_at \in Nat
                 /\ result[k].expires_at <= until
                 /\ k > 2 => result[k].expires_at <= result[k - 1].expires_at
                 /\ result[k].holder # result[k - 1].holder
        <3>1. k \in 1..n /\ k - 1 \in 1..n /\ k \in 2..Len(chain)
            BY <1>2
        <3>2. result[k] = chain[k] /\ result[k - 1] = chain[k - 1]
            BY <3>1, <1>3, <1>6
        <3>. QED
            BY <3>1, <3>2 DEF WellFormed
    <2>4. /\ result[n + 1].expires_at \in Nat
          /\ result[n + 1].expires_at <= until
          /\ n + 1 > 2 => result[n + 1].expires_at <= result[n].expires_at
          /\ result[n + 1].holder # result[n].holder
        <3>1. result[n] = chain[n] /\ result[n + 1] = new
            BY <1>2, <1>3, <1>6
        <3>2. n + 1 > 2 => chain[n].expires_at \in Nat
            BY <1>2 DEF WellFormed
        <3>3. n + 1 > 2 => expires_at <= chain[n].expires_at
            BY <3>2, <1>4, <1>6, HoldingChainAssumption
        <3>. QED
            BY <3>1, <3>3, <1>4, <1>6
    <2>5. ASSUME NEW k \in 2..Len(result)
          PROVE  /\ result[k].expires_at \in Nat
                 /\ result[k].expires_at <= until
                 /\ k > 2 => result[k].expires_at <= result[k - 1].expires_at
                 /\ result[k].holder # result[k - 1].holder
        <3>1. k \in 2..n \/ (k = n + 1 /\ k - 1 = n)
            BY <2>1, <1>2
        <3>. QED
            BY <3>1, <2>3, <2>4
    <2>. QED
        BY <2>1, <2>2, <2>5 DEF WellFormed
<1>. QED
    BY <1>5, <1>6 DEF result

\* In a well-formed chain the lapsed holdings are exactly the part that pruning
\* drops: no live term is ever lost to a lapsed one above it, and no lapsed
\* term survives under a live one (store.rs, lines 123-125).
THEOREM LapsedIsSuffix ==
    ASSUME NEW chain \in Seq(Holding), NEW until \in Nat, NEW t \in Nat,
           WellFormed(chain, until), NEW k \in 1..Len(chain)
    PROVE  Lapsed(chain[k], t) <=> k > LiveLength(chain, t)
<1>. DEFINE n == LiveLength(chain, t)
<1>1. /\ n \in 1..Len(chain)
      /\ n = 1 \/ ~Lapsed(chain[n], t)
      /\ \A j \in (n + 1)..Len(chain) : Lapsed(chain[j], t)
    <2>1. Len(chain) >= 1
        BY HoldingChainAssumption DEF WellFormed
    <2>. QED
        BY <2>1, LiveLengthProperty
<1>. HIDE DEF n
<1>2. ASSUME k > n PROVE Lapsed(chain[k], t)
    BY <1>1, <1>2
<1>3. ASSUME k <= n, Lapsed(chain[k], t) PROVE FALSE
    <2>1. k # 1 /\ n # 1
        BY <1>1, <1>3 DEF Lapsed, WellFormed
    <2>. DEFINE Alive == {j \in k..n : ~Lapsed(chain[j], t)}
    <2>2. n \in Alive /\ Alive \in SUBSET Nat
        BY <2>1, <1>1, <1>3
    <2>3. PICK m \in Alive : \A j \in Alive : m <= j
        <3>1. Alive # {}
            BY <2>2
        <3>. HIDE DEF Alive
        <3>. QED
            BY <2>2, <3>1, LeastNatural
    <2>4. m \in (k + 1)..n /\ ~Lapsed(chain[m], t)
        BY <1>3
    <2>5. m - 1 \in k..n /\ m \in 3..Len(chain) /\ m - 1 \in 2..Len(chain)
        BY <2>1, <2>4, <1>1
    <2>6. Lapsed(chain[m - 1], t)
        <3>1. ASSUME m - 1 \in Alive PROVE FALSE
            <4>1. m <= m - 1
                <5>. HIDE DEF Alive
                <5>. QED
                    BY <2>3, <3>1
            <4>. QED
                BY <4>1, <2>5
        <3>. QED
            BY <2>5, <3>1
    <2>7. /\ chain[m].expires_at \in Nat /\ chain[m - 1].expires_at \in Nat
          /\ chain[m].expires_at <= chain[m - 1].expires_at
        <3>1. m \in 2..Len(chain) /\ m > 2 /\ m - 1 \in 2..Len(chain)
            BY <2>5
        <3>. QED
            BY <3>1, Zenon DEF WellFormed
    <2>8. chain[m - 1].expires_at <= t
        BY <2>6 DEF Lapsed
    <2>9. ~(chain[m].expires_at <= t)
        BY <2>4, <2>7, HoldingChainAssumption DEF Lapsed
    <2>. QED
        BY <2>7, <2>8, <2>9
<1>. QED
    BY <1>1, <1>2, <1>3 DEF n

-----------------------------------------------------------------------------
(* The invariant                                                            *)

\* What every other proof rests on: the types, the shape of the chains, and
\* why a chain stays at two.
IInv ==
    /\ TypeOK
    /\ ChainsWellFormed
    /\ NoSublet
    /\ RentedByCommittedHolder

-----------------------------------------------------------------------------
(* Lemmas about storage and about the calls *)

LEMMA OneOrTwo == \A k \in Nat : k >= 1 /\ k <= 2 => k = 1 \/ k = 2
OBVIOUS

\* What Put and Remove do to the keys and the values of a store.
LEMMA PutProperty ==
    ASSUME NEW store, NEW key, NEW value
    PROVE  /\ DOMAIN Put(store, key, value) = DOMAIN store \cup {key}
           /\ Put(store, key, value)[key] = value
           /\ \A k \in DOMAIN store \ {key} : Put(store, key, value)[k] = store[k]
BY DEF Put

LEMMA PutTyped ==
    ASSUME NEW S, NEW store, store \in [DOMAIN store -> S], NEW key, NEW value \in S
    PROVE  Put(store, key, value) \in [DOMAIN Put(store, key, value) -> S]
BY DEF Put

LEMMA RemoveProperty ==
    ASSUME NEW S, NEW store, store \in [DOMAIN store -> S], NEW key
    PROVE  /\ DOMAIN Remove(store, key) = DOMAIN store \ {key}
           /\ \A k \in DOMAIN store \ {key} : Remove(store, key)[k] = store[k]
           /\ Remove(store, key) \in [DOMAIN Remove(store, key) -> S]
BY DEF Remove

\* A transfer is accepted only when every check the contract makes has passed.
LEMMA TransferOk ==
    ASSUME NEW from, NEW to, NEW id, NEW expires_at, NEW p, NEW signed,
           TransferError(from, to, id, expires_at, p, signed) = Ok
    PROVE  /\ id \in DOMAIN rights
           /\ ActiveError(rights[id].validity, now) = Ok
           /\ from \in Accounts /\ to \in Accounts
           /\ p.commitment = rights[id].commitment
           /\ p.right_id = id /\ p.from = from /\ p.to = to
           /\ p.mode = ModeOf(expires_at)
           /\ ~(p.expiry_ledger < ledger)
           /\ ~(p.expiry_ledger - ledger > MaxProofWindow)
           /\ (expires_at = None) # (p.next_secret_hash = ZeroHash)
           /\ expires_at = None => signed = p.next_secret_hash
           /\ p.nullifier \notin DOMAIN nullifiers
           /\ GrantError(rights[id].holdings, rights[id].validity.until,
                         from, to, expires_at, now) = Ok
           /\ Verifies(p)
<1>1. /\ id \in DOMAIN rights
      /\ ActiveError(rights[id].validity, now) = Ok
      /\ ProofError(id, from, to, expires_at, p, signed) = Ok
      /\ GrantError(rights[id].holdings, rights[id].validity.until,
                    from, to, expires_at, now) = Ok
      /\ Verifies(p)
    BY Zenon DEF TransferError, Ok
<1>2. /\ {from, to} \ Accounts = {}
      /\ p.commitment = rights[id].commitment
      /\ p.right_id = id /\ p.from = from /\ p.to = to
      /\ p.mode = ModeOf(expires_at)
      /\ ~(p.expiry_ledger < ledger)
      /\ ~(p.expiry_ledger - ledger > MaxProofWindow)
      /\ ~((expires_at = None) = (p.next_secret_hash = ZeroHash))
      /\ expires_at = None => signed = p.next_secret_hash
      /\ p.nullifier \notin DOMAIN nullifiers
    BY <1>1, Zenon DEF ProofError, Ok
<1>3. from \in Accounts /\ to \in Accounts
    BY <1>2
<1>. QED
    BY <1>1, <1>2, <1>3

\* The signals the model submits have the types the circuit gives them.
LEMMA SubmittedSignals ==
    ASSUME TypeOK, NEW p \in Proofs, NEW q \in {p} \cup Doctored(p)
    PROVE  q \in Signals
<1>1. CurrentCommitments \subseteq Commitments
    BY DEF CurrentCommitments, TypeOK, Right
<1>2. \A c \in CurrentCommitments : c.hash # ZeroHash => c.hash.secret \in Secrets
    BY <1>1 DEF Commitments, Hashes
<1>3. /\ RightIds \subseteq Nat
      /\ Deadlines \subseteq Nat
      /\ \A end \in EndTimes \cup {None} : ModeOf(end) \in Nat
    BY QuietStayRightsAssumption DEF RightIds, Deadlines, EndTimes, ModeOf, TypeOK
<1>4. PICK c \in CurrentCommitments, id \in RightIds, to \in Accounts,
           end \in EndTimes \cup {None}, deadline \in Deadlines, h \in Hashes \cup {ZeroHash} :
        /\ c.hash # ZeroHash
        /\ p = CircuitInput(c.digest, c.hash.secret, id, c.account, to, end, deadline, h)
    BY DEF Proofs
<1>5. /\ c.digest \in Digests /\ c.account \in Accounts /\ c.hash.secret \in Secrets
      /\ id \in Nat /\ deadline \in Nat /\ ModeOf(end) \in Nat
    BY <1>1, <1>2, <1>3, <1>4 DEF Commitments
<1>6. /\ Commit(c.digest, c.account, SecretHash(c.hash.secret)) \in Commitments
      /\ Commit(c.digest, to, h) \in Commitments
      /\ Nullify(c.hash.secret, id, to, ModeOf(end), deadline) \in Nullifiers
    BY <1>5 DEF Commit, Commitments, SecretHash, Hashes, Nullify, Nullifiers
<1>7. p \in Signals
    BY <1>4, <1>5, <1>6 DEF CircuitInput, Signals
<1>. QED
    BY <1>7 DEF Doctored, Signals, Commitments, Nullifiers

\* Only the title holder, in possession and named by the commitment, ever gets
\* a transfer accepted: a renter in possession is not the account the
\* commitment names, and a title holder who rented the week out is not in
\* possession.
LEMMA OnlyTheTitleHolderGrants ==
    ASSUME IInv, NEW from, NEW to, NEW id, NEW expires_at, NEW p, NEW signed,
           TransferError(from, to, id, expires_at, p, signed) = Ok
    PROVE  /\ LiveLength(rights[id].holdings, now) = 1
           /\ from = TitleHolder(id)
           /\ rights[id].commitment.account = from
           /\ rights[id].holdings \in Seq(Holding) /\ Len(rights[id].holdings) >= 1
<1>. DEFINE chain == rights[id].holdings
            n == LiveLength(chain, now)
<1>1. /\ id \in DOMAIN rights /\ p.commitment = rights[id].commitment
      /\ p.from = from /\ Verifies(p)
      /\ GrantError(chain, rights[id].validity.until, from, to, expires_at, now) = Ok
    BY TransferOk
<1>2. rights[id].commitment.account = from
    BY <1>1 DEF Verifies, Satisfies, Commit
<1>3. chain[n].holder = from
    BY <1>1, GrantOk DEF EffectiveHolding
<1>4. /\ chain \in Seq(Holding) /\ now \in Nat
      /\ Len(chain) \in Nat /\ Len(chain) >= 1
      /\ Len(chain) = 1 \/ Len(chain) = 2
      /\ Len(chain) = 2 => chain[2].holder # chain[1].holder
      /\ Len(chain) > 1 => rights[id].commitment.account = chain[1].holder
    <2>1. rights[id] \in Right /\ now \in Nat
        BY <1>1 DEF IInv, TypeOK
    <2>2. chain \in Seq(Holding)
        BY <2>1 DEF Right
    <2>3. WellFormed(chain, rights[id].validity.until) /\ Len(chain) <= 2
        BY <1>1 DEF IInv, ChainsWellFormed, NoSublet
    <2>4. Len(chain) > 1 => rights[id].commitment.account = chain[1].holder
        BY <1>1 DEF IInv, RentedByCommittedHolder, TitleHolder
    <2>5. Len(chain) = 2 => chain[2].holder # chain[2 - 1].holder
        BY <2>3 DEF WellFormed
    <2>6. Len(chain) \in Nat /\ Len(chain) >= 1
        BY <2>2, <2>3, HoldingChainAssumption DEF WellFormed
    <2>7. Len(chain) = 1 \/ Len(chain) = 2
        BY <2>3, <2>6, OneOrTwo, Zenon
    <2>. QED
        BY <2>1, <2>2, <2>4, <2>5, <2>6, <2>7
<1>5. n \in 1..Len(chain)
    BY <1>4, LiveLengthProperty
<1>6. n = 1
    <2>. HIDE DEF n, chain
    <2>1. n = 1 \/ (n = 2 /\ Len(chain) = 2)
        <3>1. PICK length \in {1, 2} : length = Len(chain)
            BY <1>4, Zenon
        <3>2. n \in 1..length
            BY <3>1, <1>5, Zenon
        <3>3. n = 1 \/ (n = 2 /\ length = 2)
            BY <3>2
        <3>. QED
            BY <3>1, <3>3, Zenon
    <2>2. ~(n = 2 /\ Len(chain) = 2)
        BY <1>2, <1>3, <1>4 DEF chain
    <2>. QED
        BY <2>1, <2>2
<1>. QED
    BY <1>2, <1>3, <1>4, <1>6 DEF TitleHolder

\* What an accepted transfer does to the right it names, and to the others.
Effect(to, id, expires_at, p) ==
    /\ id \in DOMAIN rights /\ DOMAIN rights' = DOMAIN rights
    /\ \A k \in DOMAIN rights \ {id} : rights'[k] = rights[k]
    /\ rights'[id].holdings = Grant(rights[id].holdings, to, expires_at, now)
    /\ rights'[id].commitment =
            IF expires_at = None THEN p.next_commitment ELSE rights[id].commitment
    /\ rights'[id].period = rights[id].period
    /\ rights'[id].validity = rights[id].validity
    /\ rights'[id] \in Right
    /\ rights'[id].holdings[1].holder =
            IF expires_at = None THEN to ELSE TitleHolder(id)
    /\ Len(rights'[id].holdings) = IF expires_at = None THEN 1 ELSE 2
    /\ WellFormed(rights'[id].holdings, rights'[id].validity.until)

LEMMA TransferEffect ==
    ASSUME IInv, NEW from, NEW to, NEW id, NEW expires_at \in Nat \cup {None},
           NEW p \in Signals, NEW signed,
           Transfer(from, to, id, expires_at, p, signed)
    PROVE  Effect(to, id, expires_at, p)
<1>. DEFINE chain == rights[id].holdings
            newChain == Grant(chain, to, expires_at, now)
            newCommitment == IF expires_at = None THEN p.next_commitment
                             ELSE rights[id].commitment
<1>1. TransferError(from, to, id, expires_at, p, signed) = Ok
    BY DEF Transfer
<1>2. /\ id \in DOMAIN rights /\ from \in Accounts /\ to \in Accounts
      /\ GrantError(chain, rights[id].validity.until, from, to, expires_at, now) = Ok
    BY <1>1, TransferOk
<1>3. /\ LiveLength(chain, now) = 1 /\ from = TitleHolder(id)
      /\ chain \in Seq(Holding) /\ Len(chain) >= 1
    BY <1>1, OnlyTheTitleHolderGrants
<1>4. /\ rights \in [DOMAIN rights -> Right] /\ rights[id] \in Right
      /\ now \in Nat /\ rights[id].validity.until \in Nat
      /\ WellFormed(chain, rights[id].validity.until)
    BY <1>2 DEF IInv, TypeOK, Right, ChainsWellFormed
<1>5. /\ newChain \in Seq(Holding)
      /\ Len(newChain) = IF expires_at = None THEN 1 ELSE 2
      /\ newChain[Len(newChain)] = [holder |-> to, expires_at |-> expires_at]
      /\ expires_at # None => newChain[1] = chain[1]
    <2>1. /\ newChain \in Seq(Holding)
          /\ Len(newChain) = IF expires_at = None THEN 1 ELSE LiveLength(chain, now) + 1
          /\ newChain[Len(newChain)] = [holder |-> to, expires_at |-> expires_at]
          /\ expires_at # None =>
                \A k \in 1..LiveLength(chain, now) : newChain[k] = chain[k]
        <3>1. /\ chain \in Seq(Holding) /\ Len(chain) >= 1 /\ now \in Nat
              /\ to \in Accounts /\ expires_at \in Nat \cup {None}
            BY <1>2, <1>3, <1>4
        <3>. HIDE DEF chain
        <3>. QED
            BY <3>1, GrantTyped, Zenon
    <2>. HIDE DEF newChain, chain
    <2>. QED
        BY <2>1, <1>3
<1>6. WellFormed(newChain, rights[id].validity.until)
    BY <1>2, <1>3, <1>4, GrantKeepsWellFormed
<1>7. newCommitment \in Commitments
    BY <1>4 DEF Right, Signals
<1>8. rights' = [rights EXCEPT ![id].holdings = newChain, ![id].commitment = newCommitment]
    BY DEF Transfer
<1>. HIDE DEF newChain, newCommitment
<1>9. rights'[id] = [rights[id] EXCEPT !.holdings = newChain, !.commitment = newCommitment]
    BY <1>2, <1>4, <1>8
<1>10. /\ rights'[id].holdings = newChain
       /\ rights'[id].commitment = newCommitment
       /\ rights'[id].period = rights[id].period
       /\ rights'[id].validity = rights[id].validity
       /\ rights'[id] \in Right
    BY <1>4, <1>5, <1>7, <1>9 DEF Right
<1>11. newChain[1].holder = IF expires_at = None THEN to ELSE TitleHolder(id)
    <2>1. CASE expires_at = None
        <3>1. newChain[1] = [holder |-> to, expires_at |-> expires_at]
            BY <2>1, <1>5
        <3>. QED
            BY <2>1, <3>1
    <2>2. CASE expires_at # None
        BY <2>2, <1>5 DEF TitleHolder
    <2>. QED
        BY <2>1, <2>2
<1>12. DOMAIN rights' = DOMAIN rights /\ \A k \in DOMAIN rights \ {id} : rights'[k] = rights[k]
    BY <1>4, <1>8
<1>. QED
    BY <1>2, <1>5, <1>6, <1>10, <1>11, <1>12 DEF newChain, newCommitment, Effect

-----------------------------------------------------------------------------
(* The invariant is inductive: one lemma per action *)

\* The part of IInv that is about one right at a time.
Sound(right) ==
    /\ WellFormed(right.holdings, right.validity.until)
    /\ Len(right.holdings) <= 2
    /\ Len(right.holdings) > 1 => right.commitment.account = right.holdings[1].holder

LEMMA IInvBySound ==
    IInv <=> TypeOK /\ \A id \in DOMAIN rights : Sound(rights[id])
BY Zenon DEF IInv, ChainsWellFormed, NoSublet, RentedByCommittedHolder, Sound, TitleHolder

LEMMA IInvBySoundNext ==
    IInv' <=> TypeOK' /\ \A id \in DOMAIN rights' : Sound(rights'[id])
BY Zenon DEF IInv, ChainsWellFormed, NoSublet, RentedByCommittedHolder, Sound, TitleHolder

LEMMA InitIInv == Init => IInv
<1>. SUFFICES ASSUME Init PROVE IInv
    OBVIOUS
<1>1. TypeOK
    BY DEF Init, TypeOK
<1>2. DOMAIN rights = {}
    BY DEF Init
<1>. QED
    BY <1>1, <1>2, IInvBySound

LEMMA IssueIInv ==
    ASSUME IInv, NEW owner \in Addresses, NEW window \in Windows, NEW commitment \in Wraps,
           Issue(owner, window, commitment)
    PROVE  IInv'
<1>. DEFINE right == [period |-> window.period, validity |-> window.validity,
                      commitment |-> commitment, holdings |-> <<TitleOf(owner)>>]
<1>1. owner \in Accounts /\ TitleOf(owner) \in Holding
    BY Zenon DEF Issue, IssueError, Ok, TitleOf, Holding
<1>2. right \in Right
    BY <1>1, QuietStayRightsAssumption DEF Right
<1>3. Sound(right)
    <2>1. WellFormed(<<TitleOf(owner)>>, window.validity.until)
        BY HoldingChainAssumption DEF WellFormed, TitleOf
    <2>. QED
        BY <2>1 DEF Sound
<1>. HIDE DEF right
<1>4. rights' = Put(rights, next_id, right)
    BY DEF Issue, right
<1>5. /\ DOMAIN rights' = DOMAIN rights \cup {next_id}
      /\ rights'[next_id] = right
      /\ \A k \in DOMAIN rights \ {next_id} : rights'[k] = rights[k]
    BY <1>4 DEF Put
<1>6. rights' \in [DOMAIN rights' -> Right]
    BY <1>2, <1>4, PutTyped DEF IInv, TypeOK
<1>7. TypeOK'
    <2>1. DOMAIN rights' \subseteq 1..(next_id' - 1)
        BY <1>5 DEF IInv, TypeOK, Issue
    <2>2. balances' \in [Accounts -> Int]
        BY <1>1 DEF IInv, TypeOK, Issue
    <2>. QED
        BY <1>5, <1>6, <2>1, <2>2 DEF IInv, TypeOK, Issue, history
<1>8. \A id \in DOMAIN rights' : Sound(rights'[id])
    BY <1>3, <1>5, IInvBySound
<1>. QED
    BY <1>7, <1>8, IInvBySoundNext

LEMMA ListIInv ==
    ASSUME IInv, NEW by \in Accounts, NEW id, NEW term_secs \in ListTerms \cup {None},
           List(by, id, term_secs)
    PROVE  IInv'
<1>1. [by |-> by, term_secs |-> term_secs] \in Listing
    BY QuietStayRightsAssumption DEF Listing
<1>2. id \in DOMAIN rights
    BY Zenon DEF List, ListError, Ok
<1>3. /\ listings' \in [DOMAIN listings' -> Listing]
      /\ DOMAIN listings' = DOMAIN listings \cup {id}
    BY <1>1, PutTyped, PutProperty DEF List, IInv, TypeOK
<1>4. TypeOK'
    BY <1>2, <1>3 DEF IInv, TypeOK, List, history
<1>. QED
    BY <1>4, IInvBySound, IInvBySoundNext DEF List

LEMMA UnlistIInv ==
    ASSUME IInv, NEW by \in Accounts, NEW id, Unlist(by, id)
    PROVE  IInv'
<1>1. /\ listings' \in [DOMAIN listings' -> Listing]
      /\ DOMAIN listings' = DOMAIN listings \ {id}
    BY RemoveProperty DEF Unlist, IInv, TypeOK
<1>2. TypeOK'
    BY <1>1 DEF IInv, TypeOK, Unlist, history
<1>. QED
    BY <1>2, IInvBySound, IInvBySoundNext DEF Unlist

LEMMA BurnIInv ==
    ASSUME IInv, NEW from \in Accounts, NEW id, Burn(from, id)
    PROVE  IInv'
<1>1. /\ listings' \in [DOMAIN listings' -> Listing]
      /\ DOMAIN listings' = DOMAIN listings \ {id}
    BY RemoveProperty DEF Burn, IInv, TypeOK
<1>2. /\ rights' \in [DOMAIN rights' -> Right]
      /\ DOMAIN rights' = DOMAIN rights \ {id}
      /\ \A k \in DOMAIN rights' : rights'[k] = rights[k]
    <2>1. rights \in [DOMAIN rights -> Right] /\ rights' = Remove(rights, id)
        BY DEF Burn, IInv, TypeOK
    <2>. QED
        BY <2>1 DEF Remove
<1>3. balances' \in [Accounts -> Int]
    BY DEF IInv, TypeOK, Burn
<1>4. TypeOK'
    BY <1>1, <1>2, <1>3 DEF IInv, TypeOK, Burn, history
<1>. QED
    BY <1>2, <1>4, IInvBySound, IInvBySoundNext

LEMMA LedgerCloseIInv ==
    ASSUME IInv, LedgerClose
    PROVE  IInv'
<1>1. ledger' \in Nat /\ now' \in Nat
    BY QuietStayRightsAssumption DEF IInv, TypeOK, LedgerClose
<1>2. DOMAIN nullifiers' \subseteq DOMAIN nullifiers /\ nullifiers' \in [DOMAIN nullifiers' -> Nat]
    BY DEF IInv, TypeOK, LedgerClose
<1>3. UNCHANGED <<next_id, rights, listings, balances, spent, transfers>>
    BY DEF LedgerClose, records, history
<1>4. TypeOK'
    BY <1>1, <1>2, <1>3 DEF IInv, TypeOK
<1>. QED
    BY <1>3, <1>4, IInvBySound, IInvBySoundNext

LEMMA TransferIInv ==
    ASSUME IInv, NEW from, NEW to, NEW id, NEW expires_at \in Nat \cup {None},
           NEW p \in Signals, NEW signed,
           Transfer(from, to, id, expires_at, p, signed)
    PROVE  IInv'
<1>1. TransferError(from, to, id, expires_at, p, signed) = Ok
    BY DEF Transfer
<1>2. /\ from \in Accounts /\ to \in Accounts /\ id \in DOMAIN rights
      /\ rights[id].commitment.account = TitleHolder(id)
    BY <1>1, TransferOk, OnlyTheTitleHolderGrants
<1>3. /\ DOMAIN rights' = DOMAIN rights
      /\ \A k \in DOMAIN rights \ {id} : rights'[k] = rights[k]
      /\ rights'[id] \in Right
      /\ rights'[id].commitment =
            IF expires_at = None THEN p.next_commitment ELSE rights[id].commitment
      /\ rights'[id].holdings[1].holder = IF expires_at = None THEN to ELSE TitleHolder(id)
      /\ Len(rights'[id].holdings) = IF expires_at = None THEN 1 ELSE 2
      /\ WellFormed(rights'[id].holdings, rights'[id].validity.until)
    BY TransferEffect DEF Effect
<1>4. Sound(rights'[id])
    BY <1>2, <1>3 DEF Sound
<1>5. rights' \in [DOMAIN rights' -> Right]
    BY <1>3 DEF Transfer, IInv, TypeOK
<1>6. /\ listings' \in [DOMAIN listings' -> Listing]
      /\ DOMAIN listings' = DOMAIN listings \ {id}
    BY RemoveProperty DEF Transfer, IInv, TypeOK
<1>7. balances' \in [Accounts -> Int]
    BY <1>2 DEF Transfer, MoveTitle, IInv, TypeOK
<1>8. /\ p.nullifier \in Nullifiers
      /\ LiveUntil(p) \in Nat
    <2>1. p.expiry_ledger \in Nat /\ p.nullifier \in Nullifiers
        BY DEF Signals
    <2>. QED
        BY <2>1, QuietStayRightsAssumption DEF LiveUntil, IInv, TypeOK
<1>9. /\ nullifiers' \in [DOMAIN nullifiers' -> Nat]
      /\ DOMAIN nullifiers' = DOMAIN nullifiers \cup {p.nullifier}
    BY <1>8, PutTyped, PutProperty DEF Transfer, IInv, TypeOK
<1>10. TypeOK'
    BY <1>3, <1>5, <1>6, <1>7, <1>8, <1>9 DEF Transfer, IInv, TypeOK
<1>11. \A k \in DOMAIN rights' : Sound(rights'[k])
    BY <1>3, <1>4, IInvBySound
<1>. QED
    BY <1>10, <1>11, IInvBySoundNext

LEMMA NextIInv == IInv /\ [Next]_vars => IInv'
<1>. SUFFICES ASSUME IInv, [Next]_vars PROVE IInv'
    OBVIOUS
<1>1. CASE UNCHANGED vars
    BY <1>1 DEF vars, IInv, TypeOK, ChainsWellFormed, NoSublet,
                RentedByCommittedHolder, TitleHolder
<1>2. ASSUME NEW owner \in Addresses, NEW window \in Windows, NEW commitment \in Wraps,
             Issue(owner, window, commitment)
      PROVE  IInv'
    BY <1>2, IssueIInv
<1>3. ASSUME NEW by \in Accounts, NEW id \in RightIds,
             \/ \E term_secs \in ListTerms \cup {None} : List(by, id, term_secs)
             \/ Unlist(by, id)
             \/ Burn(by, id)
      PROVE  IInv'
    BY <1>3, ListIInv, UnlistIInv, BurnIInv
<1>4. ASSUME NEW from, NEW to, NEW id, NEW expires_at \in EndTimes \cup {None},
             Submit(from, to, id, expires_at)
      PROVE  IInv'
    <2>1. PICK p \in Proofs : \E q \in {p} \cup Doctored(p), signed \in Signatures(to) :
                Transfer(from, to, id, expires_at, q, signed)
        BY <1>4 DEF Submit
    <2>2. PICK q \in {p} \cup Doctored(p), signed \in Signatures(to) :
                Transfer(from, to, id, expires_at, q, signed)
        BY <2>1
    <2>3. q \in Signals
        BY SubmittedSignals DEF IInv
    <2>4. expires_at \in Nat \cup {None}
        BY DEF EndTimes
    <2>. QED
        BY <2>2, <2>3, <2>4, TransferIInv
<1>5. CASE LedgerClose
    BY <1>5, LedgerCloseIInv
<1>. QED
    BY <1>1, <1>2, <1>3, <1>4, <1>5 DEF Next

-----------------------------------------------------------------------------
(* Theorems *)

THEOREM Inductive == Spec => []IInv
BY InitIInv, NextIInv, PTL DEF Spec

\* Whatever is called in whatever order, every stored value keeps its type.
THEOREM TypeCorrect == Spec => []TypeOK
<1>1. IInv => TypeOK
    BY DEF IInv
<1>. QED
    BY <1>1, Inductive, PTL

\* Every stored chain keeps the shape types.rs promises, although the contract
\* never checks it.
THEOREM ChainsStayWellFormed == Spec => []ChainsWellFormed
<1>1. IInv => ChainsWellFormed
    BY DEF IInv
<1>. QED
    BY <1>1, Inductive, PTL

\* No renter ever lets the week on: the bound on the depth of a chain is not
\* what prevents it, the ownership proof is.
THEOREM NobodySublets == Spec => []NoSublet
<1>1. IInv => NoSublet
    BY DEF IInv
<1>. QED
    BY <1>1, Inductive, PTL

\* A right that was ever rented is committed to its title holder.
THEOREM RentersRentFromTheCommitted == Spec => []RentedByCommittedHolder
<1>1. IInv => RentedByCommittedHolder
    BY DEF IInv
<1>. QED
    BY <1>1, Inductive, PTL

-----------------------------------------------------------------------------
(* No ownership proof is accepted twice, for any minimum TTL of the network *)
(* and any proof window, although the entry that marks a proof spent is    *)
(* temporary (auth.rs, lines 237-258).                                     *)

\* SpentOnce is not inductive alone: what keeps a spent proof from being
\* accepted again is that its entry is still there while it could be, and the
\* count of transfers is only a cardinality if the set is finite.
ReplayInv ==
    /\ SpentIsStored
    /\ SpentOnce
    /\ IsFiniteSet(spent)

\* An accepted proof draws a nullifier that ends with the proof.
LEMMA NullifierNamesDeadline ==
    ASSUME NEW from, NEW to, NEW id, NEW expires_at, NEW p, NEW signed,
           TransferError(from, to, id, expires_at, p, signed) = Ok
    PROVE  p.nullifier.expiry_ledger = p.expiry_ledger
<1>1. Verifies(p)
    BY TransferOk
<1>. QED
    BY <1>1 DEF Verifies, Satisfies, Nullify

LEMMA TransferReplay ==
    ASSUME IInv, ReplayInv, NEW from, NEW to, NEW id, NEW expires_at,
           NEW p \in Signals, NEW signed,
           Transfer(from, to, id, expires_at, p, signed)
    PROVE  ReplayInv'
<1>. DEFINE n == p.nullifier
<1>1. TransferError(from, to, id, expires_at, p, signed) = Ok
    BY DEF Transfer
<1>2. /\ n \notin DOMAIN nullifiers
      /\ ~(p.expiry_ledger < ledger)
    BY <1>1, TransferOk
<1>3. n.expiry_ledger = p.expiry_ledger
    BY <1>1, NullifierNamesDeadline
<1>4. ledger \in Nat /\ p.expiry_ledger \in Nat /\ transfers \in Nat
    BY DEF Signals, IInv, TypeOK
<1>5. n \notin spent
    BY <1>2, <1>3, <1>4 DEF ReplayInv, SpentIsStored
<1>6. /\ spent' = spent \cup {n} /\ transfers' = transfers + 1 /\ ledger' = ledger
      /\ nullifiers' = Put(nullifiers, n, LiveUntil(p))
    BY DEF Transfer
<1>7. /\ DOMAIN nullifiers' = DOMAIN nullifiers \cup {n}
      /\ nullifiers'[n] = LiveUntil(p)
      /\ \A m \in DOMAIN nullifiers \ {n} : nullifiers'[m] = nullifiers[m]
    BY <1>6 DEF Put
<1>8. LiveUntil(p) > p.expiry_ledger
    BY <1>4, QuietStayRightsAssumption DEF LiveUntil
<1>9. SpentIsStored'
    <2>. SUFFICES ASSUME NEW m \in spent', m.expiry_ledger >= ledger'
                  PROVE  m \in DOMAIN nullifiers' /\ nullifiers'[m] > m.expiry_ledger
        BY DEF SpentIsStored
    <2>1. CASE m = n
        BY <2>1, <1>3, <1>7, <1>8
    <2>2. CASE m \in spent /\ m # n
        BY <2>2, <1>6, <1>7 DEF ReplayInv, SpentIsStored
    <2>. QED
        BY <2>1, <2>2, <1>6
<1>10. IsFiniteSet(spent') /\ Cardinality(spent') = Cardinality(spent) + 1
    BY <1>5, <1>6, FS_AddElement DEF ReplayInv
<1>11. SpentOnce'
    BY <1>6, <1>10 DEF ReplayInv, SpentOnce
<1>. QED
    BY <1>9, <1>10, <1>11 DEF ReplayInv

LEMMA NextReplay == IInv /\ ReplayInv /\ [Next]_vars => ReplayInv'
<1>. SUFFICES ASSUME IInv, ReplayInv, [Next]_vars PROVE ReplayInv'
    OBVIOUS
<1>1. ASSUME UNCHANGED <<ledger, nullifiers, spent, transfers>> PROVE ReplayInv'
    BY <1>1 DEF ReplayInv, SpentIsStored, SpentOnce
<1>2. CASE UNCHANGED vars
    BY <1>1, <1>2 DEF vars
<1>3. ASSUME NEW owner, NEW window, NEW commitment, Issue(owner, window, commitment)
      PROVE  ReplayInv'
    BY <1>1, <1>3 DEF Issue, history
<1>4. ASSUME NEW by, NEW id,
             \/ \E term_secs \in ListTerms \cup {None} : List(by, id, term_secs)
             \/ Unlist(by, id)
             \/ Burn(by, id)
      PROVE  ReplayInv'
    BY <1>1, <1>4 DEF List, Unlist, Burn, history
<1>5. ASSUME NEW from, NEW to, NEW id, NEW expires_at, Submit(from, to, id, expires_at)
      PROVE  ReplayInv'
    <2>1. PICK p \in Proofs : \E q \in {p} \cup Doctored(p), signed \in Signatures(to) :
                Transfer(from, to, id, expires_at, q, signed)
        BY <1>5 DEF Submit
    <2>2. PICK q \in {p} \cup Doctored(p), signed \in Signatures(to) :
                Transfer(from, to, id, expires_at, q, signed)
        BY <2>1
    <2>3. q \in Signals
        BY SubmittedSignals DEF IInv
    <2>. QED
        BY <2>2, <2>3, TransferReplay
<1>6. CASE LedgerClose
    <2>1. SpentIsStored'
        <3>. SUFFICES ASSUME NEW n \in spent', n.expiry_ledger >= ledger'
                      PROVE  n \in DOMAIN nullifiers' /\ nullifiers'[n] > n.expiry_ledger
            BY DEF SpentIsStored
        <3>1. /\ n \in spent /\ ledger' = ledger + 1 /\ ledger \in Nat
              /\ spent \subseteq Nullifiers
              /\ nullifiers \in [DOMAIN nullifiers -> Nat]
            BY <1>6 DEF LedgerClose, history, IInv, TypeOK
        <3>2. n.expiry_ledger \in Nat
            BY <3>1 DEF Nullifiers
        <3>3. n \in DOMAIN nullifiers /\ nullifiers[n] > n.expiry_ledger
            BY <3>1, <3>2 DEF ReplayInv, SpentIsStored
        <3>4. nullifiers[n] >= ledger + 1
            BY <3>1, <3>2, <3>3
        <3>. QED
            BY <1>6, <3>3, <3>4 DEF LedgerClose
    <2>2. UNCHANGED <<spent, transfers>>
        BY <1>6 DEF LedgerClose, history
    <2>. QED
        BY <2>1, <2>2 DEF ReplayInv, SpentOnce
<1>. QED
    BY <1>2, <1>3, <1>4, <1>5, <1>6 DEF Next

LEMMA SpecReplay == Spec => []ReplayInv
<1>1. Init => ReplayInv
    BY FS_EmptySet DEF Init, ReplayInv, SpentIsStored, SpentOnce
<1>. QED
    BY <1>1, NextReplay, Inductive, PTL DEF Spec

\* No proof is ever accepted twice: every accepted transfer spent a nullifier
\* of its own.
THEOREM NoReplay == Spec => []SpentOnce
<1>1. ReplayInv => SpentOnce
    BY DEF ReplayInv
<1>. QED
    BY <1>1, SpecReplay, PTL

\* A spent nullifier is stored for as long as its proof could be accepted,
\* whatever minimum the network sets for temporary entries.
THEOREM SpentStaysStored == Spec => []SpentIsStored
<1>1. ReplayInv => SpentIsStored
    BY DEF ReplayInv
<1>. QED
    BY <1>1, SpecReplay, PTL
=============================================================================
