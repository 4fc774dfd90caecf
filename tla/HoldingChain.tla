---------------------------- MODULE HoldingChain ----------------------------
(***************************************************************************)
(* The holding-chain rules of the rights contract (store.rs, types.rs).    *)
(*                                                                         *)
(* A right carries a chain of holdings: the title holder first, with no    *)
(* expiry, then finite terms in the order they were granted.  Nothing is   *)
(* written when a term ends: every read drops the lapsed top of the chain  *)
(* first.  A sale and a rental are the same operation, Grant, on different *)
(* data.                                                                   *)
(*                                                                         *)
(* This module is operators only.  Times are Unix seconds, counted from a  *)
(* small origin in the models.                                             *)
(***************************************************************************)
EXTENDS Integers, Sequences

CONSTANTS
    Accounts,          \* the G... accounts that can hold a right
    None,              \* Rust's Option::None, for an open-ended holding
    MaxHoldingDepth    \* the length a chain may not exceed (4 in types.rs)

ASSUME HoldingChainAssumption ==
    /\ None \notin Nat
    /\ MaxHoldingDepth \in Nat \ {0}

Ok == "Ok"

Holding == [holder : Accounts, expires_at : Nat \cup {None}]

TitleOf(account) == [holder |-> account, expires_at |-> None]

-----------------------------------------------------------------------------
(* Reading a chain *)

\* Mutant: a term is still live at the second it ends.
LapsedAfterTheEnd(holding, now) ==
    holding.expires_at # None /\ holding.expires_at < now

Lapsed(holding, now) ==
    holding.expires_at # None /\ holding.expires_at <= now

\* Mutant: nothing is popped (the raw chain).
LiveLengthRaw(chain, now) == Len(chain)

\* How much of the chain is left when the lapsed top has been popped.  The
\* title, at position 1, is never popped.
LiveLength(chain, now) ==
    CHOOSE n \in 1..Len(chain) :
        /\ n = 1 \/ ~Lapsed(chain[n], now)
        /\ \A k \in (n + 1)..Len(chain) : Lapsed(chain[k], now)

PruneLapsed(chain, now) == SubSeq(chain, 1, LiveLength(chain, now))

EffectiveHolding(chain, now) == chain[LiveLength(chain, now)]

-----------------------------------------------------------------------------
(* Granting a term *)

\* Mutants: the recipient's term is not held against the right's; the sender need
\* only hold title, whoever is in possession.
GrantErrorPastValidity(chain, until, from, to, expires_at, now) ==
    IF /\ from # to /\ EffectiveHolding(chain, now) = TitleOf(from)
       /\ expires_at # None => expires_at > now
    THEN Ok ELSE "Refused"
GrantErrorByTitle(chain, until, from, to, expires_at, now) ==
    IF /\ from # to /\ chain[1].holder = from
       /\ expires_at # None => expires_at \in (now + 1)..until
    THEN Ok ELSE "Refused"

\* The error store::grant answers, in the order it looks for one, or Ok.
GrantError(chain, until, from, to, expires_at, now) ==
    LET current == EffectiveHolding(chain, now) IN
    IF from = to THEN "SelfTransfer"
    ELSE IF current.holder # from THEN "NotHolder"
    ELSE IF expires_at = None
         THEN IF current.expires_at # None THEN "ExpiryBeyondSenderTerm" ELSE Ok
    ELSE IF expires_at <= now THEN "ExpiryInThePast"
    ELSE IF expires_at > until THEN "ExpiryBeyondValidity"
    ELSE IF current.expires_at # None /\ expires_at > current.expires_at
         THEN "ExpiryBeyondSenderTerm"
    ELSE IF LiveLength(chain, now) >= MaxHoldingDepth THEN "HoldingDepthExceeded"
    ELSE Ok

\* The chain that results: an open-ended grant replaces it, a finite one
\* extends what is left of it.
Grant(chain, to, expires_at, now) ==
    IF expires_at = None
    THEN <<TitleOf(to)>>
    ELSE Append(PruneLapsed(chain, now), [holder |-> to, expires_at |-> expires_at])

\* store::require_active, for a right valid from `from` until `until`.
ActiveError(validity, now) ==
    IF now < validity.from THEN "RightNotYetValid"
    ELSE IF now >= validity.until THEN "RightExpired"
    ELSE Ok

-----------------------------------------------------------------------------
(* What a chain must look like (types.rs, the comment on Right) *)

\* The title first and open-ended; above it finite terms, none outlasting the
\* one it was granted from or the right itself; never deeper than the bound.
WellFormed(chain, until) ==
    /\ Len(chain) \in 1..MaxHoldingDepth
    /\ chain[1].expires_at = None
    /\ \A k \in 2..Len(chain) :
         /\ chain[k].expires_at \in Nat
         /\ chain[k].expires_at <= until
         /\ k > 2 => chain[k].expires_at <= chain[k - 1].expires_at
    /\ \A k \in 2..Len(chain) : chain[k].holder # chain[k - 1].holder
=============================================================================
