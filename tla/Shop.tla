--------------------------------- MODULE Shop ---------------------------------
(***************************************************************************)
(* What the pages make of the contract's state: the row the registry shows *)
(* of a week, the filters of the List screen, the standing of an account   *)
(* (lib/roles.ts), and the transfers the Transfer screen offers.           *)
(*                                                                         *)
(* A row is read here in one go; that it is four reads of which any may    *)
(* fail is Inventory's matter.  The browser's clock is the ledger's.       *)
(***************************************************************************)
EXTENDS QuietStayRights

\* A week can be rented out at all (types.rs allows a depth of four).
ASSUME ShopAssumption == MaxHoldingDepth >= 2

\* One row of the registry.
Row(id) ==
    LET right == rights[id]
        holding == Holder(id)
    IN [id |-> id, week |-> right.period, validity |-> right.validity,
        title_holder |-> TitleHolder(id), effective_holder |-> holding.holder,
        term_ends |-> holding.expires_at, rented_out |-> holding.expires_at # None,
        active |-> ActiveError(right.validity, now) = Ok,
        listing |-> IF id \in DOMAIN listings THEN listings[id] ELSE None]

Registry == {Row(id) : id \in DOMAIN rights}

-----------------------------------------------------------------------------
(* The filters of the List screen                                           *)

IsSublet(row) == row.rented_out /\ row.listing # None

\* Mutant: a week is over the second after it ends.
WeekIsOverLater(end) == end < now
WeekIsOver(end) == end <= now

IsBlocked(row) == IsSublet(row) \/ WeekIsOver(row.week.end)

\* "pending" is about the asks, and is the List screen's own matter.
Matches(row, which, account) ==
    CASE which = "all"    -> TRUE
      [] which = "rent"   -> row.listing # None /\ row.listing.term_secs # None /\ ~IsBlocked(row)
      [] which = "sale"   -> row.listing # None /\ row.listing.term_secs = None /\ ~IsBlocked(row)
      [] which = "rented" -> row.rented_out
      [] which = "yours"  -> account \in {row.effective_holder, row.title_holder}

-----------------------------------------------------------------------------
(* The standing of an account                                               *)

\* Mutant: to hold title is to own.
OwnedByTitle(account) == {row \in Registry : row.title_holder = account}

Owned(account) ==
    {row \in Registry : row.title_holder = account /\ row.effective_holder = account}
Renting(account) ==
    {row \in Registry : /\ row.effective_holder = account /\ row.term_ends # None
                        /\ row.title_holder # account}

\* RoleGate, for a screen that requires a holder
HoldsSomething(account) == Owned(account) \cup Renting(account) # {}

\* Everything an account could transfer, with the latest end of a term of it.
TransferableRights(account) ==
    {[right |-> row, maySell |-> TRUE, maxTermEnds |-> row.validity.until] :
        row \in {r \in Owned(account) : r.active}}
    \cup
    {[right |-> row, maySell |-> FALSE, maxTermEnds |-> row.term_ends] :
        row \in {r \in Renting(account) : r.active}}

\* The Transfer screen, for holders, offers the commands for what may be sold, the
\* rental one until the week, or the term, ends.
Minimum(m, n) == IF m <= n THEN m ELSE n
OffersToProve(account) ==
    {[id |-> o.right.id, from |-> account, rental_until |-> Minimum(o.right.week.end, o.maxTermEnds)] :
        o \in {o \in TransferableRights(account) :
                 o.maySell /\ HoldsSomething(account)}}

-----------------------------------------------------------------------------
(* What the contract thinks of it                                           *)

Granted(id, from, to, expires_at) ==
    /\ ActiveError(rights[id].validity, now) = Ok
    /\ GrantError(rights[id].holdings, rights[id].validity.until, from, to, expires_at, now) = Ok

\* "For rent" and "For sale" answer "can I take this one" (list/page.tsx, 247): a
\* week shown there can be taken, as it is offered, by any account but its owner,
\* from the owner, who is in possession; whoever left the listing there, whatever
\* was rented or sold before it, and however much of the window has gone by.
ShopWindowCanBeTaken ==
    \A row \in Registry : \A to \in Accounts \ {row.title_holder} :
        /\ Matches(row, "sale", to) => Granted(row.id, row.title_holder, to, None)
        /\ Matches(row, "rent", to) => Granted(row.id, row.title_holder, to, row.week.end)

\* The commands the Transfer screen prints are for transfers the contract would
\* grant (roles.ts, 184: naming the limits "is what stops the form offering something
\* that would be refused"): the sale, and while the week is not over the rental.
OfferedTransfersAreGranted ==
    \A account \in Accounts : \A o \in OffersToProve(account), to \in Accounts \ {account} :
        /\ Granted(o.id, account, to, None)
        /\ ~WeekIsOver(rights[o.id].period.end) => Granted(o.id, account, to, o.rental_until)
=============================================================================
