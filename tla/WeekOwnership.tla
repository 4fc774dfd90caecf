---------------------------- MODULE WeekOwnership ----------------------------
(***************************************************************************)
(* What the rights contract promises, without chains, proofs or errors:    *)
(* each week has one title holder and at most one tenant.  Title moves or  *)
(* is destroyed only while the week has no tenant, a tenancy is inside the *)
(* week's window and always runs its course, and it ends by itself.        *)
(***************************************************************************)
EXTENDS Integers

CONSTANTS
    Accounts,
    Times,       \* the times a window or a tenancy may begin or end
    NoTenancy

VARIABLES
    now,       \* the clock
    minted,    \* how many weeks were ever minted; ids are 1..minted
    title,     \* title[id]: the account that holds title, for live ids
    window,    \* window[id]: [from, until], fixed at minting
    tenancy    \* tenancy[id]: the last tenancy granted, over or not

vars == <<now, minted, title, window, tenancy>>

Tenanted(id) == tenancy[id] # NoTenancy /\ tenancy[id].until > now
Open(id) == window[id].from <= now /\ now < window[id].until

With(f, key, value) == [k \in DOMAIN f \cup {key} |-> IF k = key THEN value ELSE f[k]]
Without(f, key) == [k \in DOMAIN f \ {key} |-> f[k]]

Init ==
    /\ now = 0 /\ minted = 0
    /\ title = << >> /\ window = << >> /\ tenancy = << >>

Mint(owner, from, until) ==
    /\ from < until
    /\ minted' = minted + 1
    /\ title' = With(title, minted', owner)
    /\ window' = With(window, minted', [from |-> from, until |-> until])
    /\ tenancy' = With(tenancy, minted', NoTenancy)
    /\ UNCHANGED now

Sell(id, buyer) ==
    /\ Open(id) /\ ~Tenanted(id) /\ buyer # title[id]
    /\ title' = [title EXCEPT ![id] = buyer]
    /\ tenancy' = [tenancy EXCEPT ![id] = NoTenancy]
    /\ UNCHANGED <<now, minted, window>>

Let(id, tenant, until) ==
    /\ Open(id) /\ ~Tenanted(id) /\ tenant # title[id]
    /\ now < until /\ until <= window[id].until
    /\ tenancy' = [tenancy EXCEPT ![id] = [tenant |-> tenant, until |-> until]]
    /\ UNCHANGED <<now, minted, title, window>>

Retire(id) ==
    /\ ~Tenanted(id)
    /\ title' = Without(title, id)
    /\ window' = Without(window, id)
    /\ tenancy' = Without(tenancy, id)
    /\ UNCHANGED <<now, minted>>

Tick ==
    /\ now' \in Nat /\ now' > now
    /\ UNCHANGED <<minted, title, window, tenancy>>

Next ==
    \/ \E owner \in Accounts, from, until \in Times : Mint(owner, from, until)
    \/ \E id \in DOMAIN title :
          \/ \E other \in Accounts :
                \/ Sell(id, other)
                \/ \E until \in Times : Let(id, other, until)
          \/ Retire(id)
    \/ Tick

Spec == Init /\ [][Next]_vars
=============================================================================
