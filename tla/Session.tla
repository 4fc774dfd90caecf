------------------------------- MODULE Session -------------------------------
(***************************************************************************)
(* Who is signed in: the wallet provider of the pages, and the SEP-10      *)
(* routes that mint its sessions.                                          *)
(*                                                                         *)
(* The browser runs without interruption between two awaits; signing in is *)
(* three of them (the wallet, the proof of control, the standing).         *)
(* Meanwhile the user may press Disconnect, which no button state forbids, *)
(* earlier calls may answer, and sessions run out.  A session token is its *)
(* number in the order of minting.  A challenge that expires, is refused   *)
(* or never comes back ends the sign-in, as any other failure does.        *)
(***************************************************************************)
EXTENDS Sequences, Naturals, FiniteSets

CONSTANTS
    Accounts,
    None,           \* null, no account
    Needs,          \* Needs[a]: the accounts whose keys must sign for a (its threshold)
    \* Bound of the model
    MaxSessions

VARIABLES
    address,      \* the account the wallet named
    token,        \* the session, set once control of an account is proved
    standing,     \* the account whose roles and weeks are shown
    flow,         \* the sign-in under way: busy is flow # NoFlow
    refreshes,    \* the sessions of the refreshStanding calls that are out
    calls,        \* the sessions of the authFetch calls that are out
    minted,       \* the account each session was minted for
    expired,      \* the sessions the server no longer accepts
    \* History, read by no action
    interrupted   \* Disconnect was pressed during a sign-in

shown == <<address, token, standing>>
server == <<minted, expired>>
vars == <<shown, flow, refreshes, calls, server, interrupted>>

NoFlow == [at |-> "none", account |-> None, token |-> None]
busy == flow # NoFlow
Tokens == 1..Len(minted)

\* A wallet connected before names its address again; a session never survives.
Init ==
    /\ address \in Accounts \cup {None}
    /\ token = None /\ standing = None
    /\ flow = NoFlow
    /\ refreshes = {} /\ calls = {}
    /\ minted = << >> /\ expired = {}
    /\ interrupted = FALSE

-----------------------------------------------------------------------------
(* The server                                                               *)

\* authenticatedAccount: null for no token, or one that is no longer good.
AuthenticatedAccount(t) == IF t \in Tokens \ expired THEN minted[t] ELSE None

\* What verifyChallenge asks of the signatures: the account's own threshold, or,
\* when Horizon does not answer for the account, its master key.
Proves(keys, account, known) ==
    IF known THEN Needs[account] \subseteq keys ELSE account \in keys

Expire(t) ==
    /\ t \in Tokens \ expired
    /\ expired' = expired \cup {t}
    /\ UNCHANGED <<shown, flow, refreshes, calls, minted, interrupted>>

-----------------------------------------------------------------------------
(* connect                                                                  *)

\* Mutant: the button is offered to someone who is signed in, too.
MayConnectAgain == ~busy

\* Every Connect and Sign in button: not while one is under way, and only for
\* somebody who is not signed in.
MayConnect == ~busy /\ (address = None \/ token = None)

Connect ==
    /\ MayConnect
    /\ flow' = [NoFlow EXCEPT !.at = "wallet"]
    /\ UNCHANGED <<shown, refreshes, calls, server, interrupted>>

\* connectWallet answers, and walletNetwork does not object.
Choose(account) ==
    /\ flow.at = "wallet"
    /\ address' = account
    /\ flow' = [at |-> "proof", account |-> account, token |-> None]
    /\ UNCHANGED <<token, standing, refreshes, calls, server, interrupted>>

\* The challenge is signed, by whichever keys the wallets hold, and comes back
\* as a session.
Prove(keys, known) ==
    /\ flow.at = "proof" /\ Len(minted) < MaxSessions
    /\ Proves(keys, flow.account, known)
    /\ minted' = Append(minted, flow.account)
    /\ token' = Len(minted) + 1
    /\ flow' = [flow EXCEPT !.at = "standing", !.token = Len(minted) + 1]
    /\ UNCHANGED <<address, standing, refreshes, calls, expired, interrupted>>

\* loadStanding, by a sign-in
Load ==
    /\ flow.at = "standing" /\ AuthenticatedAccount(flow.token) # None
    /\ standing' = AuthenticatedAccount(flow.token)
    /\ flow' = NoFlow
    /\ UNCHANGED <<address, token, refreshes, calls, server, interrupted>>

\* Any step of it throws, /api/me's 401 included: what was set stays set.
Fail ==
    /\ busy
    /\ flow' = NoFlow
    /\ UNCHANGED <<shown, refreshes, calls, server, interrupted>>

-----------------------------------------------------------------------------
(* The other calls                                                          *)

RefreshStanding ==
    /\ token # None
    /\ refreshes' = refreshes \cup {token}
    /\ UNCHANGED <<shown, flow, calls, server, interrupted>>

\* Its own 401 is only an error message: it does not go through authFetch.
RefreshAnswers(t) ==
    /\ t \in refreshes
    /\ refreshes' = refreshes \ {t}
    /\ standing' \in {standing} \cup ({AuthenticatedAccount(t)} \ {None})
    /\ UNCHANGED <<address, token, flow, calls, server, interrupted>>

AuthFetch ==
    /\ token # None
    /\ calls' = calls \cup {token}
    /\ UNCHANGED <<shown, flow, refreshes, server, interrupted>>

\* A 401 ends the session of the moment, whichever session the call was of.
FetchAnswers(t) ==
    /\ t \in calls
    /\ calls' = calls \ {t}
    /\ token' = IF AuthenticatedAccount(t) = None THEN None ELSE token
    /\ UNCHANGED <<address, standing, flow, refreshes, server, interrupted>>

\* The timer set for the session's own expiry, by a clock that agrees with the
\* server's.  The roles shown stay where they are.
Timer ==
    /\ token \in expired
    /\ token' = None
    /\ UNCHANGED <<address, standing, flow, refreshes, calls, server, interrupted>>

Disconnect ==
    /\ address # None
    /\ address' = None /\ token' = None /\ standing' = None
    /\ interrupted' = (interrupted \/ busy)
    /\ UNCHANGED <<flow, refreshes, calls, server>>

-----------------------------------------------------------------------------
Next ==
    \/ Connect \/ Load \/ Fail
    \/ \E account \in Accounts : Choose(account)
    \/ \E keys \in SUBSET Accounts, known \in BOOLEAN : Prove(keys, known)
    \/ RefreshStanding \/ AuthFetch \/ Timer \/ Disconnect
    \/ \E t \in Tokens : Expire(t) \/ RefreshAnswers(t) \/ FetchAnswers(t)

Spec == Init /\ [][Next]_vars

-----------------------------------------------------------------------------
\* The wallet button, once it says that an account is verified.
RolesShown == address # None /\ token # None /\ standing # None

TypeOK ==
    /\ address \in Accounts \cup {None}
    /\ minted \in Seq(Accounts) /\ Len(minted) <= MaxSessions
    /\ token \in Tokens \cup {None}
    /\ standing \in Accounts \cup {None}
    /\ flow \in [at : {"none", "wallet", "proof", "standing"},
                 account : Accounts \cup {None}, token : Tokens \cup {None}]
    /\ refreshes \subseteq Tokens /\ calls \subseteq Tokens /\ expired \subseteq Tokens
    /\ interrupted \in BOOLEAN

\* Unless Disconnect was pressed in the middle of a sign-in, the account shown as
\* signed in is the one the session in use was minted for: whatever sessions run
\* out, and whichever calls of earlier sessions are answered late.
SessionIsOfItsAccount ==
    token # None /\ ~interrupted => address = minted[token]

\* "an account proven with its roles shown" (lines 293-296): the roles are those
\* of the account shown, and of the session that proves it.
RolesShownAreProven ==
    RolesShown => standing = address /\ minted[token] = address
=============================================================================
