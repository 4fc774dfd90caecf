------------------------------- MODULE ListPage -------------------------------
(***************************************************************************)
(* The List screen: the registry, its filters, and what an account may do  *)
(* from a card.                                                            *)
(*                                                                         *)
(* Each action on a card is a chain of calls the page awaits one by one.   *)
(* A chain keeps what it was started with, the account and its session,    *)
(* while the account signed in may leave and another come; Session says it *)
(* never changes in one step.  One variable, busyRight, disables the card  *)
(* being worked on, for all cards: an action on another card overwrites    *)
(* it, and the end of any chain clears it.  Effects run with the step that *)
(* changes what they depend on.                                            *)
(*                                                                         *)
(* What the routes answer is given, Rows and AsksOf: the registry changes  *)
(* under the page at any time.                                             *)
(***************************************************************************)
EXTENDS Sequences, Naturals, FiniteSets

CONSTANTS
    Accounts, Issuer, None,
    Rights,
    Rows,         \* Rows[right]: what the registry may say of it
    AsksOf,       \* AsksOf[account]: the open asks it may be party to
    CanRequest, ReadOnly,   \* what the deployment can do (api/me)
    \* Bound of the model
    MaxClicks

\* A right as the page reads it: what it is offered for, and what the issuer says.
Row == [title : Accounts, holder : Accounts, rented : BOOLEAN,
        listing : {"rent", "sale", None}, over : BOOLEAN, active : BOOLEAN,
        fees : {"current", "due", None}]
Filters == {"all", "rent", "sale", "rented", "yours", "pending"}

VARIABLES
    account,        \* the account signed in, None for a visitor
    inventory,      \* Rights -> Row, once the registry was read
    asks,           \* the open asks shown: [incoming, outgoing]
    filter, autoSelected,
    busyRight,      \* the card whose buttons are disabled
    flows,          \* the chains started: what each does, and where it is
    registryReads,  \* whether the registry is being read
    asksReads       \* the accounts whose asks are being read

page == <<inventory, asks, filter, autoSelected>>
vars == <<account, page, busyRight, flows, registryReads, asksReads>>

NoAsks == [incoming |-> {}, outgoing |-> {}]

-----------------------------------------------------------------------------
(* The filters                                                              *)

IsSublet(row) == row.rented /\ row.listing # None
IsBlocked(row) == IsSublet(row) \/ row.over

Matches(right, which) ==
    LET row == inventory[right] IN
    CASE which \in {"rent", "sale"} -> row.listing = which /\ ~IsBlocked(row)
      [] which = "rented"  -> row.rented
      [] which = "yours"   -> account # None /\ account \in {row.holder, row.title}
      [] which = "pending" -> right \in asks.incoming \cup asks.outgoing
      [] which = "all"     -> TRUE

Shown == IF inventory = None THEN {} ELSE {r \in Rights : Matches(r, filter)}

\* Landing, once, on what waits for the account, or on its own weeks: for whatever
\* the three are after the step.
AutoSelect(who, rows, open) ==
    LET yours == rows # None /\ \E r \in Rights : who \in {rows[r].holder, rows[r].title}
        due == ~autoSelected /\ who # None /\ (open.incoming # {} \/ yours)
    IN /\ autoSelected' = (autoSelected \/ due)
       /\ filter' = IF ~due THEN filter
                    ELSE IF open.incoming # {} THEN "pending" ELSE "yours"

Init ==
    /\ account = None
    /\ inventory = None /\ asks = NoAsks
    /\ filter = "all" /\ autoSelected = FALSE
    /\ busyRight = None /\ flows = << >>
    /\ registryReads = TRUE /\ asksReads = {}

-----------------------------------------------------------------------------
(* Signing in and out, elsewhere on the page; its asks are read or dropped  *)

SignIn(who) ==
    /\ account = None /\ account' = who
    /\ asksReads' = asksReads \cup {who}
    /\ AutoSelect(who, inventory, asks)
    /\ UNCHANGED <<inventory, asks, busyRight, flows, registryReads>>

SignOut ==
    /\ account # None /\ account' = None
    /\ asks' = NoAsks
    /\ UNCHANGED <<inventory, filter, autoSelected, busyRight, flows, registryReads, asksReads>>

-----------------------------------------------------------------------------
(* load and loadRequests                                                    *)

ShowRegistry(rows) ==
    /\ inventory' = rows
    /\ AutoSelect(account, rows, asks)
    /\ UNCHANGED asks

\* The asks of the account they were read for, whoever is signed in by now.  A reply that
\* is a refusal names none, which is how it is shown; a call that throws changes nothing.
ShowAsks(open) ==
    /\ asks' = open
    /\ AutoSelect(account, inventory, open)
    /\ UNCHANGED inventory

Readable == {rows \in [Rights -> UNION {Rows[r] : r \in Rights}] : \A r \in Rights : rows[r] \in Rows[r]}

\* A registry that cannot be read leaves what is shown.
RegistryAnswers ==
    /\ registryReads /\ registryReads' = FALSE
    /\ (\E rows \in Readable : ShowRegistry(rows)) \/ UNCHANGED page
    /\ UNCHANGED <<account, busyRight, flows, asksReads>>

AsksAnswer(who) ==
    /\ who \in asksReads /\ asksReads' = asksReads \ {who}
    /\ (\E open \in AsksOf[who] \cup {NoAsks} : ShowAsks(open)) \/ UNCHANGED page
    /\ UNCHANGED <<account, busyRight, flows, registryReads>>

-----------------------------------------------------------------------------
(* The controls of a card                                                   *)

mine(row) == account # None /\ row.holder = account
isTitleHolder(row) == account # None /\ row.title = account
mayOffer(row) == isTitleHolder(row) /\ ~row.rented
mayAsk(row) ==
    /\ row.listing # None /\ ~IsSublet(row) /\ ~row.over
    /\ account # None /\ ~mine(row) /\ CanRequest
answering == filter = "pending"

\* The buttons the card of a right carries; those of the card being worked on are
\* disabled.
Offered(right, kind) ==
    LET row == inventory[right] IN
    CASE kind = "withdraw" -> mayAsk(row) /\ right \in asks.outgoing
      [] kind = "buy"      -> mayAsk(row) /\ right \notin asks.outgoing /\ row.listing = "sale"
      [] kind = "rent"     -> mayAsk(row) /\ right \notin asks.outgoing /\ row.listing = "rent"
      [] kind = "decline"  -> mine(row) /\ right \in asks.incoming
      [] kind = "settle"   -> account = Issuer /\ ~answering /\ ~ReadOnly /\ row.fees # None
      [] kind = "unlist"   -> mine(row) /\ ~answering /\ row.listing # None
      [] kind = "list"     -> /\ mine(row) /\ ~answering /\ row.listing = None
                              /\ mayOffer(row) /\ ~row.over /\ row.active

\* changeOffer, askFor, answerRequest and settleFees: what each awaits
Script(kind) ==
    CASE kind \in {"list", "unlist"}      -> <<"build", "sign", "submit", "load">>
      [] kind = "buy"                     -> <<"consent", "signAuth", "ask", "loadRequests">>
      [] kind = "rent"                    -> <<"ask", "loadRequests">>
      [] kind \in {"decline", "withdraw"} -> <<"answer", "loadRequests">>
      [] kind = "settle"                  -> <<"settle", "load">>
Kinds == {"list", "unlist", "buy", "rent", "decline", "withdraw", "settle"}

\* Mutant: a call goes out for whoever is signed in when it does.
CallerNow(flow) == account

\* The account a call goes out for: authFetch and sign are those of the click.
Caller(flow) == flow.account

Send(flow, at) == [flow EXCEPT !.at = at, !.sentAs = @ \cup {Caller(flow)}]

Click(right, kind) ==
    /\ Len(flows) < MaxClicks
    /\ right \in Shown /\ busyRight # right
    /\ Offered(right, kind)
    /\ busyRight' = right
    /\ LET flow == [kind |-> kind, right |-> right, account |-> account, at |-> 0, sentAs |-> {}]
       IN flows' = Append(flows, Send(flow, 1))
    /\ UNCHANGED <<account, page, registryReads, asksReads>>

InStep(n) == flows[n].at # 0
LastStep(n) == Len(Script(flows[n].kind))

\* What is awaited answers, and the next call goes out.
Answers(n) ==
    /\ InStep(n) /\ flows[n].at < LastStep(n)
    /\ flows' = [flows EXCEPT ![n] = Send(@, @.at + 1)]
    /\ UNCHANGED <<account, page, busyRight, registryReads, asksReads>>

\* Mutant: an action that fails leaves its card as it is.
FinallyIfDone(n) ==
    /\ flows' = [flows EXCEPT ![n].at = 0]
    /\ busyRight' = IF flows[n].at = LastStep(n) THEN None ELSE busyRight

Finally(n) ==
    /\ flows' = [flows EXCEPT ![n].at = 0]
    /\ busyRight' = None

\* Or throws; one that is not allowed also signs the account out (SignOut).
Throws(n) ==
    /\ InStep(n) /\ flows[n].at < LastStep(n)
    /\ Finally(n)
    /\ UNCHANGED <<account, page, registryReads, asksReads>>

\* The last step reads again what the action changed; that never throws.
Ends(n) ==
    /\ InStep(n) /\ flows[n].at = LastStep(n)
    /\ \/ UNCHANGED page
       \/ /\ Script(flows[n].kind)[LastStep(n)] = "load"
          /\ \E rows \in Readable : ShowRegistry(rows)
       \/ /\ Script(flows[n].kind)[LastStep(n)] = "loadRequests"
          /\ \E open \in AsksOf[flows[n].account] \cup {NoAsks} : ShowAsks(open)
    /\ Finally(n)
    /\ UNCHANGED <<account, registryReads, asksReads>>

\* The tabs; two of them are for an account.
Pick(which) ==
    /\ inventory # None /\ which # filter
    /\ which \in {"yours", "pending"} => account # None
    /\ filter' = which
    /\ UNCHANGED <<account, inventory, asks, autoSelected, busyRight, flows, registryReads, asksReads>>

-----------------------------------------------------------------------------
Next ==
    \/ \E who \in Accounts : SignIn(who) \/ AsksAnswer(who)
    \/ SignOut \/ RegistryAnswers
    \/ \E which \in Filters : Pick(which)
    \/ \E right \in Rights, kind \in Kinds : Click(right, kind)
    \/ \E n \in DOMAIN flows : Answers(n) \/ Throws(n) \/ Ends(n)

Spec == Init /\ [][Next]_vars

-----------------------------------------------------------------------------
TypeOK ==
    /\ account \in Accounts \cup {None}
    /\ inventory = None \/ inventory \in Readable
    /\ asks.incoming \subseteq Rights /\ asks.outgoing \subseteq Rights
    /\ filter \in Filters /\ autoSelected \in BOOLEAN
    /\ busyRight \in Rights \cup {None}
    /\ Len(flows) <= MaxClicks
    /\ \A n \in DOMAIN flows : flows[n].kind \in Kinds /\ flows[n].at \in 0..LastStep(n)
    /\ registryReads \in BOOLEAN /\ asksReads \subseteq Accounts

\* Everything sent on behalf of an action is sent for the account that clicked, to
\* whom the card had offered it, although that account may sign out while the action
\* waits and another sign in before its next call.
ActionsAreTheClickers ==
    \A n \in DOMAIN flows : flows[n].account # None /\ flows[n].sentAs \subseteq {flows[n].account}

\* A card whose buttons are disabled is one an action is under way on: no action,
\* however it ends and whatever other cards are worked on meanwhile, leaves a card
\* that nobody can use until the page is loaded anew.
BusyCardIsWorkedOn ==
    busyRight # None => \E n \in DOMAIN flows : InStep(n) /\ flows[n].right = busyRight
=============================================================================
