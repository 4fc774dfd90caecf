------------------------------- MODULE Pages -------------------------------
(***************************************************************************)
(* What runs in the browser, and the client that reads the network, as     *)
(* scenes: reading the registry, signing in, the four screens, and paging  *)
(* through events.  In one scene only its own variables move; those of the *)
(* others are absent (None), and the registry's as they are before it is   *)
(* read.                                                                   *)
(***************************************************************************)
EXTENDS Inventory, Sequences, FiniteSets

CONSTANTS
    None, Blank, Bad,
    Accounts, Hashes,
    Needs,                        \* Session
    Ids, Holders, Digests,        \* VerifyPage
    Readings, OnFile, Pasted,     \* its Rows and Files
    Issuer, Rights, Rows, AsksOf, CanRequest, ReadOnly,   \* ListPage
    Bodies,                       \* IssuePage
    Seller, Files,                \* TransferPage
    Reach, Span, Limit, MaxPages, Restarts, Margin, Day,  \* EventPages; its Attempts
    \* Bounds of the model
    MaxSessions, MaxPastes, MaxClicks, MaxAsks, MaxWeeks, MaxEdits, MaxSent,
    MaxUploads, MaxHead, MaxEvents

VARIABLES
    scene,
    \* Session
    address, token, standing, flow, refreshes, calls, minted, expired, interrupted,
    \* VerifyPage
    tab, rightId, right, history, pasted, attestationText, claimedHolder, checks,
    main, reads, fetches, digests, pastings,
    \* ListPage
    account, inventory, asks, filter, autoSelected, busyRight, flows,
    registryReads, asksReads,
    \* IssuePage
    isIssuer, recordText, preview, previewing, secretHash, queue, reading, selected,
    call, result, open, weeks, edits,
    \* TransferPage
    file, uploads, task, outcome, title, tenant, sent, requests, dead,
    \* EventPages
    head, log, stage, start, scanned, past, found, pages, tries, seen

sessionVars == <<
    address, token, standing, flow, refreshes, calls, minted, expired, interrupted>>
verifyVars == <<
    tab, rightId, right, history, pasted, attestationText, claimedHolder, checks,
    main, reads, fetches, digests, pastings>>
listVars == <<
    account, inventory, asks, filter, autoSelected, busyRight, flows,
    registryReads, asksReads>>
issueVars == <<
    isIssuer, recordText, preview, previewing, secretHash, queue, reading, selected,
    call, result, open, weeks, edits>>
transferVars == <<
    file, uploads, task, outcome, title, tenant, sent, requests, dead>>
eventVars == <<
    head, log, stage, start, scanned, past, found, pages, tries, seen>>

-----------------------------------------------------------------------------
(* The scenes *)

Session == INSTANCE Session
Verify == INSTANCE VerifyPage WITH
    Rows <- Readings, Files <- OnFile, MaxEdits <- MaxPastes,
    recordText <- pasted, edits <- pastings
List == INSTANCE ListPage
Issuing == INSTANCE IssuePage
Transferring == INSTANCE TransferPage
Events == INSTANCE EventPages WITH Attempts <- Restarts

\* What the registry and the issuer's files answer for a right is about that right, and
\* what stands for nothing at all cannot be taken for anything else.
ASSUME PagesAssumption ==
    /\ \A id \in Ids : /\ Readings[id] \subseteq {row \in Verify!Row : row.id = id}
                       /\ OnFile[id] \subseteq Verify!Attestation
    /\ Pasted \subseteq Verify!Attestation
    /\ Blank \notin Digests /\ None \notin Verify!Row
    /\ None \notin Accounts /\ Issuer # None
    /\ \A who \in Accounts : AsksOf[who] \subseteq [incoming : SUBSET Rights, outgoing : SUBSET Rights]
    /\ Seller \in Accounts /\ Files \subseteq Transferring!File

\* An attempt to read the events has at least one page, and a page room for an event.
ASSUME NumbersAssumption ==
    /\ {Reach, Span, Restarts, Margin, Day} \subseteq Nat /\ {Limit, MaxPages} \subseteq Nat \ {0}
    /\ {MaxSessions, MaxClicks, MaxHead, MaxEvents} \subseteq Nat

-----------------------------------------------------------------------------
(* What a scene leaves alone *)

NoRegistry == Init /\ next_id = 1

NoSession ==
    /\ address = None /\ token = None /\ standing = None /\ flow = None /\ refreshes = None
    /\ calls = None /\ minted = None /\ expired = None /\ interrupted = None

NoVerify ==
    /\ tab = None /\ rightId = None /\ right = None /\ history = None /\ pasted = None
    /\ attestationText = None /\ claimedHolder = None /\ checks = None /\ main = None
    /\ reads = None /\ fetches = None /\ digests = None /\ pastings = None

NoList ==
    /\ account = None /\ inventory = None /\ asks = None /\ filter = None
    /\ autoSelected = None /\ busyRight = None /\ flows = None /\ registryReads = None
    /\ asksReads = None

NoIssuing ==
    /\ isIssuer = None /\ recordText = None /\ preview = None /\ previewing = None
    /\ secretHash = None /\ queue = None /\ reading = None /\ selected = None /\ call = None
    /\ result = None /\ open = None /\ weeks = None /\ edits = None

NoTransfer ==
    /\ file = None /\ uploads = None /\ task = None /\ outcome = None /\ title = None
    /\ tenant = None /\ sent = None /\ requests = None /\ dead = None

NoEvents ==
    /\ head = None /\ log = None /\ stage = None /\ start = None /\ scanned = None
    /\ past = None /\ found = None /\ pages = None /\ tries = None /\ seen = None

offline == <<scene, sessionVars, verifyVars, listVars, issueVars, transferVars, eventVars>>
all == <<vars, offline>>

-----------------------------------------------------------------------------
ScenesInit ==
    \/ scene = "registry" /\ Init
       /\ NoSession /\ NoVerify /\ NoList /\ NoIssuing /\ NoTransfer /\ NoEvents
    \/ scene = "session" /\ Session!Init
       /\ NoRegistry /\ NoVerify /\ NoList /\ NoIssuing /\ NoTransfer /\ NoEvents
    \/ scene = "verify" /\ Verify!Init
       /\ NoRegistry /\ NoSession /\ NoList /\ NoIssuing /\ NoTransfer /\ NoEvents
    \/ scene = "list" /\ List!Init
       /\ NoRegistry /\ NoSession /\ NoVerify /\ NoIssuing /\ NoTransfer /\ NoEvents
    \/ scene = "issue" /\ Issuing!Init
       /\ NoRegistry /\ NoSession /\ NoVerify /\ NoList /\ NoTransfer /\ NoEvents
    \/ scene = "transfer" /\ Transferring!Init
       /\ NoRegistry /\ NoSession /\ NoVerify /\ NoList /\ NoIssuing /\ NoEvents
    \/ scene = "events" /\ Events!Init
       /\ NoRegistry /\ NoSession /\ NoVerify /\ NoList /\ NoIssuing /\ NoTransfer

SessionMoves ==
    /\ scene = "session" /\ Session!Next
    /\ UNCHANGED <<scene, vars, verifyVars, listVars, issueVars, transferVars, eventVars>>
VerifyMoves ==
    /\ scene = "verify" /\ Verify!Next
    /\ UNCHANGED <<scene, vars, sessionVars, listVars, issueVars, transferVars, eventVars>>

ScenesNext ==
    \/ scene = "registry" /\ Next /\ UNCHANGED offline
    \/ SessionMoves
    \/ VerifyMoves
    \/ /\ scene = "list" /\ List!Next
       /\ UNCHANGED <<scene, vars, sessionVars, verifyVars, issueVars, transferVars, eventVars>>
    \/ /\ scene = "issue" /\ Issuing!Next
       /\ UNCHANGED <<scene, vars, sessionVars, verifyVars, listVars, transferVars, eventVars>>
    \/ /\ scene = "transfer" /\ Transferring!Next
       /\ UNCHANGED <<scene, vars, sessionVars, verifyVars, listVars, issueVars, eventVars>>
    \/ /\ scene = "events" /\ Events!Next
       /\ UNCHANGED <<scene, vars, sessionVars, verifyVars, listVars, issueVars, transferVars>>

\* The fairness is Inventory's.
Scenes ==
    /\ ScenesInit /\ [][ScenesNext]_all
    /\ WF_all(scene = "registry" /\ (ReadNextId \/ NextIdFails) /\ UNCHANGED offline)
    /\ WF_all(scene = "registry" /\ Return /\ UNCHANGED offline)
    /\ \A w \in Workers : WF_all(scene = "registry" /\ Loop(w) /\ UNCHANGED offline)

\* One scene alone
SessionScene == (ScenesInit /\ scene = "session") /\ [][SessionMoves]_all
VerifyScene == (ScenesInit /\ scene = "verify") /\ [][VerifyMoves]_all

-----------------------------------------------------------------------------
(* What each scene is checked for; the modules say why                      *)

\* Each part keeps its types.
TypesOK ==
    /\ TypeOK
    /\ scene = "session" => Session!TypeOK
    /\ scene = "verify" => Verify!TypeOK
    /\ scene = "list" => List!TypeOK
    /\ scene = "issue" => Issuing!TypeOK
    /\ scene = "transfer" => Transferring!TypeOK
    /\ scene = "events" => Events!TypeOK

\* Whatever fails, reading the registry ends (contract.ts, readInventory).
RegistryReadEnds == scene = "registry" ~> step \in {"done", "failed"}

\* Unless Disconnect was pressed in the middle of a sign-in, the account shown as
\* signed in is the one the session in use was minted for (WalletProvider.tsx).
SessionIsOfItsAccount == scene = "session" => Session!SessionIsOfItsAccount

\* A result of the verify page that needed no hashing stands under the right it was
\* made for, and one made by id rests on what is on file for that right.
ResultIsOfTheWeekShown == scene = "verify" => Verify!ResultIsOfTheWeekShown

\* Every sentence of the verify page's good news is true of what was put in.
SummaryIsSupported == scene = "verify" => Verify!SummaryIsSupported

\* Everything the list page sends on behalf of an action is sent for the account that
\* clicked, although another may have signed in since.
ActionsAreTheClickers == scene = "list" => List!ActionsAreTheClickers

\* A card of the list page whose buttons are disabled is one an action is under way on.
BusyCardIsWorkedOn == scene = "list" => List!BusyCardIsWorkedOn

\* The record the issue page offers to save is the one the week was issued for.
SavedIsWhatWasIssued == scene = "issue" => Issuing!SavedIsWhatWasIssued

\* A week issued from an ask is issued to the account that asked, under the h shown.
AsksAreIssuedAsShown == scene = "issue" => Issuing!AsksAreIssuedAsShown

\* What the transfer page announces is what became of the transaction it names.
OutcomeIsOfItsTransaction == scene = "transfer" => Transferring!OutcomeIsOfItsTransaction

\* The transaction an accepted ask names went through, and moved the week as asked.
AcceptedByItsTransaction == scene = "transfer" => Transferring!AcceptedByItsTransaction

\* A list of transfers has each of them once, in order and without a gap; what it leaves
\* out at its end is beyond the last of its pages, or in the same ledger as the end of a
\* full one (contract.ts, readTransferEvents).
ListedOnceAndComplete == scene = "events" => Events!ListedOnceAndComplete

-----------------------------------------------------------------------------
(* What the comments say and the code does not do *)

\* WalletProvider.tsx, lines 293-296: "an account proven with its roles shown".
RolesShownAreProven == scene = "session" => Session!RolesShownAreProven

\* verify/page.tsx, line 83: "This week's accepted transfers the RPC still remembers".
HistoryIsOfTheWeek == scene = "verify" => Verify!HistoryIsOfTheWeek
=============================================================================
