# QuietStay: specifications and proofs

QuietStay issues timeshare weeks as *usage rights* on Stellar. A right is sold
or rented with one contract call, which needs the holder's signature and a
zero-knowledge proof that the holder knows the secret behind the right's
commitment. Around the contract there is a Next.js application that keeps, off
chain, what people ask each other for and what the issuer attests.

This directory holds TLA+ modules translated from the code, TLC runs that check
them on small instances, and theorems checked by TLAPS for all instances.
`PROJECT.json` maps every definition to the lines it stands for.

## The system

| Part | Source | State it keeps | Operations |
| --- | --- | --- | --- |
| Rights contract | `contracts/quietstay-rights/src/{lib,store,auth,types,verifier}.rs` | next id; per right: week, window, commitment, holding chain; listing per right; title count per account; spent nullifiers (temporary entries) | constructor, `issue`, `list`, `unlist`, `transfer`, `burn`, views |
| Transfer circuit and prover | `circuits/gpl/transfer.circom`, `scripts/lib/zk*.ts` | none (the holder keeps record and secret) | public signals and the relation they satisfy |
| Verifier contract | `contracts/quietstay-verifier` | a key | measurement only |
| Transfer requests | `src/lib/requests.ts`, `src/app/api/requests/**`, `src/lib/consent.ts` | per right a list of requests, in a key-value store or a file | ask, withdraw, decline, record acceptance |
| Issuance | `src/app/api/issue`, `src/app/api/requests/issuance` | issuance asks, spent secret hashes | ask, issue (check, submit, attest, close) |
| Attestations | `src/lib/attestation*.ts`, `src/app/api/settle-fees`, `scripts/{attest,describe}.ts` | signed attestation per right, shipped with the build or written later | attest, settle fees, describe, verify |
| Contract client | `src/lib/contract.ts` | none | read the registry, submit and poll, read events |
| Sessions and standing | `src/lib/{sep10,roles,wallet-kit}.ts`, `src/app/api/{auth,me}`, `WalletProvider.tsx` | per page: address, session token, standing, the sign-in under way; the server keeps nothing | challenge, sign in, refresh, expire, disconnect |
| Screens | `src/app/{list,issue,verify,transfer}/page.tsx` | what is shown, what is being edited, the calls that are out | read, filter, offer, ask, answer, settle; edit and issue; verify; build, sign, submit and record a transfer |
| Records, formatting, errors | `src/lib/{record,canonical,format,errors,secret-hash}.ts` | none | pure functions |
| Scripts | `scripts/*.ts` | files | end-to-end runs, evidence, deployment |

How they interact. The application reads the contract by simulation and writes
it by submitting transactions that wallets sign; the contract never reads the
application. The asking and answering routes read the contract to decide who may
answer, but the store they write is a separate system, updated by
read-modify-write. The issuing route goes through all of them in one request. The
screens call the routes one after the other, each step of a chain after the answer to the
one before; the only thing that survives a reload is the address the wallet names.

What is hard. In the contract: terms that end with nothing written, so that
every operation must interpret the chain at its own time; a replay guard whose
storage the network deletes; a commitment whose contents the contract cannot
see; redundant state (title counts, listings) kept in step by hand. Off chain:
handlers interleaved at every `await`, a store that can be unreachable at any
call, a transaction that is included after its submitter gave up. In the browser: a user who
edits, switches, signs out or uploads something else while a call is out, and answers that
come when the page is about another week, another account or another file.

What makes each part correct:

* *Contract* — chains keep their shape; title moves only by an accepted proof,
  with nobody renting, to somebody who can prove next; a term is never cut short
  and ends by itself; no proof is accepted twice; counts and listings agree with
  the chains; a title holder is never locked out.
* *Circuit* — the record a right stands for survives every sale.
* *Requests* — an acknowledged request is not lost, an answer is final and given
  by the party entitled to it, `accepted` means the transfer asked for happened.
* *Issuance* — a week on chain has an attestation of its own record, and a secret
  secures one week.
* *Attestations* — what a verifier accepts is the issuer's latest word on the
  right in front of it.
* *Contract client* — a registry answer is complete or an error; a list of transfers has
  each of them once, in order and without a gap, and lacks only what comes after it.
* *Sessions* — the account shown as verified is the one that proved control, with its own roles.
* *Screens* — what is offered would be granted; a verdict is about the week on the page and
  says no more than was checked; what is saved is what was issued; a call is made for the
  account that asked for it; what is announced and recorded is what happened on chain.

## Modules

| Module | What it is |
| --- | --- |
| `HoldingChain` | The chain rules of `store.rs` as operators: what has lapsed, who is in possession, which grants are refused and what a grant leaves. |
| `OwnershipProof` | The circuit's relation and the prover's signals, symbolically. |
| `QuietStayRights` | The contract: its storage as variables, one action per entry point, `LedgerClose` for the network; the properties. |
| `WeekOwnership` | What the contract promises, with titles and tenancies only: mint, sell, let, retire, time passes. |
| `MC_QuietStayRights` | Instances for TLC. |
| `QuietStayRightsProofs` | Lemmas about the chain operators, the inductive invariant and the theorems that follow from it directly, and that no proof is accepted twice. |
| `TitleProofs` | What a step may never do to a title, a record or a term; whose listings there are and what balances count; the contract implements `WeekOwnership`; what is on show or on offer is granted, and no title holder is locked out. |
| `PagesProofs` | The scenes of `Pages`: the registry read is complete and implements `RegistryRead`, signing in and the four screens keep their invariants, a list of transfers has each once and no gap, and everything keeps its type. |
| `Requests` | Asks and answers about one week: the stored list, the asking and answering handlers one `await` at a time, and the week moving on the contract meanwhile. |
| `AskBook` | What the stored asks promise the people they are kept for: entered once, answered once, never lost. |
| `RequestsScenes` | `Requests` in two settings: handlers interleaved, or one at a time. |
| `Issuance` | Issuing weeks: the asking and issuing handlers one `await` at a time, the network that includes transactions, the attestations written. |
| `IssuanceScenes` | `Issuance` in two settings: handlers interleaved, or one at a time. |
| `Inventory` | Reading the whole registry: loops that share a cursor, calls that are refused and retried, rights issued and burned meanwhile. |
| `RegistryRead` | What reading the registry promises: every week, or an error. |
| `Attestations` | What the issuer has signed about each right and where it is kept: attesting, settling, describing, deploying, and what the registry shows. |
| `Session` | Signing in: the wallet provider, and the sessions the SEP-10 routes mint. |
| `Shop` | What the application makes of the contract's state: rows, filters, the standing of an account, the transfers offered. Extends `QuietStayRights`. |
| `ListPage` | The List screen: registry and asks shown, filters, and the chains of calls its cards start. |
| `IssuePage` | The Issue screen: the record edited, its preview, the owners' queue, the call that issues. |
| `VerifyPage` | The Verify screen: its three kinds of check, by id or from pasted files, and the calls that answer late. |
| `TransferPage` | The Transfer screen and the two routes behind it: build, sign, submit, wait, record. |
| `EventPages` | Reading a right's transfers page by page, with cursors that may lie inside a ledger, from nodes that do not remember the same ledgers. |
| `MC_Requests`, `MC_Issuance`, `MC_Attestations` | Instances for TLC, with their symmetry. |
| `Pages` | `Inventory`, `Session`, the screens and `EventPages`, each a scene of one specification, and the properties of each. |
| `MC_Pages` | An instance of `Pages` for TLC. |
| `RequestsProofs`, `IssuanceProofs` | What holds however handlers interleave and whatever fails, and what holds besides with one handler at a time; the store is then an `AskBook`. |
| `RequestsScenesProofs`, `IssuanceScenesProofs` | The same, of the scenes the runs check. |
| `AttestationsProofs` | No record is signed or shown under another right; with one call at a time, no word of the issuer is lost. |

### How `QuietStayRights` corresponds to the contract

A contract call is one transaction: either it succeeds, or it answers an error
and every write is rolled back. So each entry point is an operator `XxxError`,
which is the error the call answers, checked in the code's order, and an action
`Xxx`, enabled when that error is `"Ok"`, with every write the call makes:
`transfer` moves the title count, spends the nullifier, replaces the chain and
the commitment, and drops the listing in one step.

Variables are the storage keys of `DataKey`: `next_id`, `rights`, `listings`,
`balances` (0 for no entry) and `nullifiers` (with each entry's live-until
ledger). `ledger` and `now` are the host's sequence number and timestamp. `spent`
and `transfers` are history, and no action reads them.

The account a call names as `from` or `by` is the one that signed it
(`require_auth`); `signed` is the secret hash a buyer's signature covers
(`require_auth_for_args`), and buyers sign only hashes of secrets they keep.
`issue` may be asked for any commitment at all, right or wrong, since the
contract cannot tell.

*Proofs.* Poseidon is a record of its inputs, so that two hashes are equal only
when the inputs are. A proof verifies exactly when private inputs exist that
satisfy the circuit (`Verifies`). A call may carry the signals of any transfer,
proved from any commitment that is stored at the time, with any deadline, and
doctored after proving in the commitment's record or account or in the
nullifier's secret. Signals with another commitment are refused by the first
comparison, and are not enumerated.

*Time.* `LedgerClose` raises the sequence number by one and the timestamp by any
gap in `Gaps`, and drops temporary entries whose live-until ledger is behind. A
new entry lives for the network's minimum, `MinTempTtl`, and `transfer` extends it
to the ledger after the proof's deadline.

*Left out:* byte encodings (signal count, canonical field elements), the time a
listing was made (nothing reads it), the issuer and the names, events, and the
TTL of persistent entries, which are archived and restored rather than lost.

### How `Requests` corresponds to the application

The requests for one right are one value in the store (a slot per right), so one
right is enough. A `Worker` is one handler invocation; `at[w]` is the `await` it
is suspended in and each action runs it to the next one. `call[w]` is what it was
called with and has read, `list[w]` the array it loaded and will write back. Lists
are functions from the request's id; the handlers find entries by id, and the
order of the array is not modelled.

`POST /api/requests` is `Ask`, `ReadListing` and `ReadHolding` (a `Promise.all`, so
in either order, with anything in between), `AskCheck`, `AskRecord`, `Save`;
`POST /api/requests/<id>` is `Answer`, `Find`, `CheckHolding`, `Update`, `Save`.
`Abandon` ends a call anywhere: a chain read that fails, a consent that does not
check out, a process that is killed.

*The store.* `loadSlot` answers the empty list when the store is unreachable, so a
failing read (`GetFails`) is an empty list. A failing write (`SetFails`) may have
been applied all the same, and the caller is told 503 (`refused`, or nothing
recorded). The file backend is the same store without failures.

*The contract* is reduced to who has been in possession and how, and what is on
offer, with the guards `QuietStayRights` establishes: only the account in
possession lists, and only a title holder in possession can prove a transfer; a
term lapses by itself. `PrepareSale` and `PrepareRental` build a transfer, `Submit`
sends it later, when the ask it was built from may have been withdrawn. A buyer's
consent is good for one sale (its nonce). At most one transfer is prepared at a
time. Left out: the end of the window as a guard on transfers, burning, and the
consent's expiry, all of which only remove behaviours.

`asked` and `writes` are history: `asked` only supplies fresh ids.

`AskBook` is the store with its readers and writers left out. The mapping is the store
itself, which a handler may be about to overwrite with the list it read some awaits ago; a step that does
not write is a stutter. With two handlers the refinement does not hold (see below), so it is
stated of the scene with one, and of `Requests` under `OneAtATime`.

### How `Issuance` corresponds to the application

`POST /api/requests/issuance` is `AskIssuance` and `SaveAsk`; `POST /api/issue` is
`Issue`, `CheckSpent`, `ReadNextId`, `BuildIssueTx`, `Submit`, `Poll`,
`SaveAttestation`, `Close`, `SaveIssuance`. The right's id is read before the
transaction is built, and the account's sequence number when it is built.

*The network.* `sent` is every transaction it took, `included` those that settled.
`Include` takes any transaction whose sequence number is the account's next, so
that two built on one number cannot both be included; one that is dropped is one
that is never included. A transaction's simulated footprint names the id it would
write, which the same rule implies: nothing but another issuance by the account
changes it. `GivesUp` lets polling stop while the transaction may still settle:
`submit` polls for about 45 seconds, and `buildInvocation` makes transactions valid
for 180.

*The list of asks* is one slot, ids increase in the order of `push`, and
`weekSecuredBy` answers the first entry a hash secures. A refused save is not an
error of the call but a note in its answer; `answers` keeps the hash, the note and
how many weeks there were, and `made` who made each entry. An attestation's content is
reduced to its record, which the digest stands for. Checks of a single record's
form, and the check that the commitment is the hash of record, account and secret, are
inputs that are already well formed: `Week` is what passes them.

### How `Inventory` corresponds to `readInventory`

A `Worker` is one of the asynchronous loops, `at[w]` the `await` it is suspended in,
`on[w]` the id `readOne` was called with. `Take` is the loop's head, `Answers` one call
of the `Promise.all` of an attempt; `Fill` follows when all have answered, `Missing`
when the first to fail says `RightNotFound`, `Refused` when it says anything else;
`Retry` is the end of the pause. Only two of the code's four calls fail in different
ways for a burned right: `get_listing` answers nothing, the others
`RightNotFound`, so the instance has one of each kind. `Return` is the `Promise.all`
over the loops. When one loop gives up, the call has failed, and the others go on
unheard: the model keeps them, so that nothing they do can make a failed
call an answer.

The values of a row are left out, and with them that its four calls may see four
different states of one right; where a decision hangs on it, in asking for a week,
`Requests` has the calls apart. `since` is history.

The mapping to `RegistryRead`: what is asked are the rights live when `next_id` was
read, what is shown are the rows at `Return`; every step of a loop is a stutter, but
for the one that gives up.

### How `Attestations` corresponds to the application and the scripts

`files` is the three places a statement can be: the key-value store, the files of the
repository, and those of them that shipped with the build. A call on the `host` has a
store; one at the `desk` has none, and reads and writes the repository. `OnFile` is
`loadAttestation`, `Shown` the row of `/api/inventory`. `Attest` is the first
statement about a right, from its record (`scripts/attest.ts` checks record and
right against each other; the issuing route does so by construction, but for the race
that `Issuance` shows); `Restate` begins a settlement (`/api/settle-fees`) or a description
(`scripts/describe.ts`), which are the same calls on different fields: `Load`,
`Sign`, `Save`. `Authentic` is `attestationIsAuthentic`: `sound` stands for schema,
network, contract, signer and signature, `right` and the window are what they are. Some
checks before the load, and the ping of the store, only end a call, as `Abandon` does.

`Deploy` ships the repository's files. `Misfile` and `Edit` are what
`inventory/route.ts` lines 64-70 and `attestation.ts` lines 375-377 guard against: a file
saved under another right's name, one changed after signing. `told` is history: what
the issuer was last told of each right's fees and description, forgotten when a
write was answered with an error.

Left out: `week_valid` (always asserted, always carried over), a writable data
directory between store and files, which is read as the store is, and
the conclusions a reader draws from an authentic statement with arrears.

### How `Session` corresponds to the wallet provider

`address`, `token`, `standing` are the provider's state, `flow` the `connect` under way: `Choose`,
`Prove` and `Load` are its three awaits, `Fail` a throw in any of them. `Disconnect` clears the
three and, as in the code, leaves the flow alone: its button is the one that is never disabled.
`RefreshStanding` and `AuthFetch` are the calls that carry the session of the render they were
made in and may answer later, `FetchAnswers` with the 401 that ends the session. `Prove`
asks for the keys `verifyChallenge` asks for: the account's threshold, or its master key when
Horizon does not know the account. The timer is set by a clock that agrees with the server's.
`interrupted` is history.

### How `Shop` corresponds to the registry, the filters and the roles

`Row` is a row of `/api/inventory`, `Matches` the List screen's filters, `Owned` and `Renting`
`deriveStanding`, `TransferableRights` and `OffersToProve` what `roles.ts` and the Transfer screen
make of it. They are operators over the contract's own variables, so the same runs that explore
the contract check what is shown of it: `ShopWindowCanBeTaken` and `OfferedTransfersAreGranted` put
the application's rules (`isBlocked`, `weekIsOver`, `active`) next to the contract's (`require_active`,
`grant`). A row is one read here.

### How the screens correspond to their pages

The browser runs a handler to its next `await`; so an action is what runs between two of them,
with the effects React runs for it. What a handler closes over is kept in its record (`flow`,
`call`, `task`, `main`), what it reads through state setters is the variable. What may interleave is
all that no `disabled` forbids. A reply that refuses is as much an answer as another where the code takes
it for one: no attestation (`FileRead`), or no asks (`AsksAnswer`).

* `ListPage`: `Click` starts the chain `Script` names, `Answers`, `Ends` and `Throws` move it, and
  `Finally` clears `busyRight`. The automatic choice of a filter is part of each step it reacts to.
  What the routes may answer is given (`Rows`, `AsksOf`), any of it at any time, since the
  registry moves.
* `IssuePage`: `Edit` (form and JSON), `Pick`, `TypeHash`; every rewriting of the text starts the
  preview anew and cancels the one before. `Issued` is the route at its most permissive;
  what it refuses is `Issuance`'s matter.
* `VerifyPage`: `CollectChecks` is `collectChecks`, each check a pair of what was looked at and whether it
  is fine, so that the summary (`allOk`, `checkedARecord`, `checkedAHolder`) can be held against what was
  put in. `sound` stands for all that makes an attestation the issuer's own and in time.
* `TransferPage`: `Build` is `/api/tx/proven-transfer` with its matching of asks and its simulation,
  `Send` and `Answered` are `submit`, `Record` is the answering route's `accepted`. `Upload` clears the
  outcome, `UploadRead` fills the box when the text has been read; `Paste` does both at once. `Settle` is the
  network, at any time after `Send`; `Throws` in the wait is the end of the polling. A proof is good
  once, a consent once and while it has not lapsed, as `QuietStayRights` and `consent.ts` have it.

### How `EventPages` corresponds to `readTransferEvents`

`log` is the sequence of the transfers accepted so far, any number of them in a ledger, of the right asked
about or of another. A node answers `GetEvents` with one page: from the cursor on, what `Span` ledgers
hold or its `Limit`-th event, whichever comes first, and with it the latest ledger. A page that is full
ends with that event, though its ledger may hold more. So a cursor has two parts: `past`, how many
events it is past, which only the node uses, and `scanned`, its ledger, which is all `ledgerOf` makes of it and
all the loop compares with the latest ledger. The first request of an attempt names a ledger, the others
the cursor of the page before. `RangeRefused` is a refusal that names the range (the next start is three
thousand ledgers after the oldest it names, or a day back), `Shed` a pause after which the attempt
starts where it started, `Unreadable` any other error. Nodes agree on the ledgers that have closed and
differ in how far back they remember.

`ListedOnceAndComplete` says what the code keeps, which is less than all transfers the node remembers: a list has
each once, in the order of the chain and without a gap, but its end may be missing. That is what is beyond the
last of the 31 pages, or, when a page fills its limit inside the latest ledger, the rest of that
ledger: the loop takes such a page for the last one. Both are reachable in the run, as is a full page
inside an earlier ledger, after which nothing is lost.

## Runs

| Run | Shows | Bounds |
| --- | --- | --- |
| `rights_one_week` | The safety of the contract, and that what the List screen shows for rent or sale can be taken. | 1 week, 3 accounts and a contract address, 2 secrets, 2 records, any commitment, 3 transfers, ledgers 0..4, window [1, 3) |
| `rights_two_weeks` | Title counts agree with the chains; a title holder in possession can always make a proof that is accepted; the Transfer screen offers only what is granted; the contract implements `WeekOwnership` under the mapping in `QuietStayRights`; every rental reverts by itself. | 2 weeks, 2 accounts, 2 transfers, ledgers 0..3, fair ledgers |
| `rights_shown` | A disagreement: after a term lapses, the route behind the verify page names the former renter as holder. | 1 week, 1 transfer |
| `requests` | Two scenes. `interleaved`, handlers interleaved at every `await`: an acceptance on record follows a transfer to the asker since the ask, and answers come from the party entitled to them. `serial`, handlers one at a time: what a caller was told is stored stays, an account has one open ask, and the store implements `AskBook`. | 2 accounts; 2 handlers, 1 ask, 3 possessions; or 1 handler, 2 asks, 2 possessions, writes that fail before or after they are applied |
| `requests_lost` | A disagreement: an ask made while the store cannot be read replaces all earlier ones. | 2 accounts, 1 handler, 2 asks, failing reads |
| `issuance` | Two scenes. `interleaved`, two handlers, failing reads and writes, transactions that settle late: an ask that reads issued was issued. `serial`, one at a time, waiting for its transaction: attestations and issued asks name their own week, a secret secures one week, and an answer without a note left the secret on record. | 2 accounts, 2 entries, 2 transactions; 1 record and secret, or 2 of each |
| `issuance_late` | A disagreement: the first call gives up, its transaction settles, and the next call's attestation is for the wrong week. | 1 handler |
| `attestations` | Nothing is signed anew for another right, nothing shown for one, and the issuer's last word on fees and on the description is what the store holds. | 2 rights, 2 texts, 1 call at a time, 2 signatures, 1 slip, statements that expire, failing writes |
| `attestations_git` | A disagreement: a statement renewed at the desk and deployed is hidden by the older one in the store. | 1 call at a time, 2 signatures, no failures |
| `pages` | Seven scenes. Reading the registry while calls are refused and rights are issued and burned is complete or an error, implements `RegistryRead`, and ends. Signing in, the four screens and the paging through events keep what the section above says makes them correct. | 2 loops, 4 rights, 2 attempts; 2 accounts, 2 sessions; 2 weeks; 2 actions, asks, issuances, transactions; 1 upload at a time; 5 ledgers, 3 events, pages of 2 |
| `session_roles` | A disagreement: Disconnect during a sign-in, then another account: shown verified, with the first one's roles. | 2 accounts, 2 sessions |
| `verify_history` | A disagreement: two weeks read one after the other; the first one's transfers answer last and are listed under the second. | 2 weeks |

A *scene* is an instance that runs alone: in its behaviours only its variables change. The scenes
of a run share nothing, and are one run because they ask the same kind of question of parts
that fit one instance. A property of a scene says nothing of the others; those whose name begins with
`Serially` are about the scene in which handlers run one at a time.

Why the bounds are enough. Three transfers are the fewest in which a sale is
undone and its proof tried again; with `MinTempTtl = MaxProofWindow = 1` an
un-extended entry is gone while its proof could still be accepted, the case
`auth.rs` describes for testnet. The window opens after the first ledger and
closes before the last, so every call happens before, in and after it. Three
accounts let a renter deal with somebody who is neither party. What the bounds
leave out (more rights, accounts, transfers, longer windows) the theorems cover.

In `Requests`, two handlers over one ask are enough for every race between an
answer and another answer, and two asks with one handler for a stale list over
another's entry; three possessions let the week go out for a term and come back.
In `Issuance`, two transactions are the fewest of which one can take the other's
id. In `Inventory`, two loops and four rights let each loop
go round twice, with the other's failure before, in or after it.
In `Attestations`, two rights are what a misfiled statement needs, and two signatures
a restatement of the first. In `Session`, the second session is the one that an answer to
the first can hurt; one account needs both keys, so that the two ways to prove control differ.
On the screens, two weeks (or files, or asks) are what a late answer can be mistaken between, and two
actions are what can overlap; `TransferPage` needs a second transaction for the submission that is
tried again. In `EventPages`, the numbers keep the order of the code's (a page is shorter than the
reach, the reach longer than a day, the margin shorter). Five ledgers and three events let a full page end at
the end of a ledger or inside one, the latest or an earlier one, the next page begin there, the
pages run out, and an attempt be refused at each page.
The interleaved scenes check what one handler at a time cannot break; the theorems lift
the bounds. What `SeriallyABook`, `SeriallyAcknowledgedStays`, `SeriallyOneOpenAskEach`,
`SeriallyIdsAgree`, `SeriallySecretsAreSpent` and `LastWordStands` say holds with one handler at a
time only. With two, the
read-modify-write of the whole list breaks those about the store, which the code
says of itself (`requests.ts`, lines 216-220).

The runs set `CHECK_DEADLOCK FALSE`: the clock stops at its bound, after which a
burned right leaves nothing to do; a store of which nobody asks anything more, a network with
nothing to include, and a page nobody uses, may likewise stand still at the models' bounds.

*Fairness.* In the contract only `LedgerClose` is fair: the network keeps closing
ledgers whatever anybody does, and no call by an account is assumed to happen. In
`Inventory` (the scene `registry`) the call itself is fair: every HTTP request is answered or fails, a timer
fires, and the event loop gets round to each loop. No request is assumed
to succeed, so `RegistryReadEnds` rests on the attempts being counted. Nothing is assumed of the
other scenes: no user has to press anything, and no call on the screens has to answer.

## Theorems

All are of the form `Spec => ...`, or `Scenes => ...` of the modules with scenes, for every
value of the constants that satisfies the named assumptions: any number of accounts, rights,
handlers and transfers, any failures.

*The contract.* The assumptions (`HoldingChainAssumption`,
`OwnershipProofAssumption`, `QuietStayRightsAssumption`) give the sets the types
the code gives them, and make `None` and the zero hash values of their own.

The inductive invariant is

    IInv == TypeOK /\ ChainsWellFormed /\ NoSublet /\ RentedByCommittedHolder

No part of it is inductive alone, except the types. That a chain stays at two
holdings depends on who can prove: the accepted proof names the account in the
commitment (circuit), the commitment of a rented right names its title holder
(`RentedByCommittedHolder`), and the caller must be in possession (`grant`). So a
call on a rented right would need one account to be both the tenant and the
title holder, which `WellFormed` excludes; this is `OnlyTheTitleHolderGrants`. Three of its parts
are invariants of `rights_one_week`; `RentedByCommittedHolder` is there for the induction.

* `TypeCorrect`, `ChainsStayWellFormed`, `NobodySublets`,
  `RentersRentFromTheCommitted` follow from it.
* `NoReplay` and `SpentStaysStored` (`QuietStayRightsProofs`): with `IInv`, the invariant
  `SpentIsStored /\ SpentOnce /\ IsFiniteSet(spent)` is inductive, because the
  nullifier names the proof's deadline (circuit) and its entry outlives it.
* `NobodyRentsPast`, and the action properties `SalesRekey`, `RecordsStay` and
  `TermsRunTheirCourse` (`TitleProofs`): from `IInv`, one lemma per action. The
  heart is `OpenEndedMeansLapsed`: when the holding in force is open-ended, every
  term of the chain is over.
* `ListersAreHolders` and `BalancesAreTitles` (`TitleProofs`): a listing is inductive
  only together with `IInv`, because it is the chain that tells that a lister who is no longer in
  possession has lapsed; a balance is the size of a set of rights, so that each step is an
  argument about one element more or less of it (`FiniteSetTheorems`).
* `ContractIsAWeekRegister`: `Spec => ImplementsWeeks`, the refinement of `WeekOwnership`. A step
  of the contract is mapped to a mint, a sale, a tenancy, a retirement or the passing of time, or
  changes nothing of titles and tenancies. With `IInv` a stored chain has one or two
  holdings, so title and tenancy are all there is in it (`TwoHoldings`, `StoredChain`).
* `ShopWindowIsHonest`, `OffersAreHonest` and `NobodyIsLockedOut` (`TitleProofs`): the filters and
  the offers leave out comparisons that the contract makes, and the invariant `ShopInv` says why
  they may: a stay ends within its window, and what is listed was listed after its window opened.
  `ShopAssumption` says that a chain may hold two holdings; with a bound of one no rental would be
  granted, and the screen would offer them all the same.
* `GrantKeepsWellFormed` and `LapsedIsSuffix` (`QuietStayRightsProofs`) are about the
  operators, for chains of any length and any bound on the depth.

*The applications' stores.* `RequestsAssumption` and `IssuanceAssumption` say that
the marks `None` and the status words are not accounts, records or secrets.

* `Requests` (`RequestsProofs`): `TypeCorrect`, `AcceptancesHappened`
  (`AcceptedMeansMoved`) and `AnswersAreEntitled` (`AnswersAreTheirsToGive`).
  `AcceptedMeansMoved` is not inductive: the check that the asker is in possession is
  made two awaits before the list is written. The strengthening says of every list
  a handler holds what the invariant says of the store, says of a handler past the check
  that the transfer it vouches for has happened, and has `PossessionPasses`:
  terms do not nest, and an account in possession later than a title holder, and other
  than it, has come by the week by a transfer in between. An ask is only taken
  from a week that is held by title, so that a lapse alone cannot make the asker the
  account in possession. Histories only grow, so what was once
  true of them stays true.
  `WhatWasToldStays` (`AcknowledgedStays`), `OneAskEach` (`OneOpenAskEach`) and
  `AnswersStand` (`AnswersAreFinal`) assume `OneAtATime`: one handler, and reads of the
  store that answer. Writes may still fail, before or after they are applied. The
  invariant `SerialInv` then says that what the handler has read still stands at each of its awaits
  (`StillStands`), so that the list it saves loses nothing.
  `TheStoreIsABook` (`ImplementsAskBook`) rests on the same invariant: the list a handler is about to
  save is the store with its own change and no other (`OwnChange`), which `SavesKeepTheBook` shows to be an
  entry by somebody without an open ask, an answer to an open one, or nothing new.
* `Issuance` (`IssuanceProofs`): `TypeCorrect`, `IssuedWasIssued`
  (`IssuedAsksHaveWeeks`) and `AttestedIsOnChain` (`AttestedWeeksExist`). The
  strengthening is again that every list held is as honest as the store, and that
  a handler past `Poll` has a transaction that was included, whose week is on chain, and
  read an id no larger than the number of weeks: the id read is at most the one
  issued, even when it is another's.
  `AttestationsAreOfTheirWeeks`, `IssuedAsksNameTheirWeeks`, `NothingIsLeftUnsaid` and
  `SecretsAreSpent` (the two halves of `SeriallyIdsAgree` and of `SeriallySecretsAreSpent`)
  assume `OneAtATime`: one handler, which waits for its transaction, and reads that answer. Writes may
  fail, and a handler may die anywhere except while it waits. The argument is about the issuer's sequence
  numbers: the only transaction that may still be included is the one waited for
  (`NothingElsePends`), so the id that was read is the id of the week it issues, and the secret
  that was looked up is still unspent when that week appears.

* The scenes (`RequestsScenesProofs`, `IssuanceScenesProofs`). A run checks `Scenes`, so these state the
  properties as the runs have them, for any bounds: `AcceptancesHappenInScenes`,
  `AnswersAreEntitledInScenes` and `IssuedWasIssuedInScenes` of both scenes, `SeriallyToldStays`,
  `SeriallyOneAskEach`, `SeriallyTheStoreIsABook`, `IdsAgree` and `SecretsAreSpentSerially` of the scene with
  one handler. A behaviour stays in its scene (`OneScene`). The interleaved one is `Spec`. The serial one
  is the same module with other constants: the theorems about it are those of the proof
  module instantiated with one handler and reads that answer (`Lone`), whose assumptions, `OneAtATime` among
  them, hold of it (`LoneAssumption`). `IssuanceScenesAssumption` says that the mark `None` is no week of
  that scene either; `RequestsScenesAssumption`, that its bounds are numbers.

* `Attestations` (`AttestationsProofs`): `TypeCorrect`, `SignaturesAreTrue`
  (`NothingIsLaundered`) and `ShownIsTrue` (`ShownIsOfItsRight`). The strengthening is
  that the statement a suspended call has read, or is about to file, is as honest as
  those on file: `Sign` checks what was loaded before the contract was read, and a
  statement once loaded does not change. The one assumption about what
  is signed first is `RecordOf`.
  `TheLastWordIsKept` (`LastWordStands`) assumes `OneAtATime`, one call at a time and reads that
  answer: what a suspended call is about to write is then built on the issuer's latest word (`CallKeeps`).

`LiveLength`, the length of what `prune_lapsed` leaves, is defined by `CHOOSE`;
`LiveLengthProperty` shows that the value exists, by the least-element principle.

*Sessions and screens* (`PagesProofs`, about `Scenes`). What a screen holds while it waits is what each
invariant is about: it says what is known of a flow at each of its awaits, whatever happened since
the one before. So it covers any number of accounts, weeks, asks, clicks, edits and submissions, and any
delay. `PagesAssumption` says that the answers given for a right are about that right, that `None` is no
account and no row, that an empty box is no digest, and that there is an issuer. `NumbersAssumption`
says that bounds and sizes are numbers, that a page lists at least one event, and that an attempt has at
least one page.
`SceneMoves` takes each invariant from its module to the scene it is checked in.

* `AnswersAreComplete` (`CompleteOrError`) and the refinement `ReadsAsPromised` (`ImplementsRead`).
  `CompleteOrError` speaks only of the end; the inductive invariant says that an id the
  cursor has passed has its row, is held by a loop, or made one give up
  (`Accounted`), where loops can be at each step of the call (`Progress`), and
  that what has a row was live when the call began (`Sighted`): a row takes a call that
  answers only for a right that exists, and ids are not used again.
* `SessionsAreOfTheirAccounts`: a session has an account from when it is minted; a sign-in that was not
  interrupted knows its account once the wallet named it.
* `ResultsStandWithTheirWeek` and `SummariesAreSupported`: while a right is being read none is shown, and
  the only results that may stand meanwhile are those that waited for a hash. The summary needs no
  history: it is a fact about what was put in.
* `TheOnlyCopyIsRight` and `AskersGetTheirWeek`: the call that is out keeps the text and the `h` it
  was made with, and agrees with its ask, whatever is typed or picked meanwhile.
* `ClickersAct` and `BusyCardsAreFreed`: an action takes its account along, and the last action to
  name a card is still on its way while the card is busy.
* `OutcomesAreTrue` and `AcceptancesNameTheirTransfer`: what a submission may still become at each step of
  the routes and of the screen. A transaction once settled does not change, an answer is about the
  transaction that was sent, and only a success is recorded.
* `TransfersAreListedOnce` (`ListedOnceAndComplete`): for any log, any reach, span, margin and limit.
  `EventsInv` says that the log is in the order of its ledgers (`Chained`), that what an attempt has found is
  one run of it, from the first event of the ledger it started in (`First`) up to where its cursor is
  (`Found`), and that the cursor is past all of the ledgers before its own; only of its own may it have left
  some out, and then after a full page. `UpToProperty` shows, by the least-number principle, that
  a ledger has an end in the log, so that `UpTo` is a value. A page then adds exactly the events it
  scanned (`EventsGetEvents`), a ledger that closes adds behind them (`EventsClose`), and an attempt that starts
  again has forgotten the list of the one before (`EventsStartAgain`), which is what keeps a transfer from being
  listed twice. What may be missing follows from the loop's two ways to end.
* `ScenesKeepTheirTypes` (`TypesOK`): the type invariants of the seven scenes, most of which the
  invariants above needed as a part of theirs.

*Only model-checked.* `EveryTermEnds` and `RegistryReadEnds`: they are liveness under fairness, which is
beyond the prover. Every other property of a passing run is a theorem.

## Findings

* `rights_shown`: `GET /api/right/<id>` takes the last entry of the stored chain for the
  holder, where `holding()` discards lapsed terms first. From the end of a rental to
  the next write, `verify/page.tsx` line 235 refuses the title holder and accepts
  the former renter. (`/api/inventory` reads `holding` and is right.)
* `requests_lost`: `loadSlot` answers `[]` for a store it cannot reach; the ask being
  made is pushed onto that and written back, and replaces every earlier ask,
  which `requests.ts` lines 150-152 set out to prevent.
* `issuance_late`: the id is read before the transaction, and polling gives up
  before the transaction's validity ends: the attestation of the next week is
  stored for the week that settled late.
* `attestations_git`: what is in the store is shown, however old; a statement made at the
  desk with `npm run attest`, committed and deployed stays hidden behind it, where the
  comment promises that what was written *since the build* wins.
* `session_roles`: `disconnect` forgets the account but not the sign-in under way, which then
  sets the session and the standing of the account that left; connecting as another account shows
  them under its address, and sends its calls with them, until its own sign-in is through.
* `verify_history`: `loadRight` lists whatever transfers its call answers, also when another week
  was loaded since.

Observed and modelled, with no property against it: `updateRequest` answers
`null` for a request that is gone and the route reports success (outcome `gone`);
a withdrawn ask's consent still carries a sale that was built before the
withdrawal; `burn` accepts a right whose window has closed, which `types.rs` lines
16-18 call inert; `accepted` asks that the asker is in possession, not that title
moved, so that a rental closes an ask to buy; when the list cannot be read at the end of
an issuance, `markIssued` finds nothing and says nothing, and the ask is left open without
the note `issue/route.ts` line 217 promises (`LeftOpenIsSaid` is checked with a store whose
reads answer).

Observed, and stated by `ListedOnceAndComplete` as an exception: `readTransferEvents` takes a page that fills its limit of
200 inside the latest ledger for the last one (`contract.ts` 500, 520), where 496-499 say that the cursor's ledger
tells that the loop has caught up. The rest of that ledger is not listed, although the node remembers it (484).

On the screens, likewise modelled with no property against it:

* Sessions: a call of an earlier session that is answered 401 ends the session there is now
  (`WalletProvider.tsx` 253); when Horizon does not answer for an account, its master key alone is enough to
  sign in (`sep10.ts` 129), whatever its threshold.
* List: a refused reading of the asks empties the two lists (219-224); asks read for one account are shown although it has signed out or another has signed in
  (209-212, 273-274); the landing filter overrules one picked as a visitor; one variable disables one
  card, so an action on a second card enables the first again; a renter's listing that outlived the
  term reappears as for rent.
* Verify: an attestation that could not be read is reported as one the issuer has not signed
  (129, 314-315), and one that could be had is then missing from the verdict; an attestation pasted while one is being fetched is overwritten (329-331 says it never is, and
  means the box as it was when the button was pressed); a result that waited for a record's hash may
  come under a right loaded since.
* Issue: an error, or a reload, after the week is issued loses the copy to save; the preview may
  still be of the text before; after success whatever ask is picked by then is deselected.
* Transfer: a file that is being read when another is submitted replaces it in the box under that one's
  outcome (113-119); selling or renting out one's only week closes the form together with the outcome it was
  to show; a throw while the acceptance is recorded reads as a failed transfer; a submission
  given up and tried again is announced as rejected although the first one moved the week, and its
  ask is never marked accepted; what the answering route answers is not looked at; withdrawing an ask does
  not stop a sale already built. `roles.ts` 182-185 says that tenants may sublet, within their term; the
  contract accepts none, and the screen prints a command for none.

## Not modelled

* `record.ts`, `canonical.ts`, `format.ts` and `secret-hash.ts` parse, order, format and hash. Records,
  digests and secrets are values here, two of them equal exactly when the code's hashes would be. What a parse
  tells apart (no text, text that is refused, a record) is in `IssuePage` and `VerifyPage`.
* Poseidon, the pairing and the encoding of signals: a proof verifies exactly when the circuit is
  satisfiable, and the hash has no collisions. The standalone verifier contract measures the cost of a
  verification and keeps no state of rights.
* The wire of the key-value store (`kv.ts`): a command is answered, or its answer is lost. `PING` and
  the choice of the store's variant are left out.
* Wording, layout, the landing page and the navigation, the mapping of contract errors to sentences
  (`errors.ts`).
* The scripts that deploy, run end to end against a network, or write evidence. The desk's `attest` and
  `describe`, which write what the application shows, are in `Attestations`.
* The network below the contract: fees, archival and the restoring of entries, and the decoding of values.

## Plan

What is written follows the value at stake: first the contract and its circuit, then the asks and the
issuing that lead to it, the attestations, the registry read, and last the sessions and the screens.
Whatever the runs check of safety is proved. What could come next:

* issuing as an abstract register of attested weeks, which `Issuance` with one handler implements
  as `Requests` implements `AskBook`;
* a registry row read in four calls with their values, composed with `QuietStayRights`: it would show
  which mixtures of two states a card can display;
* several screens on one account: each scene of `Pages` has its screen alone, and what
  one screen changes reaches another only as the answers it is given.
