---------------------------- MODULE PagesProofs ----------------------------
(***************************************************************************)
(* Proofs about signing in and the screens, for any accounts, weeks and    *)
(* asks, any number of clicks, edits and submissions, and any delay of     *)
(* what is awaited.                                                        *)
(*                                                                         *)
(* What the pages hold while they wait is what the proofs are about: each  *)
(* invariant says what is known of a flow at each of its awaits, whatever  *)
(* happened since the one before.                                          *)
(***************************************************************************)
EXTENDS Pages, SequenceTheorems, WellFoundedInduction, TLAPS

\* A scene stays the same, and in it only its own part moves.
LEMMA SceneMoves ==
    ASSUME [ScenesNext]_all
    PROVE  /\ scene' = scene
           /\ [Next]_vars
           /\ scene = "session" => [Session!Next]_(Session!vars)
           /\ scene = "verify" => [Verify!Next]_(Verify!vars)
           /\ scene = "list" => [List!Next]_(List!vars)
           /\ scene = "issue" => [Issuing!Next]_(Issuing!vars)
           /\ scene = "transfer" => [Transferring!Next]_(Transferring!vars)
           /\ scene = "events" => [Events!Next]_(Events!vars)
<1>1. CASE ScenesNext
    BY <1>1 DEF ScenesNext, SessionMoves, VerifyMoves, offline
<1>2. CASE UNCHANGED all
    BY <1>2 DEF all, offline, sessionVars, verifyVars, listVars, issueVars, transferVars,
                eventVars, Events!vars, Events!chain, Events!cursor, Events!progress,
                Session!vars, Session!shown, Session!server, Verify!vars, Verify!boxes, Verify!late,
                List!vars, List!page, Issuing!vars, Issuing!picks, Issuing!editor,
                Transferring!vars, Transferring!page, Transferring!box, Transferring!store, Transferring!chain
<1>. QED
    BY <1>1, <1>2

-----------------------------------------------------------------------------
(* Inventory                                                                *)

Busy(w) == at[w] \in {"reading", "pausing"}

\* Where the loops can be at each step of the call.
Progress ==
    /\ step = "next_id" => at = [w \in Workers |-> "idle"] /\ upto = 0
    /\ step = "done" => \A w \in Workers : at[w] \in {"idle", "finished"}
    /\ \A w \in Workers :
          /\ Busy(w) <=> on[w] # 0
          /\ at[w] = "threw" => step = "failed"
          /\ at[w] = "finished" => cursor > upto
          /\ at[w] = "idle" /\ step # "next_id" => w > upto

\* An id that has been taken is not forgotten.
Accounted ==
    \A id \in live : id < cursor =>
        \/ id \in rows
        \/ \E w \in Workers : on[w] = id
        \/ \E w \in Workers : at[w] = "threw"

\* What has a row was there when the call began.
Sighted ==
    /\ rows \subseteq since
    /\ step # "next_id" => live \cap 1..upto \subseteq since
    /\ \A w \in Workers : Busy(w) /\ got[w] \ QuietReads # {} => on[w] \in since

RegistryInv == TypeOK /\ Progress /\ Accounted /\ Sighted

-----------------------------------------------------------------------------
(* RegistryInv is inductive: one lemma per action                                  *)

LEMMA InitInv == Init => RegistryInv
<1> SUFFICES ASSUME Init PROVE RegistryInv
    OBVIOUS
<1> USE InventoryAssumption
<1>1. TypeOK
    BY SMT DEF Init, TypeOK, Workers
<1>2. Progress
    BY DEF Init, Progress, Busy
<1>3. Accounted
    BY DEF Init, Accounted
<1>4. Sighted
    BY DEF Init, Sighted, Busy
<1>. QED
    BY <1>1, <1>2, <1>3, <1>4 DEF RegistryInv

LEMMA IssueInv == ASSUME RegistryInv, Issue PROVE RegistryInv'
<1> USE InventoryAssumption DEF RegistryInv
<1>1. TypeOK'
    BY SMT DEF Issue, TypeOK, worker
<1>2. Progress'
    BY DEF Issue, Progress, Busy, worker
<1>3. Accounted'
    BY SMT DEF Issue, Accounted, TypeOK, worker
<1>4. Sighted'
    BY SMT DEF Issue, Sighted, TypeOK, Busy, worker
<1>. QED
    BY <1>1, <1>2, <1>3, <1>4

LEMMA BurnInv == ASSUME RegistryInv, NEW id \in live, Burn(id) PROVE RegistryInv'
<1> USE InventoryAssumption DEF RegistryInv
<1>1. TypeOK'
    BY SMT DEF Burn, TypeOK, worker
<1>2. Progress'
    BY DEF Burn, Progress, Busy, worker
<1>3. Accounted'
    BY DEF Burn, Accounted, worker
<1>4. Sighted'
    BY DEF Burn, Sighted, Busy, worker
<1>. QED
    BY <1>1, <1>2, <1>3, <1>4

LEMMA ReadNextIdInv == ASSUME RegistryInv, ReadNextId PROVE RegistryInv'
<1> USE InventoryAssumption DEF RegistryInv
<1>1. TypeOK'
    BY SMT DEF ReadNextId, TypeOK, registry, Workers, Progress
<1>2. Progress'
    BY SMT DEF ReadNextId, Progress, Busy, registry, Workers, TypeOK
<1>3. Accounted'
    BY SMT DEF ReadNextId, Accounted, Progress, TypeOK, registry
<1>4. Sighted'
    BY SMT DEF ReadNextId, Sighted, Progress, TypeOK, Busy, registry, Workers
<1>. QED
    BY <1>1, <1>2, <1>3, <1>4

LEMMA NextIdFailsInv == ASSUME RegistryInv, NextIdFails PROVE RegistryInv'
<1> USE InventoryAssumption DEF RegistryInv
<1>1. TypeOK'
    BY DEF NextIdFails, TypeOK, registry, worker
<1>2. Progress'
    BY SMT DEF NextIdFails, Progress, Busy, registry, worker, TypeOK, Workers
<1>3. Accounted'
    BY DEF NextIdFails, Accounted, registry, worker
<1>4. Sighted'
    BY SMT DEF NextIdFails, Sighted, Progress, TypeOK, Busy, registry, worker
<1>. QED
    BY <1>1, <1>2, <1>3, <1>4

LEMMA ReturnInv == ASSUME RegistryInv, Return PROVE RegistryInv'
<1> USE InventoryAssumption DEF RegistryInv
<1>1. TypeOK'
    BY DEF Return, TypeOK, registry, worker
<1>2. Progress'
    BY DEF Return, Progress, Busy, registry, worker
<1>3. Accounted'
    BY DEF Return, Accounted, registry, worker
<1>4. Sighted'
    BY DEF Return, Sighted, Busy, registry, worker
<1>. QED
    BY <1>1, <1>2, <1>3, <1>4

LEMMA TakeInv == ASSUME RegistryInv, NEW w \in Workers, Take(w) PROVE RegistryInv'
<1> USE InventoryAssumption DEF RegistryInv
<1>1. TypeOK'
    BY SMT DEF Take, Suspend, TypeOK, registry
<1>2. Progress'
    BY SMT DEF Take, Suspend, Progress, Busy, registry, TypeOK
<1>3. Accounted'
    BY SMT DEF Take, Suspend, Accounted, Progress, Busy, registry, TypeOK
<1>4. Sighted'
    BY SMT DEF Take, Suspend, Sighted, Busy, registry, TypeOK
<1>. QED
    BY <1>1, <1>2, <1>3, <1>4

LEMMA AnswersInv ==
    ASSUME RegistryInv, NEW w \in Workers, NEW read \in Reads, Answers(w, read) PROVE RegistryInv'
<1> USE InventoryAssumption DEF RegistryInv
<1>1. TypeOK'
    BY SMT DEF Answers, Suspend, TypeOK, registry
<1>2. Progress'
    BY SMT DEF Answers, Suspend, Progress, Busy, registry, TypeOK
<1>3. Accounted'
    BY SMT DEF Answers, Suspend, Accounted, registry, TypeOK
<1>4. Sighted'
    BY SMT DEF Answers, Suspend, Sighted, Progress, Busy, registry, TypeOK
<1>. QED
    BY <1>1, <1>2, <1>3, <1>4

LEMMA FillInv == ASSUME RegistryInv, NEW w \in Workers, Fill(w) PROVE RegistryInv'
<1> USE InventoryAssumption DEF RegistryInv
<1>0. on[w] \in 1..(cursor - 1) /\ on[w] \in since
    BY SMT DEF Fill, TypeOK, Progress, Sighted, Busy
<1>r. rows' \subseteq 1..(cursor - 1) /\ rows' \subseteq since
    BY <1>0 DEF Fill, TypeOK, Sighted
<1>1. TypeOK'
    BY <1>r, SMT DEF Fill, Suspend, TypeOK, registry
<1>2. Progress'
    BY SMT DEF Fill, Suspend, Progress, Busy, registry, TypeOK
<1>3. Accounted'
    BY SMT DEF Fill, Suspend, Accounted, registry, TypeOK
<1>4. Sighted'
    BY <1>r, SMT DEF Fill, Suspend, Sighted, Busy, registry, TypeOK
<1>. QED
    BY <1>1, <1>2, <1>3, <1>4

LEMMA MissingInv == ASSUME RegistryInv, NEW w \in Workers, Missing(w) PROVE RegistryInv'
<1> USE InventoryAssumption DEF RegistryInv
<1>1. TypeOK'
    BY SMT DEF Missing, Suspend, TypeOK, registry
<1>2. Progress'
    BY SMT DEF Missing, Suspend, Progress, Busy, registry, TypeOK
<1>3. Accounted'
    BY SMT DEF Missing, Suspend, Accounted, registry, TypeOK
<1>4. Sighted'
    BY SMT DEF Missing, Suspend, Sighted, Busy, registry, TypeOK
<1>. QED
    BY <1>1, <1>2, <1>3, <1>4

LEMMA RefusedInv == ASSUME RegistryInv, NEW w \in Workers, Refused(w) PROVE RegistryInv'
<1> USE InventoryAssumption DEF RegistryInv
<1>1. TypeOK'
    BY SMT DEF Refused, Suspend, TypeOK, registry
<1>2. Progress'
    BY SMT DEF Refused, Suspend, Progress, Busy, registry, TypeOK
<1>3. Accounted'
    BY SMT DEF Refused, Suspend, Accounted, registry, TypeOK
<1>4. Sighted'
    BY SMT DEF Refused, Suspend, Sighted, Busy, registry, TypeOK
<1>. QED
    BY <1>1, <1>2, <1>3, <1>4

LEMMA RetryInv == ASSUME RegistryInv, NEW w \in Workers, Retry(w) PROVE RegistryInv'
<1> USE InventoryAssumption DEF RegistryInv
<1>1. TypeOK'
    BY SMT DEF Retry, Suspend, TypeOK, registry
<1>2. Progress'
  <2>1. at[w] = "pausing" /\ step \in {"reading", "failed"}
      BY DEF Retry, TypeOK, Progress
  <2>2. CASE attempt[w] < Attempts
      BY <2>1, <2>2, SMT DEF Retry, Suspend, Progress, Busy, registry, TypeOK
  <2>3. CASE ~(attempt[w] < Attempts)
      BY <2>1, <2>3, SMT DEF Retry, Suspend, Progress, Busy, registry, TypeOK
  <2>. QED
      BY <2>2, <2>3
<1>3. Accounted'
    BY SMT DEF Retry, Suspend, Accounted, registry, TypeOK
<1>4. Sighted'
    BY SMT DEF Retry, Suspend, Sighted, Progress, Busy, registry, TypeOK
<1>. QED
    BY <1>1, <1>2, <1>3, <1>4

LEMMA NextInv == RegistryInv /\ [Next]_vars => RegistryInv'
<1> SUFFICES ASSUME RegistryInv, [Next]_vars PROVE RegistryInv'
    OBVIOUS
<1>1. CASE Issue
    BY <1>1, IssueInv
<1>2. ASSUME NEW id \in live, Burn(id) PROVE RegistryInv'
    BY <1>2, BurnInv
<1>3. CASE ReadNextId
    BY <1>3, ReadNextIdInv
<1>4. CASE NextIdFails
    BY <1>4, NextIdFailsInv
<1>5. CASE Return
    BY <1>5, ReturnInv
<1>6. ASSUME NEW w \in Workers, Loop(w) PROVE RegistryInv'
    BY <1>6, TakeInv, AnswersInv, FillInv, MissingInv, RefusedInv, RetryInv DEF Loop
<1>7. CASE UNCHANGED vars
    BY <1>7 DEF vars, registry, worker, RegistryInv, TypeOK, Progress, Accounted, Sighted, Busy
<1>. QED
    BY <1>1, <1>2, <1>3, <1>4, <1>5, <1>6, <1>7 DEF Next

LEMMA SpecRegistry == Scenes => []RegistryInv
<1>1. ScenesInit => Init
    BY DEF ScenesInit, NoRegistry
<1>. QED
    BY <1>1, InitInv, NextInv, SceneMoves, PTL DEF Scenes

\* When nothing is left to be taken and no loop holds or has given up an id,
\* every right that is left has its row.
LEMMA NothingLeft ==
    ASSUME RegistryInv, step \in {"reading", "done"},
           \A w \in Workers : at[w] \in {"idle", "finished"}
    PROVE  live \cap 1..upto \subseteq rows
<1> USE InventoryAssumption
<1> SUFFICES ASSUME NEW id \in live, id \in 1..upto PROVE id \in rows
    OBVIOUS
<1>1. 1 \in Workers
    BY SMT DEF Workers
<1>2. upto \in Nat /\ cursor \in Nat /\ id \in Nat /\ upto >= 1
    BY SMT DEF RegistryInv, TypeOK
<1>3. at[1] # "idle"
    BY <1>1, <1>2, SMT DEF RegistryInv, Progress
<1>4. cursor > upto
    BY <1>1, <1>3 DEF RegistryInv, Progress
<1>5. id < cursor
    BY <1>2, <1>4, SMT
<1>6. \A w \in Workers : on[w] # id /\ at[w] # "threw"
    BY <1>2, SMT DEF RegistryInv, Progress, Busy
<1>. QED
    BY <1>5, <1>6 DEF RegistryInv, Accounted

\* A week that is missing from an answer is burned.
THEOREM AnswersAreComplete == Scenes => []CompleteOrError
<1>1. RegistryInv => CompleteOrError
    BY NothingLeft DEF RegistryInv, Progress, CompleteOrError
<1>. QED
    BY <1>1, SpecRegistry, PTL

LEMMA RefinesInit == Init => Promised!Init
<1> USE InventoryAssumption
<1>. QED
    BY SMT DEF Init, Promised!Init

LEMMA LoopRefines ==
    ASSUME RegistryInv, NEW w \in Workers, Loop(w) PROVE [Promised!Next]_Promised!vars
<1>1. step \notin {"next_id", "done"}
    BY DEF RegistryInv, TypeOK, Progress, Loop, Take, Answers, Fill, Missing, Refused, Retry
<1>2. UNCHANGED <<next_id, live, since>>
    BY DEF Loop, Take, Answers, Fill, Missing, Refused, Retry, registry
<1>3. step' = step \/ step' = "failed"
    BY DEF Loop, Take, Answers, Fill, Missing, Refused, Retry
<1>4. CASE step' = step
    BY <1>1, <1>2, <1>4 DEF Promised!vars
<1>5. CASE step' # step
    <2>1. step = "reading" /\ step' = "failed"
        BY <1>1, <1>3, <1>5 DEF RegistryInv, TypeOK
    <2>2. Promised!Fail
        BY <1>2, <2>1 DEF Promised!Fail
    <2> QED
        BY <2>2 DEF Promised!Next
<1>. QED
    BY <1>4, <1>5

LEMMA RefinesStep == RegistryInv /\ [Next]_vars => [Promised!Next]_Promised!vars
<1> SUFFICES ASSUME RegistryInv, [Next]_vars PROVE [Promised!Next]_Promised!vars
    OBVIOUS
<1>1. CASE Issue
  <2>1. Promised!Issue
      BY <1>1, SMT DEF Issue, Promised!Issue, RegistryInv, TypeOK
  <2>. QED
      BY <2>1 DEF Promised!Next
<1>2. ASSUME NEW id \in live, Burn(id) PROVE [Promised!Next]_Promised!vars
  <2>1. Promised!Burn(id)
      BY <1>2 DEF Burn, Promised!Burn
  <2>. QED
      BY <2>1 DEF Promised!Next
<1>3. CASE ReadNextId
  <2>1. Promised!Ask
      BY <1>3 DEF ReadNextId, registry, Promised!Ask
  <2>. QED
      BY <2>1 DEF Promised!Next
<1>4. CASE NextIdFails
  <2>1. Promised!Fail
      BY <1>4 DEF NextIdFails, registry, worker, Promised!Fail
  <2>. QED
      BY <2>1 DEF Promised!Next
<1>5. CASE Return
  <2>1. live \cap 1..upto \subseteq rows
      BY <1>5, NothingLeft DEF Return
  <2>2. rows \subseteq since /\ since \cap live \subseteq rows
      BY <2>1 DEF RegistryInv, Sighted, TypeOK
  <2>3. Promised!Answer
      BY <1>5, <2>2 DEF Return, registry, worker, Promised!Answer
  <2>. QED
      BY <2>3 DEF Promised!Next
<1>6. ASSUME NEW w \in Workers, Loop(w) PROVE [Promised!Next]_Promised!vars
    BY <1>6, LoopRefines
<1>7. CASE UNCHANGED vars
    BY <1>7 DEF vars, registry, worker, Promised!vars
<1>. QED
    BY <1>1, <1>2, <1>3, <1>4, <1>5, <1>6, <1>7 DEF Next

\* Every read of the registry is one the abstract specification allows: it
\* answers every week there was and still is, or fails.
THEOREM ReadsAsPromised == Scenes => ImplementsRead
<1>1. ScenesInit => Promised!Init
    BY RefinesInit DEF ScenesInit, NoRegistry
<1>2. RegistryInv /\ [ScenesNext]_all => [Promised!Next]_Promised!vars
    BY RefinesStep, SceneMoves
<1>. QED
    BY <1>1, <1>2, SpecRegistry, PTL DEF Scenes, ImplementsRead, Promised!Spec

-----------------------------------------------------------------------------
(* Session                                                                  *)

\* A sign-in that was not disconnected knows its account from the moment the wallet
\* names it, and until it is proved there is no session at all.
SessionInv ==
    /\ Session!TypeOK
    /\ flow.at = "proof" => flow.account \in Accounts
    /\ ~interrupted =>
         /\ token # None => address = minted[token]
         /\ flow.at \in {"wallet", "proof"} => token = None
         /\ flow.at \in {"proof", "standing"} => address = flow.account

LEMMA NextSession ==
    ASSUME SessionInv, [Session!Next]_(Session!vars)
    PROVE  SessionInv'
<1>0. None \notin Accounts
    BY PagesAssumption
<1>. USE <1>0 DEF SessionInv, Session!TypeOK, Session!Tokens, Session!shown, Session!server
<1>1. CASE UNCHANGED Session!vars
    BY <1>1 DEF Session!vars
<1>2. CASE Session!Connect
    <2>1. ~interrupted => token = None
        <3>1. token # None => minted[token] \in Accounts
            OBVIOUS
        <3>. QED
            BY <1>2, <3>1 DEF Session!Connect, Session!MayConnect
    <2>2. /\ flow' = [at |-> "wallet", account |-> None, token |-> None]
          /\ UNCHANGED <<token, address, standing, minted, expired, refreshes, calls, interrupted>>
        BY <1>2 DEF Session!Connect, Session!NoFlow
    <2>. QED
        BY <2>1, <2>2
<1>3. ASSUME NEW who \in Accounts, Session!Choose(who) PROVE SessionInv'
    BY <1>3 DEF Session!Choose
<1>4. ASSUME NEW keys, NEW known, Session!Prove(keys, known) PROVE SessionInv'
    <2>1. /\ flow.at = "proof" /\ token' = Len(minted) + 1 /\ Len(minted) < MaxSessions
          /\ minted' = Append(minted, flow.account)
          /\ flow' = [at |-> "standing", account |-> flow.account, token |-> Len(minted) + 1]
          /\ UNCHANGED <<address, standing, expired, refreshes, calls, interrupted>>
        BY <1>4 DEF Session!Prove
    <2>2. flow.account \in Accounts /\ (~interrupted => address = flow.account)
        BY <2>1
    <2>3. /\ minted' \in Seq(Accounts) /\ Len(minted) \in Nat
          /\ Len(minted') = Len(minted) + 1 /\ minted'[Len(minted) + 1] = flow.account
        BY <2>1, <2>2
    <2>4. 1..Len(minted) \subseteq 1..Len(minted')
        BY <2>3
    <2>5. MaxSessions \in Nat
        BY NumbersAssumption
    <2>6. Len(minted') <= MaxSessions /\ Len(minted) + 1 \in 1..Len(minted')
        BY <2>1, <2>3, <2>5
    <2>7. flow' \in [at : {"none", "wallet", "proof", "standing"},
                    account : Accounts \cup {None}, token : 1..Len(minted') \cup {None}]
        BY <2>1, <2>2, <2>6
    <2>8. /\ refreshes' \subseteq 1..Len(minted') /\ calls' \subseteq 1..Len(minted')
          /\ expired' \subseteq 1..Len(minted')
        BY <2>1, <2>4
    <2>9. Session!TypeOK'
        BY <2>1, <2>3, <2>6, <2>7, <2>8
    <2>. QED
        BY <2>1, <2>2, <2>3, <2>9
<1>5. ASSUME NEW t PROVE Session!AuthenticatedAccount(t) \in Accounts \cup {None}
    BY DEF Session!AuthenticatedAccount
<1>6. CASE Session!Load
    BY <1>5, <1>6 DEF Session!Load, Session!NoFlow
<1>7. CASE Session!Fail
    BY <1>7 DEF Session!Fail, Session!NoFlow
<1>8. CASE Session!RefreshStanding \/ Session!AuthFetch
    <2>1. /\ refreshes' \subseteq 1..Len(minted) /\ calls' \subseteq 1..Len(minted)
          /\ UNCHANGED <<address, token, standing, flow, minted, expired, interrupted>>
        BY <1>8 DEF Session!RefreshStanding, Session!AuthFetch
    <2>. QED
        BY <2>1
<1>9. CASE Session!Timer
    BY <1>9 DEF Session!Timer
<1>10. CASE Session!Disconnect
    <2>1. ~interrupted' => ~interrupted /\ flow = Session!NoFlow
        BY <1>10, Zenon DEF Session!Disconnect, Session!busy
    <2>2. interrupted' \in BOOLEAN
        BY <1>10 DEF Session!Disconnect
    <2>. QED
        BY <1>10, <2>1, <2>2 DEF Session!Disconnect, Session!NoFlow
<1>11. ASSUME NEW t, Session!Expire(t) PROVE SessionInv'
    BY <1>11 DEF Session!Expire
<1>12. ASSUME NEW t, Session!RefreshAnswers(t) \/ Session!FetchAnswers(t) PROVE SessionInv'
    <2>1. /\ refreshes' \subseteq refreshes /\ calls' \subseteq calls
          /\ standing' \in Accounts \cup {None} /\ token' \in {token, None}
          /\ UNCHANGED <<address, flow, minted, expired, interrupted>>
        BY <1>5, <1>12 DEF Session!RefreshAnswers, Session!FetchAnswers
    <2>. QED
        BY <2>1
<1>. QED
    BY <1>1, <1>2, <1>3, <1>4, <1>6, <1>7, <1>8, <1>9, <1>10, <1>11, <1>12 DEF Session!Next

LEMMA SpecSession == Scenes => [](scene = "session" => SessionInv)
<1>0. MaxSessions \in Nat
    BY NumbersAssumption
<1>1. Session!Init => SessionInv
    <2>. SUFFICES ASSUME Session!Init PROVE SessionInv
        OBVIOUS
    <2>1. /\ token = None /\ standing = None /\ minted = << >> /\ interrupted = FALSE
          /\ flow = [at |-> "none", account |-> None, token |-> None]
          /\ refreshes = {} /\ calls = {} /\ expired = {} /\ address \in Accounts \cup {None}
        BY DEF Session!Init, Session!NoFlow
    <2>2. minted \in Seq(Accounts) /\ Len(minted) = 0
        BY <2>1
    <2>3. /\ interrupted \in BOOLEAN
          /\ flow \in [at : {"none", "wallet", "proof", "standing"},
                      account : Accounts \cup {None}, token : 1..Len(minted) \cup {None}]
        BY <2>1
    <2>4. Session!TypeOK
        BY <1>0, <2>1, <2>2, <2>3 DEF Session!TypeOK, Session!Tokens
    <2>. QED
        BY <2>1, <2>4 DEF SessionInv
<1>2. ScenesInit => (scene = "session" => SessionInv)
    BY <1>1 DEF ScenesInit
<1>3. (scene = "session" => SessionInv) /\ [ScenesNext]_all => (scene = "session" => SessionInv)'
    BY NextSession, SceneMoves
<1>. QED
    BY <1>2, <1>3, PTL DEF Scenes

\* Unless Disconnect was pressed during a sign-in, the session in use is the account's
\* that is shown.
THEOREM SessionsAreOfTheirAccounts == Scenes => []SessionIsOfItsAccount
<1>1. (scene = "session" => SessionInv) => SessionIsOfItsAccount
    BY DEF SessionIsOfItsAccount, SessionInv, Session!SessionIsOfItsAccount
<1>. QED
    BY <1>1, SpecSession, PTL

-----------------------------------------------------------------------------
(* VerifyPage                                                               *)

\* Where a read has got to: no right is shown until it is read, and what stands in the
\* results meanwhile was hashed; then the right shown is the one whose attestation is
\* awaited.  What is being hashed is a record that parses.
ReadKnows ==
    /\ DOMAIN main = {"by", "at", "id", "offer"}
    /\ main.at = "right" =>
         /\ main.id \in Ids /\ right = None
         /\ checks # None => checks.record \in Digests
    /\ main.at = "attestation" =>
         main.id \in Ids /\ right \in Verify!Row /\ right.id = main.id
    /\ \A input \in digests : input.record \in Digests

VerifyInv == Verify!TypeOK /\ ReadKnows /\ Verify!ResultIsOfTheWeekShown

LEMMA VerifyStart ==
    ASSUME VerifyInv, NEW by \in {"id", "json"}, Verify!Start(by)
    PROVE  VerifyInv'
<1>1. /\ right' = None /\ checks' = None
      /\ UNCHANGED <<tab, rightId, pasted, attestationText, claimedHolder, pastings,
                     reads, fetches, digests>>
      /\ IF rightId \in Ids
         THEN /\ history' = None
              /\ main' = [by |-> by, at |-> "right", id |-> rightId,
                          offer |-> attestationText = Blank]
         ELSE UNCHANGED <<history, main>>
      /\ main = Verify!Idle
    BY DEF Verify!Start, Verify!boxes, Verify!late, Verify!loading
<1>2. /\ DOMAIN main' = {"by", "at", "id", "offer"}
      /\ main'.at \in {"none", "right"} /\ main'.id \in Ids \cup {None}
      /\ main'.at = "right" => main'.id \in Ids
    BY <1>1 DEF Verify!Idle
<1>3. Verify!TypeOK'
    BY <1>1, <1>2 DEF VerifyInv, Verify!TypeOK
<1>4. ReadKnows'
    BY <1>1, <1>2 DEF VerifyInv, ReadKnows
<1>. QED
    BY <1>1, <1>3, <1>4 DEF VerifyInv, Verify!ResultIsOfTheWeekShown

LEMMA VerifyRightAnswers ==
    ASSUME VerifyInv, NEW id \in Ids, NEW row \in Readings[id], Verify!RightAnswers(row)
    PROVE  VerifyInv'
<1>1. /\ main.at = "right" /\ main.id \in Ids
      /\ row \in Verify!Row /\ row.id = main.id
    BY PagesAssumption DEF VerifyInv, ReadKnows, Verify!RightAnswers
<1>2. /\ right' = row /\ claimedHolder' = row.holder /\ reads' = reads \cup {main.id}
      /\ main' = IF main.by = "id" THEN [main EXCEPT !.at = "attestation"] ELSE Verify!Idle
      /\ fetches' \subseteq fetches \cup {main.id}
      /\ UNCHANGED <<tab, rightId, history, pasted, attestationText, checks, digests, pastings>>
    BY DEF Verify!RightAnswers
<1>3. row.holder \in Holders
    BY <1>1 DEF Verify!Row
<1>4. /\ DOMAIN main' = {"by", "at", "id", "offer"}
      /\ main'.at # "right" /\ main'.id \in Ids \cup {None}
      /\ main'.at = "attestation" => main'.id = main.id
    BY <1>1, <1>2 DEF Verify!Idle, VerifyInv, ReadKnows
<1>5. checks # None => checks.record \in Digests
    BY <1>1 DEF VerifyInv, ReadKnows
<1>6. ReadKnows'
    BY <1>1, <1>2, <1>4 DEF VerifyInv, ReadKnows
<1>7. Verify!TypeOK'
    BY <1>1, <1>2, <1>3, <1>4 DEF VerifyInv, Verify!TypeOK
<1>8. Verify!ResultIsOfTheWeekShown'
    BY <1>2, <1>5 DEF Verify!ResultIsOfTheWeekShown
<1>. QED
    BY <1>6, <1>7, <1>8 DEF VerifyInv

LEMMA VerifyReadFails ==
    ASSUME VerifyInv, Verify!ReadFails
    PROVE  VerifyInv'
BY DEF VerifyInv, ReadKnows, Verify!TypeOK, Verify!ResultIsOfTheWeekShown, Verify!ReadFails,
       Verify!Idle, Verify!boxes, Verify!late

LEMMA VerifyAttestationAnswers ==
    ASSUME VerifyInv, Verify!AttestationAnswers
    PROVE  VerifyInv'
<1>1. /\ main.id \in Ids /\ right \in Verify!Row /\ right.id = main.id
    BY DEF VerifyInv, ReadKnows, Verify!AttestationAnswers
<1>0. PICK attestation \in OnFile[main.id] \cup {None} :
          /\ attestationText' = Verify!AsText(attestation)
          /\ checks' = [by |-> "id", right |-> right, attestation |-> Verify!AsText(attestation),
                        record |-> Blank, claimed |-> Blank]
    BY Zenon DEF Verify!AttestationAnswers, Verify!FileRead
<1>. DEFINE text == Verify!AsText(attestation)
            input == [by |-> "id", right |-> right, attestation |-> text,
                      record |-> Blank, claimed |-> Blank]
<1>2. /\ attestationText' = text /\ checks' = input /\ main' = Verify!Idle
      /\ UNCHANGED <<tab, rightId, right, history, pasted, claimedHolder, pastings,
                     reads, fetches, digests>>
    BY <1>0 DEF Verify!AttestationAnswers, Verify!late
<1>3. text \in Verify!Attestation \cup {Blank, Bad} /\ text \in OnFile[main.id] \cup {Blank}
    BY <1>0, <1>1, PagesAssumption DEF Verify!AsText
<1>4. input \in Verify!Input
    BY <1>1, <1>3 DEF Verify!Input
<1>5. Verify!TypeOK'
    BY <1>2, <1>3, <1>4 DEF VerifyInv, Verify!TypeOK, Verify!Idle
<1>6. ReadKnows'
    BY <1>2 DEF VerifyInv, ReadKnows, Verify!Idle
<1>7. Verify!ResultIsOfTheWeekShown'
    BY <1>1, <1>2, <1>3 DEF Verify!ResultIsOfTheWeekShown
<1>. QED
    BY <1>5, <1>6, <1>7 DEF VerifyInv

LEMMA VerifyPastedHashed ==
    ASSUME VerifyInv,
           Verify!VerifyPasted \/ \E input \in digests : Verify!DigestAnswers(input)
    PROVE  VerifyInv'
<1>1. CASE Verify!VerifyPasted
    <2>. DEFINE input == [by |-> "json", right |-> right, attestation |-> attestationText,
                          record |-> pasted, claimed |-> claimedHolder]
    <2>1. /\ right # None
          /\ IF pasted \in Digests
             THEN digests' = digests \cup {input} /\ UNCHANGED checks
             ELSE checks' = input /\ UNCHANGED digests
          /\ UNCHANGED <<tab, rightId, right, history, pasted, attestationText,
                         claimedHolder, pastings, main, reads, fetches>>
        BY <1>1 DEF Verify!VerifyPasted, Verify!boxes
    <2>2. input \in Verify!Input
        BY <2>1 DEF VerifyInv, Verify!TypeOK, Verify!Input
    <2>3. Verify!TypeOK'
        BY <2>1, <2>2 DEF VerifyInv, Verify!TypeOK
    <2>4. ReadKnows'
        BY <2>1 DEF VerifyInv, ReadKnows
    <2>5. Verify!ResultIsOfTheWeekShown'
        BY <2>1 DEF VerifyInv, Verify!ResultIsOfTheWeekShown
    <2>. QED
        BY <2>3, <2>4, <2>5 DEF VerifyInv
<1>2. ASSUME NEW input \in digests, Verify!DigestAnswers(input) PROVE VerifyInv'
    BY <1>2 DEF VerifyInv, ReadKnows, Verify!TypeOK, Verify!ResultIsOfTheWeekShown,
                Verify!DigestAnswers, Verify!boxes
<1>. QED
    BY <1>1, <1>2

LEMMA VerifyLate ==
    ASSUME VerifyInv, NEW id \in Ids,
           Verify!TransfersAnswer(id) \/ Verify!FetchAnswers(id)
    PROVE  VerifyInv'
<1>1. OnFile[id] \subseteq Verify!Attestation
    BY PagesAssumption
<1>2. /\ attestationText' \in {attestationText} \cup Verify!Attestation
      /\ history' \in {history, id} /\ reads' \subseteq reads /\ fetches' \subseteq fetches
      /\ UNCHANGED <<tab, rightId, right, pasted, claimedHolder, pastings, checks, main, digests>>
    BY <1>1 DEF Verify!TransfersAnswer, Verify!FetchAnswers, Verify!boxes
<1>. QED
    BY <1>2 DEF VerifyInv, ReadKnows, Verify!TypeOK, Verify!ResultIsOfTheWeekShown

LEMMA VerifyUser ==
    ASSUME VerifyInv,
           Verify!Edit \/ \E by \in {"id", "json"} : Verify!SwitchTab(by)
    PROVE  VerifyInv'
<1>1. CASE Verify!Edit
    <2>1. /\ rightId' \in Ids \cup {Blank}
          /\ pasted' \in Digests \cup {Blank, Bad}
          /\ attestationText' \in Verify!Attestation \cup {Blank, Bad}
          /\ claimedHolder' \in Holders \cup {Blank}
          /\ UNCHANGED <<tab, right, history, checks, main, reads, fetches, digests>>
        BY <1>1, PagesAssumption
        DEF VerifyInv, Verify!TypeOK, Verify!Edit, Verify!TypeId, Verify!Paste, Verify!late
    <2>. QED
        BY <2>1 DEF VerifyInv, ReadKnows, Verify!TypeOK, Verify!ResultIsOfTheWeekShown
<1>2. ASSUME NEW by \in {"id", "json"}, Verify!SwitchTab(by) PROVE VerifyInv'
    BY <1>2 DEF VerifyInv, ReadKnows, Verify!TypeOK, Verify!ResultIsOfTheWeekShown,
                Verify!SwitchTab, Verify!boxes, Verify!late
<1>. QED
    BY <1>1, <1>2

LEMMA NextVerify ==
    ASSUME VerifyInv, [Verify!Next]_(Verify!vars)
    PROVE  VerifyInv'
<1>1. CASE UNCHANGED Verify!vars
    BY <1>1 DEF VerifyInv, ReadKnows, Verify!TypeOK, Verify!ResultIsOfTheWeekShown,
                Verify!vars, Verify!boxes, Verify!late
<1>. QED
    BY <1>1, VerifyStart, VerifyRightAnswers, VerifyReadFails, VerifyAttestationAnswers,
       VerifyPastedHashed, VerifyLate, VerifyUser DEF Verify!Next

LEMMA SpecVerify == Scenes => [](scene = "verify" => VerifyInv)
<1>1. Verify!Init => VerifyInv
    BY DEF Verify!Init, VerifyInv, ReadKnows, Verify!TypeOK,
           Verify!ResultIsOfTheWeekShown
<1>2. ScenesInit => (scene = "verify" => VerifyInv)
    BY <1>1 DEF ScenesInit
<1>3. (scene = "verify" => VerifyInv) /\ [ScenesNext]_all => (scene = "verify" => VerifyInv)'
    BY NextVerify, SceneMoves, PagesAssumption
<1>. QED
    BY <1>2, <1>3, PTL DEF Scenes

\* A result that needed no hashing stands under the right it was made for, however the
\* boxes are edited, the tabs switched and answers delayed.
THEOREM ResultsStandWithTheirWeek == Scenes => []ResultIsOfTheWeekShown
<1>1. (scene = "verify" => VerifyInv) => ResultIsOfTheWeekShown
    BY DEF VerifyInv, ResultIsOfTheWeekShown
<1>. QED
    BY <1>1, SpecVerify, PTL

LEMMA SupportedByItsChecks ==
    ASSUME VerifyInv PROVE Verify!SummaryIsSupported
<1>. SUFFICES ASSUME Verify!allOk PROVE
        /\ checks.attestation \in Verify!Attestation
        /\ checks.attestation.right = checks.right.id
        /\ checks.attestation.sound /\ checks.attestation.clear
        /\ checks.right.active /\ ~checks.right.rented
        /\ Verify!checkedAHolder => checks.claimed = checks.right.holder
        /\ Verify!checkedARecord <=> checks.record # Blank
        /\ Verify!checkedARecord => checks.attestation.digest = checks.record
    BY DEF Verify!SummaryIsSupported
<1>1. /\ checks # None /\ checks \in Verify!Input
      /\ \A check \in Verify!CollectChecks(checks) : check.ok
    BY DEF Verify!allOk, VerifyInv, Verify!TypeOK
<1>. DEFINE attested == Verify!AttestationChecks(checks.attestation, checks.right.id, checks.record)
            held == Verify!HolderChecks(checks.claimed, checks.right)
            recorded == Verify!RecordChecks(checks.record)
<1>2. /\ Verify!CollectChecks(checks) = recorded \cup attested \cup held
      /\ checks.attestation \in Verify!Attestation \cup {Blank, Bad}
      /\ checks.record \in Digests \cup {Blank, Bad}
      /\ checks.right.active \in BOOLEAN /\ checks.right.rented \in BOOLEAN
    BY <1>1 DEF Verify!CollectChecks, Verify!Input, Verify!Row
<1>3. /\ checks.attestation \notin {Blank, Bad}
      /\ attested = Verify!VerifyAttestation(checks.attestation, checks.right.id, checks.record)
    <2>1. checks.attestation # Blank
        <3>1. ASSUME checks.attestation = Blank
              PROVE  Verify!Check("attestation-absent", FALSE) \in attested
            BY <3>1 DEF Verify!AttestationChecks
        <3>. QED
            BY <1>1, <1>2, <3>1 DEF Verify!Check
    <2>2. checks.attestation # Bad
        <3>1. ASSUME checks.attestation = Bad
              PROVE  Verify!Check("attestation", FALSE) \in attested
            BY <2>1, <3>1 DEF Verify!AttestationChecks
        <3>. QED
            BY <1>1, <1>2, <3>1 DEF Verify!Check
    <2>. QED
        BY <2>1, <2>2 DEF Verify!AttestationChecks
<1>4. /\ Verify!Check("right", checks.attestation.right = checks.right.id) \in attested
      /\ Verify!Check("signature", checks.attestation.sound) \in attested
      /\ Verify!Check("fees", checks.attestation.clear) \in attested
      /\ checks.record \in Digests =>
            Verify!Check("record", checks.attestation.digest = checks.record) \in attested
    BY <1>3 DEF Verify!VerifyAttestation
<1>5. /\ checks.attestation.right = checks.right.id
      /\ checks.attestation.sound /\ checks.attestation.clear
      /\ checks.record \in Digests => checks.attestation.digest = checks.record
    <2>1. /\ (checks.attestation.right = checks.right.id) \in BOOLEAN
          /\ checks.attestation.sound \in BOOLEAN /\ checks.attestation.clear \in BOOLEAN
          /\ (checks.attestation.digest = checks.record) \in BOOLEAN
        BY <1>2, <1>3 DEF Verify!Attestation
    <2>2. \A id, ok : Verify!Check(id, ok) \in Verify!CollectChecks(checks) => ok
        BY <1>1 DEF Verify!Check
    <2>. QED
        BY <1>2, <1>4, <2>1, <2>2
<1>6. /\ Verify!Check("active", checks.right.active) \in held
      /\ checks.right.rented => Verify!Check("encumbered", FALSE) \in held
      /\ checks.claimed # Blank =>
            Verify!Check("holder", checks.claimed = checks.right.holder) \in held
    BY DEF Verify!HolderChecks
<1>7. /\ checks.right.active /\ ~checks.right.rented
      /\ checks.claimed # Blank => checks.claimed = checks.right.holder
    BY <1>1, <1>2, <1>6 DEF Verify!Check
<1>8. Verify!checkedAHolder => checks.claimed # Blank
    <2>1. \A check \in recorded \cup attested : check.id # "holder"
        BY <1>3 DEF Verify!RecordChecks, Verify!VerifyAttestation, Verify!Check
    <2>2. checks.claimed = Blank => \A check \in held : check.id # "holder"
        BY DEF Verify!HolderChecks, Verify!Check
    <2>. QED
        BY <1>2, <2>1, <2>2 DEF Verify!checkedAHolder, Verify!Checked
<1>9. checks.record # Bad \/ checks.record = Blank
    <2>1. ASSUME checks.record = Bad, checks.record # Blank
          PROVE  Verify!Check("record", FALSE) \in recorded
        BY <2>1 DEF Verify!RecordChecks
    <2>. QED
        BY <1>1, <1>2, <2>1 DEF Verify!Check
<1>10. checks.record # Blank => Verify!checkedARecord
    BY <1>1, <1>2, <1>4, <1>9 DEF Verify!checkedARecord, Verify!Checked, Verify!Check
<1>11. Verify!checkedARecord => checks.record # Blank
    <2>1. ASSUME checks.record = Blank
          PROVE  \A check \in recorded \cup attested \cup held : check.id # "record"
        <3>1. recorded = {}
            BY <2>1 DEF Verify!RecordChecks
        <3>2. \A check \in attested : check.id # "record"
            BY <1>3, <2>1, PagesAssumption DEF Verify!VerifyAttestation, Verify!Check
        <3>3. \A check \in held : check.id # "record"
            BY DEF Verify!HolderChecks, Verify!Check
        <3>. QED
            BY <3>1, <3>2, <3>3
    <2>. QED
        BY <1>2, <2>1 DEF Verify!checkedARecord, Verify!Checked
<1>. QED
    BY <1>2, <1>3, <1>5, <1>7, <1>8, <1>9, <1>10, <1>11

\* Every sentence of the good news about a week is true of what was put in.
THEOREM SummariesAreSupported == Scenes => []SummaryIsSupported
<1>1. (scene = "verify" => VerifyInv) => SummaryIsSupported
    BY SupportedByItsChecks DEF SummaryIsSupported
<1>. QED
    BY <1>1, SpecVerify, PTL

-----------------------------------------------------------------------------
(* IssuePage                                                                *)

\* An h and an owner that are those of an ask, if there is one.
AgreesWithAsk(ask, hash, owner) == ask # None => hash = ask.hash /\ owner = ask.by

\* The h in the box is that of the ask picked; a call that is out keeps an owner
\* and an h that agree with its ask; and once the route has issued for it, the week is
\* the one of its record.
IssuingInv ==
    /\ DOMAIN weeks = 1..Len(weeks) /\ Len(weeks) \in Nat
    /\ selected # None => secretHash = selected.hash
    /\ call # None =>
         /\ AgreesWithAsk(call.ask, call.shown, call.text.owner)
         /\ call.issued \in Nat
         /\ call.issued # 0 =>
               call.issued \in DOMAIN weeks /\ weeks[call.issued].record = call.text
    /\ result # None =>
         /\ result.right_id \in DOMAIN weeks
         /\ result.issuedText = weeks[result.right_id].record
    /\ \A n \in DOMAIN weeks :
         /\ weeks[n].hash = weeks[n].shown
         /\ AgreesWithAsk(weeks[n].ask, weeks[n].shown, weeks[n].record.owner)

LEMMA IssuingIssue == ASSUME IssuingInv, Issuing!Issue PROVE IssuingInv'
<1>1. /\ UNCHANGED <<weeks, selected, secretHash>> /\ result' = None
      /\ call' = IF recordText = Bad THEN None
                 ELSE [text |-> recordText, ask |-> selected, shown |-> secretHash, issued |-> 0]
      /\ selected # None => recordText.owner = selected.by
    BY DEF Issuing!Issue, Issuing!ownerMatchesAsk, Issuing!picks
<1>. QED
    BY <1>1 DEF IssuingInv, AgreesWithAsk

LEMMA IssuingIssued == ASSUME IssuingInv, Issuing!Issued PROVE IssuingInv'
<1>. DEFINE week == [record |-> call.text, ask |-> call.ask, shown |-> call.shown,
                     hash |-> IF call.ask = None THEN call.shown ELSE call.ask.hash]
<1>1. /\ call # None /\ weeks' = Append(weeks, week)
      /\ call' = [call EXCEPT !.issued = Len(weeks) + 1]
      /\ UNCHANGED <<selected, secretHash, result>>
    BY DEF Issuing!Issued, Issuing!picks
<1>2. week.hash = week.shown /\ AgreesWithAsk(week.ask, week.shown, week.record.owner)
    BY <1>1 DEF IssuingInv, AgreesWithAsk
<1>. QED
    BY <1>1, <1>2 DEF IssuingInv

LEMMA NextIssuing ==
    ASSUME IssuingInv, [Issuing!Next]_(Issuing!vars)
    PROVE  IssuingInv'
<1>1. ASSUME UNCHANGED <<call, result, weeks>>, selected' # None => secretHash' = selected'.hash
      PROVE  IssuingInv'
    BY <1>1 DEF IssuingInv
<1>2. CASE UNCHANGED Issuing!vars
    BY <1>1, <1>2 DEF Issuing!vars, Issuing!picks, IssuingInv
<1>3. ASSUME NEW text, Issuing!Edit(text) PROVE IssuingInv'
    BY <1>1, <1>3 DEF Issuing!Edit, Issuing!picks, IssuingInv
<1>4. ASSUME NEW by, NEW hash, Issuing!Ask(by, hash) PROVE IssuingInv'
    BY <1>1, <1>4 DEF Issuing!Ask, Issuing!picks, IssuingInv
<1>5. ASSUME NEW ask, Issuing!Pick(ask) PROVE IssuingInv'
    BY <1>1, <1>5 DEF Issuing!Pick
<1>6. ASSUME NEW hash, Issuing!TypeHash(hash) PROVE IssuingInv'
    BY <1>1, <1>6 DEF Issuing!TypeHash
<1>7. CASE \/ Issuing!PreviewAnswers \/ Issuing!SignIn \/ Issuing!SignOut
           \/ Issuing!AsksAnswer
    BY <1>1, <1>7 DEF Issuing!PreviewAnswers, Issuing!SignIn, Issuing!SignOut,
                      Issuing!AsksAnswer, Issuing!picks, IssuingInv
<1>8. CASE Issuing!Deselect
    BY <1>1, <1>8 DEF Issuing!Deselect
<1>9. CASE Issuing!Issue
    BY <1>9, IssuingIssue
<1>10. CASE Issuing!Issued
    BY <1>10, IssuingIssued
<1>11. CASE Issuing!Answers
    <2>1. /\ call # None /\ call.issued # 0 /\ call' = None /\ UNCHANGED weeks
          /\ result' = [right_id |-> call.issued, issuedText |-> call.text]
          /\ selected' = None \/ UNCHANGED <<secretHash, selected>>
        BY <1>11 DEF Issuing!Answers, Issuing!IssuedText, Issuing!picks
    <2>. QED
        BY <2>1 DEF IssuingInv
<1>12. CASE Issuing!Fails
    BY <1>12 DEF Issuing!Fails, Issuing!picks, IssuingInv
<1>. QED
    BY <1>2, <1>3, <1>4, <1>5, <1>6, <1>7, <1>8, <1>9, <1>10, <1>11, <1>12
       DEF Issuing!Next, Issuing!EditForm, Issuing!EditJson

\* The page's own types; a call that is out keeps a record that validated.
IssuingTyped ==
    /\ Issuing!TypeOK
    /\ call # None =>
         /\ DOMAIN call = {"text", "ask", "shown", "issued"}
         /\ call.text \in Issuing!Records /\ call.ask \in Issuing!Asks \cup {None}
         /\ call.shown \in Hashes

LEMMA WriteOwnerTyped ==
    ASSUME recordText \in Issuing!Records \cup {Bad}, NEW who \in Accounts
    PROVE  Issuing!WriteOwner(who) \in Issuing!Records \cup {Bad}
<1>1. CASE recordText = Bad
    BY <1>1 DEF Issuing!WriteOwner
<1>2. CASE recordText # Bad
    <2>1. [recordText EXCEPT !.owner = who] \in Issuing!Records
        BY <1>2 DEF Issuing!Records
    <2>. QED
        BY <1>2, <2>1 DEF Issuing!WriteOwner
<1>. QED
    BY <1>1, <1>2

LEMMA NextIssuingTyped ==
    ASSUME IssuingTyped, IssuingInv, [Issuing!Next]_(Issuing!vars)
    PROVE  IssuingTyped'
<1>1. ASSUME UNCHANGED <<weeks, result, call>>, isIssuer' \in BOOLEAN,
             previewing' \in BOOLEAN, reading' \in BOOLEAN,
             recordText' \in Issuing!Records \cup {Bad},
             preview' \in Issuing!Records \cup {None},
             secretHash' \in Hashes \cup {Blank}, selected' \in Issuing!Asks \cup {None},
             queue' \subseteq Issuing!Asks, open' \subseteq Issuing!Asks
      PROVE  IssuingTyped'
    BY <1>1 DEF IssuingTyped, Issuing!TypeOK
<1>2. /\ isIssuer \in BOOLEAN /\ previewing \in BOOLEAN /\ reading \in BOOLEAN
      /\ recordText \in Issuing!Records \cup {Bad} /\ preview \in Issuing!Records \cup {None}
      /\ secretHash \in Hashes \cup {Blank} /\ selected \in Issuing!Asks \cup {None}
      /\ queue \subseteq Issuing!Asks /\ open \subseteq Issuing!Asks
    BY DEF IssuingTyped, Issuing!TypeOK
<1>3. CASE UNCHANGED Issuing!vars
    BY <1>1, <1>2, <1>3 DEF Issuing!vars, Issuing!picks, Issuing!editor
<1>4. ASSUME NEW text \in Issuing!Records \cup {Bad}, Issuing!Edit(text) PROVE IssuingTyped'
    <2>1. previewing' \in BOOLEAN
        BY <1>2, <1>4 DEF Issuing!Edit, Issuing!Rewrite
    <2>. QED
        BY <1>1, <1>2, <1>4, <2>1 DEF Issuing!Edit, Issuing!Rewrite, Issuing!picks
<1>5. ASSUME NEW who \in Accounts, Issuing!EditForm(who) PROVE IssuingTyped'
    BY <1>2, <1>4, <1>5, WriteOwnerTyped DEF Issuing!EditForm
<1>6. ASSUME NEW by \in Accounts, NEW hash \in Hashes, Issuing!Ask(by, hash) PROVE IssuingTyped'
    <2>1. open' \subseteq Issuing!Asks
        BY <1>2, <1>6 DEF Issuing!Ask, Issuing!Asks
    <2>. QED
        BY <1>1, <1>2, <1>6, <2>1 DEF Issuing!Ask, Issuing!picks, Issuing!editor
<1>7. ASSUME NEW ask \in queue, Issuing!Pick(ask) PROVE IssuingTyped'
    <2>1. ask \in Issuing!Asks /\ ask.by \in Accounts /\ ask.hash \in Hashes
        BY <1>2 DEF Issuing!Asks
    <2>2. previewing' \in BOOLEAN /\ recordText' \in Issuing!Records \cup {Bad}
        BY <1>2, <1>7, <2>1, WriteOwnerTyped DEF Issuing!Pick, Issuing!Rewrite
    <2>. QED
        BY <1>1, <1>2, <1>7, <2>1, <2>2 DEF Issuing!Pick
<1>8. ASSUME NEW hash \in Hashes \cup {Blank}, Issuing!TypeHash(hash) PROVE IssuingTyped'
    BY <1>1, <1>2, <1>8 DEF Issuing!TypeHash, Issuing!editor
<1>9. CASE Issuing!PreviewAnswers
    <2>1. preview' \in Issuing!Records \cup {None}
        BY <1>9 DEF Issuing!PreviewAnswers, Issuing!Valid
    <2>. QED
        BY <1>1, <1>2, <1>9, <2>1 DEF Issuing!PreviewAnswers, Issuing!picks
<1>10. CASE Issuing!SignIn \/ Issuing!SignOut \/ Issuing!AsksAnswer \/ Issuing!Deselect
    BY <1>1, <1>2, <1>10 DEF Issuing!SignIn, Issuing!SignOut, Issuing!AsksAnswer,
                             Issuing!Deselect, Issuing!picks, Issuing!editor
<1>11. CASE Issuing!Issue
    <2>1. /\ UNCHANGED <<isIssuer, recordText, preview, previewing, edits, secretHash, selected, queue, reading, open, weeks>>
          /\ result' = None /\ secretHash \in Hashes
          /\ call' = IF recordText = Bad THEN None
                     ELSE [text |-> recordText, ask |-> selected, shown |-> secretHash,
                           issued |-> 0]
        BY <1>2, <1>11 DEF Issuing!Issue, Issuing!picks, Issuing!editor
    <2>. QED
        BY <1>2, <2>1 DEF IssuingTyped, Issuing!TypeOK
<1>12. CASE Issuing!Issued
    <2>. DEFINE week == [record |-> call.text, ask |-> call.ask, shown |-> call.shown,
                         hash |-> IF call.ask = None THEN call.shown ELSE call.ask.hash]
    <2>1. /\ call # None /\ weeks' = Append(weeks, week) /\ open' \subseteq open
          /\ call' = [call EXCEPT !.issued = Len(weeks) + 1]
          /\ UNCHANGED <<isIssuer, recordText, preview, previewing, edits, secretHash, selected, queue, reading, result>>
        BY <1>12 DEF Issuing!Issued, Issuing!picks, Issuing!editor
    <2>2. /\ call.text \in Issuing!Records /\ call.ask \in Issuing!Asks \cup {None}
          /\ call.shown \in Hashes /\ DOMAIN call = {"text", "ask", "shown", "issued"}
        BY <2>1 DEF IssuingTyped
    <2>3. week.record \in Issuing!Records /\ week.ask \in Issuing!Asks \cup {None}
          /\ week.hash \in Hashes
        BY <2>2 DEF Issuing!Asks
    <2>4. /\ DOMAIN weeks' = 1..(Len(weeks) + 1) /\ weeks'[Len(weeks) + 1] = week
          /\ \A n \in DOMAIN weeks : weeks'[n] = weeks[n]
          /\ DOMAIN weeks = 1..Len(weeks) /\ Len(weeks) \in Nat
        BY <2>1 DEF IssuingInv
    <2>5. call'.text = call.text /\ call'.ask = call.ask /\ call'.shown = call.shown
          /\ DOMAIN call' = DOMAIN call
        BY <2>1, <2>2
    <2>. HIDE DEF week
    <2>6. \A n \in DOMAIN weeks' : weeks'[n].record \in Issuing!Records
             /\ weeks'[n].ask \in Issuing!Asks \cup {None} /\ weeks'[n].hash \in Hashes
        BY <2>3, <2>4 DEF IssuingTyped, Issuing!TypeOK
    <2>7. result' # None => result'.right_id \in DOMAIN weeks'
        BY <2>1, <2>4 DEF IssuingTyped, Issuing!TypeOK
    <2>. QED
        BY <1>2, <2>1, <2>2, <2>5, <2>6, <2>7 DEF IssuingTyped, Issuing!TypeOK
<1>13. CASE Issuing!Answers
    <2>1. /\ call # None /\ call.issued # 0 /\ call' = None /\ result'.right_id = call.issued
          /\ queue' \subseteq queue /\ selected' \in {None, selected}
          /\ secretHash' \in {Blank, secretHash}
          /\ UNCHANGED <<isIssuer, recordText, preview, previewing, edits, reading, open, weeks>>
        BY <1>13 DEF Issuing!Answers, Issuing!picks, Issuing!editor
    <2>2. call.issued \in DOMAIN weeks
        BY <2>1 DEF IssuingInv
    <2>. QED
        BY <1>2, <2>1, <2>2 DEF IssuingTyped, Issuing!TypeOK
<1>14. CASE Issuing!Fails
    BY <1>2, <1>14 DEF Issuing!Fails, IssuingTyped, Issuing!TypeOK, Issuing!picks, Issuing!editor
<1>. QED
    BY <1>3, <1>4, <1>5, <1>6, <1>7, <1>8, <1>9, <1>10, <1>11, <1>12, <1>13, <1>14
       DEF Issuing!Next, Issuing!EditJson

LEMMA SpecIssuing == Scenes => [](scene = "issue" => IssuingInv /\ IssuingTyped)
<1>1. Issuing!Init => IssuingInv /\ IssuingTyped
    <2>. SUFFICES ASSUME Issuing!Init PROVE IssuingInv /\ IssuingTyped
        OBVIOUS
    <2>1. IssuingInv
        BY DEF Issuing!Init, IssuingInv
    <2>2. isIssuer \in BOOLEAN /\ previewing \in BOOLEAN /\ reading \in BOOLEAN
        BY DEF Issuing!Init
    <2>3. recordText \in Issuing!Records
        BY DEF Issuing!Init
    <2>. QED
        BY <2>1, <2>2, <2>3 DEF Issuing!Init, IssuingTyped, Issuing!TypeOK
<1>2. ScenesInit => (scene = "issue" => IssuingInv /\ IssuingTyped)
    BY <1>1 DEF ScenesInit
<1>3. (scene = "issue" => IssuingInv /\ IssuingTyped) /\ [ScenesNext]_all
         => (scene = "issue" => IssuingInv /\ IssuingTyped)'
    BY NextIssuing, NextIssuingTyped, SceneMoves
<1>. QED
    BY <1>2, <1>3, PTL DEF Scenes

\* The record offered for saving is the issued one, whatever was edited meanwhile.
THEOREM TheOnlyCopyIsRight == Scenes => []SavedIsWhatWasIssued
<1>1. (scene = "issue" => IssuingInv /\ IssuingTyped) => SavedIsWhatWasIssued
    BY DEF IssuingInv, SavedIsWhatWasIssued, Issuing!SavedIsWhatWasIssued
<1>. QED
    BY <1>1, SpecIssuing, PTL

\* A week issued from an ask is the asker's, under the h that was on the screen.
THEOREM AskersGetTheirWeek == Scenes => []AsksAreIssuedAsShown
<1>1. (scene = "issue" => IssuingInv /\ IssuingTyped) => AsksAreIssuedAsShown
    BY DEF IssuingInv, AgreesWithAsk, AsksAreIssuedAsShown, Issuing!AsksAreIssuedAsShown
<1>. QED
    BY <1>1, SpecIssuing, PTL

-----------------------------------------------------------------------------
(* ListPage                                                                 *)

\* An action is some account's, keeps it, and has sent nothing for another; and the
\* card shown as busy has an action that is not over.
ListInv ==
    /\ DOMAIN flows = 1..Len(flows) /\ Len(flows) \in Nat
    /\ \A n \in DOMAIN flows :
         /\ flows[n].at \in Nat
         /\ DOMAIN flows[n] = {"kind", "right", "account", "at", "sentAs"}
         /\ flows[n].account # None /\ flows[n].sentAs \subseteq {flows[n].account}
    /\ busyRight # None => \E n \in DOMAIN flows : flows[n].at # 0 /\ flows[n].right = busyRight

\* A card offers its buttons to somebody.
LEMMA OfferedToSomebody ==
    ASSUME Issuer # None, NEW r, NEW kind \in List!Kinds, List!Offered(r, kind)
    PROVE  account # None
BY DEF List!Kinds, List!Offered, List!mayAsk, List!mine

LEMMA ListClick ==
    ASSUME Issuer # None, ListInv, NEW r, NEW kind \in List!Kinds, List!Click(r, kind)
    PROVE  ListInv'
<1>. DEFINE chain == [kind |-> kind, right |-> r, account |-> account, at |-> 1,
                      sentAs |-> {account}]
<1>1. account # None
    BY OfferedToSomebody DEF List!Click
<1>2. flows' = Append(flows, chain) /\ busyRight' = r
    <2>. DEFINE clicked == [kind |-> kind, right |-> r, account |-> account, at |-> 0,
                            sentAs |-> {}]
    <2>1. flows' = Append(flows, List!Send(clicked, 1)) /\ busyRight' = r
        BY DEF List!Click
    <2>2. List!Send(clicked, 1) = [clicked EXCEPT !.at = 1, !.sentAs = {} \cup {account}]
        BY DEF List!Send, List!Caller
    <2>3. {} \cup {account} = {account}
        OBVIOUS
    <2>. QED
        BY <2>1, <2>2, <2>3
<1>3. /\ DOMAIN flows' = 1..(Len(flows) + 1) /\ Len(flows') = Len(flows) + 1
      /\ flows'[Len(flows) + 1] = chain
      /\ \A n \in DOMAIN flows : flows'[n] = flows[n]
    BY <1>2 DEF ListInv
<1>. QED
    BY <1>1, <1>2, <1>3 DEF ListInv

LEMMA ListAnswers ==
    ASSUME ListInv, NEW n \in DOMAIN flows, List!Answers(n)
    PROVE  ListInv'
<1>1. /\ flows' = [flows EXCEPT ![n] = [flows[n] EXCEPT !.at = flows[n].at + 1,
                        !.sentAs = flows[n].sentAs \cup {flows[n].account}]]
      /\ busyRight' = busyRight
    BY DEF List!Answers, List!Send, List!Caller
<1>2. /\ flows'[n].at = flows[n].at + 1 /\ flows'[n].account = flows[n].account
      /\ flows'[n].right = flows[n].right
      /\ flows'[n].sentAs = flows[n].sentAs \cup {flows[n].account}
      /\ DOMAIN flows'[n] = DOMAIN flows[n]
    BY <1>1 DEF ListInv
<1>3. DOMAIN flows' = DOMAIN flows /\ \A m \in DOMAIN flows \ {n} : flows'[m] = flows[m]
    BY <1>1
<1>4. Len(flows') = Len(flows)
    BY <1>1 DEF ListInv
<1>. QED
    BY <1>1, <1>2, <1>3, <1>4 DEF ListInv

LEMMA ListFinally ==
    ASSUME ListInv, NEW n \in DOMAIN flows, List!Finally(n)
    PROVE  ListInv'
<1>1. flows' = [flows EXCEPT ![n] = [flows[n] EXCEPT !.at = 0]] /\ busyRight' = None
    BY DEF List!Finally
<1>2. /\ flows'[n].at = 0 /\ flows'[n].account = flows[n].account
      /\ flows'[n].sentAs = flows[n].sentAs
      /\ DOMAIN flows'[n] = DOMAIN flows[n]
    BY <1>1 DEF ListInv
<1>3. DOMAIN flows' = DOMAIN flows /\ \A m \in DOMAIN flows \ {n} : flows'[m] = flows[m]
    BY <1>1
<1>4. Len(flows') = Len(flows)
    BY <1>1 DEF ListInv
<1>. QED
    BY <1>1, <1>2, <1>3, <1>4 DEF ListInv

LEMMA NextList ==
    ASSUME Issuer # None, ListInv, [List!Next]_(List!vars)
    PROVE  ListInv'
<1>1. ASSUME UNCHANGED <<flows, busyRight>> PROVE ListInv'
    BY <1>1 DEF ListInv
<1>2. CASE UNCHANGED List!vars
    BY <1>1, <1>2 DEF List!vars
<1>3. ASSUME NEW who, List!SignIn(who) \/ List!AsksAnswer(who) PROVE ListInv'
    BY <1>1, <1>3 DEF List!SignIn, List!AsksAnswer
<1>4. CASE List!SignOut \/ List!RegistryAnswers \/ \E which \in List!Filters : List!Pick(which)
    BY <1>1, <1>4 DEF List!SignOut, List!RegistryAnswers, List!Pick
<1>5. ASSUME NEW r, NEW kind \in List!Kinds, List!Click(r, kind) PROVE ListInv'
    BY <1>5, ListClick
<1>6. ASSUME NEW n \in DOMAIN flows, List!Answers(n) PROVE ListInv'
    BY <1>6, ListAnswers
<1>7. ASSUME NEW n \in DOMAIN flows, List!Throws(n) \/ List!Ends(n) PROVE ListInv'
    BY <1>7, ListFinally DEF List!Throws, List!Ends
<1>. QED
    BY <1>2, <1>3, <1>4, <1>5, <1>6, <1>7 DEF List!Next

\* The page's own types; an action is some account's.
ListTyped ==
    /\ List!TypeOK
    /\ \A n \in DOMAIN flows : flows[n].account \in Accounts

PageTyped ==
    /\ inventory = None \/ inventory \in List!Readable
    /\ asks.incoming \subseteq Rights /\ asks.outgoing \subseteq Rights
    /\ filter \in List!Filters /\ autoSelected \in BOOLEAN

FlowsTyped ==
    /\ Len(flows) <= MaxClicks
    /\ \A n \in DOMAIN flows :
         /\ flows[n].kind \in List!Kinds /\ flows[n].at \in 0..List!LastStep(n)
         /\ flows[n].account \in Accounts

LEMMA ListParts ==
    ListTyped <=> /\ account \in Accounts \cup {None} /\ PageTyped /\ FlowsTyped
                  /\ busyRight \in Rights \cup {None}
                  /\ registryReads \in BOOLEAN /\ asksReads \subseteq Accounts
BY DEF ListTyped, List!TypeOK, PageTyped, FlowsTyped

\* What an answer shows, and the tab the page lands on.
LEMMA ListShows ==
    ASSUME PageTyped,
           \/ \E read \in List!Readable : List!ShowRegistry(read)
           \/ \E who \in Accounts : \E now \in AsksOf[who] \cup {List!NoAsks} : List!ShowAsks(now)
           \/ UNCHANGED List!page
    PROVE  PageTyped'
<1>1. ASSUME NEW who, NEW read, NEW now, List!AutoSelect(who, read, now)
      PROVE  filter' \in List!Filters /\ autoSelected' \in BOOLEAN
    BY <1>1 DEF List!AutoSelect, List!Filters, PageTyped
<1>2. ASSUME NEW read \in List!Readable, List!ShowRegistry(read) PROVE PageTyped'
    BY <1>1, <1>2 DEF List!ShowRegistry, PageTyped
<1>3. ASSUME NEW who \in Accounts, NEW now \in AsksOf[who] \cup {List!NoAsks},
             List!ShowAsks(now)
      PROVE  PageTyped'
    <2>1. now.incoming \subseteq Rights /\ now.outgoing \subseteq Rights
        BY PagesAssumption DEF List!NoAsks
    <2>. QED
        BY <1>1, <1>3, <2>1 DEF List!ShowAsks, PageTyped
<1>4. CASE UNCHANGED List!page
    BY <1>4 DEF List!page, PageTyped
<1>. QED
    BY <1>2, <1>3, <1>4

LEMMA ScriptLengths == \A kind \in List!Kinds : Len(List!Script(kind)) \in {2, 4}
BY DEF List!Kinds, List!Script

LEMMA NextListTyped ==
    ASSUME ListTyped, ListInv, [List!Next]_(List!vars)
    PROVE  ListTyped'
<1>0. /\ account \in Accounts \cup {None} /\ PageTyped /\ FlowsTyped
      /\ busyRight \in Rights \cup {None}
      /\ registryReads \in BOOLEAN /\ asksReads \subseteq Accounts
    BY ListParts
<1>1. SUFFICES /\ account' \in Accounts \cup {None} /\ PageTyped' /\ FlowsTyped'
               /\ busyRight' \in Rights \cup {None}
               /\ registryReads' \in BOOLEAN /\ asksReads' \subseteq Accounts
    BY DEF ListTyped, List!TypeOK, PageTyped, FlowsTyped
<1>2. ASSUME UNCHANGED flows PROVE FlowsTyped'
    BY <1>0, <1>2 DEF FlowsTyped, List!LastStep
<1>3. ASSUME UNCHANGED <<inventory, asks, filter, autoSelected>> PROVE PageTyped'
    BY <1>0, <1>3 DEF PageTyped
<1>4. CASE UNCHANGED List!vars
    BY <1>0, <1>2, <1>3, <1>4 DEF List!vars, List!page
<1>5. ASSUME NEW who \in Accounts, List!SignIn(who)
      PROVE  ListTyped'
    <2>1. PageTyped'
        BY <1>0, <1>5 DEF List!SignIn, List!AutoSelect, List!Filters, PageTyped
    <2>. QED
        BY <1>0, <1>2, <1>5, <2>1 DEF List!SignIn, ListTyped, List!TypeOK, PageTyped, FlowsTyped
<1>6. ASSUME NEW who \in Accounts, List!AsksAnswer(who) PROVE ListTyped'
    <2>1. PageTyped'
        BY <1>0, <1>6, ListShows DEF List!AsksAnswer
    <2>. QED
        BY <1>0, <1>2, <1>6, <2>1
        DEF List!AsksAnswer, ListTyped, List!TypeOK, PageTyped, FlowsTyped
<1>7. CASE List!SignOut
    <2>1. PageTyped'
        BY <1>0, <1>7 DEF List!SignOut, List!NoAsks, PageTyped
    <2>. QED
        BY <1>0, <1>2, <1>7, <2>1 DEF List!SignOut
<1>8. CASE List!RegistryAnswers
    <2>1. PageTyped'
        BY <1>0, <1>8, ListShows DEF List!RegistryAnswers
    <2>. QED
        BY <1>0, <1>2, <1>8, <2>1 DEF List!RegistryAnswers
<1>9. ASSUME NEW which \in List!Filters, List!Pick(which) PROVE ListTyped'
    <2>1. PageTyped'
        BY <1>0, <1>9 DEF List!Pick, PageTyped
    <2>. QED
        BY <1>0, <1>2, <1>9, <2>1 DEF List!Pick, ListTyped, List!TypeOK, PageTyped, FlowsTyped
<1>10. ASSUME NEW r \in Rights, NEW kind \in List!Kinds, List!Click(r, kind)
       PROVE  ListTyped'
    <2>. DEFINE chain == [kind |-> kind, right |-> r, account |-> account, at |-> 1,
                          sentAs |-> {account}]
    <2>1. flows' = Append(flows, chain) /\ busyRight' = r /\ Len(flows) < MaxClicks
        <3>. DEFINE clicked == [kind |-> kind, right |-> r, account |-> account, at |-> 0,
                                sentAs |-> {}]
        <3>1. flows' = Append(flows, List!Send(clicked, 1)) /\ busyRight' = r
              /\ Len(flows) < MaxClicks
            BY <1>10 DEF List!Click
        <3>2. List!Send(clicked, 1) = [clicked EXCEPT !.at = 1, !.sentAs = {} \cup {account}]
            BY DEF List!Send, List!Caller
        <3>3. {} \cup {account} = {account}
            OBVIOUS
        <3>. QED
            BY <3>1, <3>2, <3>3
    <2>2. account \in Accounts
        BY <1>0, <1>10, OfferedToSomebody, PagesAssumption DEF List!Click
    <2>3. /\ DOMAIN flows' = 1..(Len(flows) + 1) /\ Len(flows') = Len(flows) + 1
          /\ flows'[Len(flows) + 1] = chain /\ Len(flows) \in Nat
          /\ \A n \in DOMAIN flows : flows'[n] = flows[n]
          /\ DOMAIN flows = 1..Len(flows)
        BY <2>1 DEF ListInv
    <2>4. Len(flows') <= MaxClicks
        BY <2>1, <2>3, NumbersAssumption
    <2>5. ASSUME NEW n \in DOMAIN flows'
          PROVE  /\ flows'[n].kind \in List!Kinds
                 /\ flows'[n].at \in 0..Len(List!Script(flows'[n].kind))
                 /\ flows'[n].account \in Accounts
        <3>1. CASE n \in DOMAIN flows
            BY <1>0, <2>3, <3>1 DEF FlowsTyped, List!LastStep
        <3>2. CASE n = Len(flows) + 1
            <4>1. /\ flows'[n].kind = kind /\ flows'[n].at = 1 /\ flows'[n].account = account
                BY <2>3, <3>2
            <4>2. Len(List!Script(flows'[n].kind)) \in {2, 4}
                BY <4>1, ScriptLengths
            <4>3. 1 \in 0..Len(List!Script(flows'[n].kind))
                <5>1. \A k \in {2, 4} : 1 \in 0..k
                    OBVIOUS
                <5>. QED
                    BY <4>2, <5>1, Zenon
            <4>4. flows'[n].kind \in List!Kinds
                BY <4>1
            <4>. QED
                BY <2>2, <4>1, <4>3, <4>4
        <3>. QED
            BY <2>3, <3>1, <3>2
    <2>6. FlowsTyped'
        BY <2>4, <2>5 DEF FlowsTyped, List!LastStep
    <2>7. UNCHANGED <<account, inventory, asks, filter, autoSelected, registryReads, asksReads>>
        BY <1>10 DEF List!Click, List!page
    <2>. QED
        BY <1>0, <1>3, <2>1, <2>6, <2>7 DEF ListTyped, List!TypeOK, PageTyped, FlowsTyped
<1>11. ASSUME NEW n \in DOMAIN flows, NEW place \in 0..List!LastStep(n), DOMAIN flows' = DOMAIN flows,
              Len(flows') = Len(flows),
              \A m \in DOMAIN flows \ {n} : flows'[m] = flows[m],
              flows'[n].kind = flows[n].kind, flows'[n].account = flows[n].account,
              flows'[n].at = place
       PROVE  FlowsTyped'
    <2>. SUFFICES ASSUME NEW m \in DOMAIN flows
                  PROVE  /\ flows'[m].kind \in List!Kinds
                         /\ flows'[m].at \in 0..Len(List!Script(flows'[m].kind))
                         /\ flows'[m].account \in Accounts
        BY <1>0, <1>11 DEF FlowsTyped, List!LastStep
    <2>1. CASE m = n
        BY <1>0, <1>11, <2>1 DEF FlowsTyped, List!LastStep
    <2>2. CASE m # n
        BY <1>0, <1>11, <2>2 DEF FlowsTyped, List!LastStep
    <2>. QED
        BY <2>1, <2>2
<1>12. ASSUME NEW n \in DOMAIN flows
       PROVE  /\ flows[n].at \in Nat /\ List!LastStep(n) \in Nat
              /\ DOMAIN flows[n] = {"kind", "right", "account", "at", "sentAs"}
              /\ flows[n].account \in Accounts
    <2>1. List!LastStep(n) \in {2, 4}
        BY <1>0, <1>12, ScriptLengths DEF FlowsTyped, List!LastStep
    <2>. QED
        BY <1>0, <2>1 DEF ListInv, FlowsTyped
<1>13. ASSUME NEW n \in DOMAIN flows, List!Answers(n) PROVE ListTyped'
    <2>1. /\ flows' = [flows EXCEPT ![n] = [flows[n] EXCEPT !.at = flows[n].at + 1,
                            !.sentAs = flows[n].sentAs \cup {flows[n].account}]]
          /\ flows[n].at < List!LastStep(n)
          /\ UNCHANGED <<account, inventory, asks, filter, autoSelected, busyRight,
                         registryReads, asksReads>>
        BY <1>13 DEF List!Answers, List!Send, List!Caller, List!page
    <2>2. flows[n].at + 1 \in 0..List!LastStep(n)
        BY <1>12, <2>1
    <2>3. /\ flows'[n].kind = flows[n].kind /\ flows'[n].account = flows[n].account
          /\ flows'[n].at = flows[n].at + 1
          /\ DOMAIN flows' = DOMAIN flows /\ Len(flows') = Len(flows)
          /\ \A m \in DOMAIN flows \ {n} : flows'[m] = flows[m]
        BY <1>12, <2>1 DEF ListInv
    <2>4. FlowsTyped'
        BY <1>11, <2>2, <2>3
    <2>. QED
        BY <1>0, <1>3, <2>1, <2>4 DEF ListTyped, List!TypeOK, PageTyped, FlowsTyped
<1>14. ASSUME NEW n \in DOMAIN flows, List!Finally(n) PROVE FlowsTyped' /\ busyRight' = None
    <2>1. flows' = [flows EXCEPT ![n] = [flows[n] EXCEPT !.at = 0]] /\ busyRight' = None
        BY <1>14 DEF List!Finally
    <2>2. /\ flows'[n].kind = flows[n].kind /\ flows'[n].account = flows[n].account
          /\ flows'[n].at = 0
          /\ DOMAIN flows' = DOMAIN flows /\ Len(flows') = Len(flows)
          /\ \A m \in DOMAIN flows \ {n} : flows'[m] = flows[m]
        BY <1>12, <2>1 DEF ListInv
    <2>3. 0 \in 0..List!LastStep(n)
        BY <1>12
    <2>. QED
        BY <1>11, <2>1, <2>2, <2>3
<1>15. ASSUME NEW n \in DOMAIN flows, List!Throws(n) PROVE ListTyped'
    <2>1. PageTyped' /\ FlowsTyped' /\ busyRight' = None
        BY <1>3, <1>14, <1>15 DEF List!Throws, List!page
    <2>. QED
        BY <1>0, <1>15, <2>1 DEF List!Throws, ListTyped, List!TypeOK, PageTyped, FlowsTyped
<1>16. ASSUME NEW n \in DOMAIN flows, List!Ends(n) PROVE ListTyped'
    <2>1. PageTyped'
        BY <1>0, <1>12, <1>16, ListShows DEF List!Ends
    <2>2. FlowsTyped' /\ busyRight' = None
        BY <1>14, <1>16 DEF List!Ends
    <2>. QED
        BY <1>0, <1>16, <2>1, <2>2 DEF List!Ends, ListTyped, List!TypeOK, PageTyped, FlowsTyped
<1>. QED
    BY <1>4, <1>5, <1>6, <1>7, <1>8, <1>9, <1>10, <1>13, <1>15, <1>16, ListParts
       DEF List!Next, ListTyped, List!TypeOK, PageTyped, FlowsTyped

LEMMA SpecList == Scenes => [](scene = "list" => ListInv /\ ListTyped)
<1>1. List!Init => ListInv /\ ListTyped
    <2>. SUFFICES ASSUME List!Init PROVE ListInv /\ ListTyped
        OBVIOUS
    <2>1. ListInv
        BY DEF List!Init, ListInv
    <2>2. PageTyped /\ registryReads \in BOOLEAN
        BY DEF List!Init, PageTyped, List!NoAsks, List!Filters
    <2>3. FlowsTyped
        BY NumbersAssumption DEF List!Init, FlowsTyped
    <2>. QED
        BY <2>1, <2>2, <2>3, ListParts DEF List!Init
<1>2. ScenesInit => (scene = "list" => ListInv /\ ListTyped)
    BY <1>1 DEF ScenesInit
<1>3. (scene = "list" => ListInv /\ ListTyped) /\ [ScenesNext]_all
         => (scene = "list" => ListInv /\ ListTyped)'
    BY NextList, NextListTyped, SceneMoves, PagesAssumption
<1>. QED
    BY <1>2, <1>3, PTL DEF Scenes

\* An action sends everything for the account that clicked, whoever is signed in.
THEOREM ClickersAct == Scenes => []ActionsAreTheClickers
<1>1. (scene = "list" => ListInv /\ ListTyped) => ActionsAreTheClickers
    BY DEF ListInv, ActionsAreTheClickers, List!ActionsAreTheClickers
<1>. QED
    BY <1>1, SpecList, PTL

\* No card is left disabled with nobody working on it.
THEOREM BusyCardsAreFreed == Scenes => []BusyCardIsWorkedOn
<1>1. (scene = "list" => ListInv /\ ListTyped) => BusyCardIsWorkedOn
    BY DEF ListInv, BusyCardIsWorkedOn, List!BusyCardIsWorkedOn, List!InStep
<1>. QED
    BY <1>1, SpecList, PTL

-----------------------------------------------------------------------------
(* TransferPage                                                             *)

IsSent(s) ==
    DOMAIN s = {"file", "ask", "became"} /\ s.became \in {"pending", "success", "refused"}
IsAsk(r) == DOMAIN r = {"by", "to_holder", "sale", "hash", "status", "tx"}

Shapes ==
    /\ DOMAIN sent = 1..Len(sent) /\ Len(sent) \in Nat
    /\ \A n \in DOMAIN sent : IsSent(sent[n])
    /\ DOMAIN requests = 1..Len(requests) /\ Len(requests) \in Nat
    /\ \A i \in DOMAIN requests : IsAsk(requests[i])
    /\ DOMAIN task = {"at", "file", "ask", "tx"}

\* What the submission knows at each of its awaits: from when the route matched an ask,
\* that it asks for this very transfer; from when it was sent, which transaction it is;
\* and once it is answered, what became of it.
TaskKnows ==
    /\ task.at \in {"sign", "wait", "record"} /\ task.ask # 0 =>
          /\ task.ask \in DOMAIN requests
          /\ requests[task.ask].by = task.file.to /\ requests[task.ask].sale = task.file.sale
    /\ task.at \in {"wait", "record", "show"} =>
          /\ task.tx \in DOMAIN sent
          /\ sent[task.tx].file = task.file /\ sent[task.tx].ask = task.ask
    /\ task.at = "record" => sent[task.tx].became = "success" /\ task.ask # 0
    /\ task.at = "show" => sent[task.tx].became # "pending"

OutcomeHappened ==
    outcome # None =>
        /\ outcome.tx \in DOMAIN sent
        /\ outcome.file = sent[outcome.tx].file
        /\ sent[outcome.tx].became = IF outcome.kind = "confirmed" THEN "success" ELSE "refused"

AcceptedHappened ==
    \A i \in DOMAIN requests :
        requests[i].status = "accepted" =>
            /\ requests[i].tx \in DOMAIN sent
            /\ LET t == sent[requests[i].tx] IN
               /\ t.became = "success" /\ t.ask = i
               /\ t.file.to = requests[i].by /\ t.file.sale = requests[i].sale

TransferInv == Shapes /\ TaskKnows /\ OutcomeHappened /\ AcceptedHappened

\* Transactions are only added, and only those still out change, into what became of
\* them; asks are only added, and only ever change their status.
LEMMA TransferStoreSteps ==
    ASSUME TransferInv, Shapes', UNCHANGED <<task, outcome>>,
           DOMAIN sent \subseteq DOMAIN sent',
           \A n \in DOMAIN sent :
              /\ sent'[n].file = sent[n].file /\ sent'[n].ask = sent[n].ask
              /\ sent[n].became # "pending" => sent'[n].became = sent[n].became
              /\ sent[n].became = "pending" =>
                     sent'[n].became \in {"pending", "success", "refused"},
           DOMAIN requests \subseteq DOMAIN requests',
           \A i \in DOMAIN requests :
              requests'[i].by = requests[i].by /\ requests'[i].sale = requests[i].sale,
           \A i \in DOMAIN requests' :
              requests'[i].status = "accepted" =>
                i \in DOMAIN requests /\ requests[i].status = "accepted"
                /\ requests'[i].tx = requests[i].tx
    PROVE  TransferInv'
<1>1. TaskKnows'
    BY DEF TransferInv, TaskKnows
<1>2. OutcomeHappened'
    BY DEF TransferInv, OutcomeHappened
<1>3. AcceptedHappened'
    <2>. SUFFICES ASSUME NEW i \in DOMAIN requests', requests'[i].status = "accepted"
                  PROVE  /\ requests'[i].tx \in DOMAIN sent'
                         /\ LET t == sent'[requests'[i].tx] IN
                            /\ t.became = "success" /\ t.ask = i
                            /\ t.file.to = requests'[i].by /\ t.file.sale = requests'[i].sale
        BY DEF AcceptedHappened
    <2>1. /\ i \in DOMAIN requests /\ requests[i].status = "accepted"
          /\ requests'[i].tx = requests[i].tx
        OBVIOUS
    <2>. QED
        BY <2>1 DEF TransferInv, AcceptedHappened
<1>. QED
    BY <1>1, <1>2, <1>3 DEF TransferInv

LEMMA TransferAsk ==
    ASSUME TransferInv, NEW by, NEW sale, NEW hash, Transferring!Ask(by, sale, hash)
    PROVE  TransferInv'
<1>1. PICK to_holder : /\ UNCHANGED <<task, outcome, sent>>
                       /\ requests' = Append(requests,
                            [by |-> by, to_holder |-> to_holder, sale |-> sale, hash |-> hash,
                             status |-> "open", tx |-> 0])
    BY DEF Transferring!Ask, Transferring!page, Transferring!chain
<1>2. /\ DOMAIN requests' = 1..(Len(requests) + 1) /\ Len(requests') = Len(requests) + 1
      /\ \A i \in DOMAIN requests : requests'[i] = requests[i]
      /\ requests'[Len(requests) + 1] =
            [by |-> by, to_holder |-> to_holder, sale |-> sale, hash |-> hash,
             status |-> "open", tx |-> 0]
    BY <1>1 DEF TransferInv, Shapes
<1>3. Shapes'
    <2>1. IsAsk(requests'[Len(requests) + 1])
        BY <1>2 DEF IsAsk
    <2>. QED
        BY <1>1, <1>2, <2>1 DEF TransferInv, Shapes
<1>4. \A i \in DOMAIN requests' : requests'[i].status = "accepted" => i \in DOMAIN requests
    BY <1>2 DEF TransferInv, Shapes
<1>. QED
    BY <1>1, <1>2, <1>3, <1>4, TransferStoreSteps DEF TransferInv, Shapes

LEMMA TransferClose ==
    ASSUME TransferInv, NEW i \in DOMAIN requests, Transferring!Close(i)
    PROVE  TransferInv'
<1>1. /\ UNCHANGED <<task, outcome, sent>>
      /\ requests' = [requests EXCEPT ![i] = [requests[i] EXCEPT !.status = "closed"]]
    BY DEF Transferring!Close, Transferring!page, Transferring!chain
<1>2. /\ DOMAIN requests' = DOMAIN requests /\ Len(requests') = Len(requests)
      /\ \A k \in DOMAIN requests \ {i} : requests'[k] = requests[k]
      /\ requests'[i] = [requests[i] EXCEPT !.status = "closed"]
    BY <1>1 DEF TransferInv, Shapes
<1>3. /\ requests'[i].status = "closed" /\ IsAsk(requests'[i])
      /\ requests'[i].by = requests[i].by /\ requests'[i].sale = requests[i].sale
    BY <1>2 DEF TransferInv, Shapes, IsAsk
<1>4. Shapes'
    BY <1>1, <1>2, <1>3 DEF TransferInv, Shapes
<1>. QED
    BY <1>1, <1>2, <1>3, <1>4, TransferStoreSteps DEF TransferInv, Shapes

LEMMA TransferSettle ==
    ASSUME TransferInv, NEW n \in DOMAIN sent, Transferring!Settle(n)
    PROVE  TransferInv'
<1>1. /\ UNCHANGED <<task, outcome, requests>> /\ sent[n].became = "pending"
      /\ \E became \in {"success", "refused"} :
            sent' = [sent EXCEPT ![n] = [sent[n] EXCEPT !.became = became]]
    BY DEF Transferring!Settle, Transferring!page, Transferring!store
<1>2. PICK became \in {"success", "refused"} :
            sent' = [sent EXCEPT ![n] = [sent[n] EXCEPT !.became = became]]
    BY <1>1
<1>3. /\ DOMAIN sent' = DOMAIN sent /\ Len(sent') = Len(sent)
      /\ \A k \in DOMAIN sent \ {n} : sent'[k] = sent[k]
      /\ sent'[n] = [sent[n] EXCEPT !.became = became]
    BY <1>2 DEF TransferInv, Shapes
<1>4. /\ sent'[n].became = became /\ IsSent(sent'[n])
      /\ sent'[n].file = sent[n].file /\ sent'[n].ask = sent[n].ask
    BY <1>3 DEF TransferInv, Shapes, IsSent
<1>5. Shapes'
    BY <1>1, <1>3, <1>4 DEF TransferInv, Shapes
<1>. QED
    BY <1>1, <1>3, <1>4, <1>5, TransferStoreSteps DEF TransferInv, Shapes

LEMMA TransferSend == ASSUME TransferInv, Transferring!Send PROVE TransferInv'
<1>1. PICK became \in {"pending", "refused"} :
        sent' = Append(sent, [file |-> task.file, ask |-> task.ask, became |-> became])
    BY DEF Transferring!Send
<1>2. /\ task.at = "sign" /\ task' = [task EXCEPT !.at = "wait", !.tx = Len(sent) + 1]
      /\ UNCHANGED <<outcome, requests>>
    BY DEF Transferring!Send, Transferring!store
<1>3. /\ DOMAIN sent' = 1..(Len(sent) + 1) /\ Len(sent') = Len(sent) + 1
      /\ \A n \in DOMAIN sent : sent'[n] = sent[n]
      /\ sent'[Len(sent) + 1] = [file |-> task.file, ask |-> task.ask, became |-> became]
    BY <1>1 DEF TransferInv, Shapes
<1>4. /\ task'.at = "wait" /\ task'.tx = Len(sent) + 1 /\ task'.file = task.file
      /\ task'.ask = task.ask /\ DOMAIN task' = DOMAIN task
    BY <1>2 DEF TransferInv, Shapes
<1>5. Shapes'
    <2>1. IsSent(sent'[Len(sent) + 1])
        BY <1>3 DEF IsSent
    <2>. QED
        BY <1>2, <1>3, <1>4, <2>1 DEF TransferInv, Shapes
<1>6. TaskKnows'
    BY <1>2, <1>3, <1>4 DEF TransferInv, TaskKnows, Shapes
<1>7. OutcomeHappened' /\ AcceptedHappened'
    BY <1>2, <1>3 DEF TransferInv, OutcomeHappened, AcceptedHappened, Shapes
<1>. QED
    BY <1>5, <1>6, <1>7 DEF TransferInv

LEMMA TransferRecord == ASSUME TransferInv, Transferring!Record PROVE TransferInv'
<1>. DEFINE i == task.ask
<1>1. /\ task.at = "record" /\ task' = [task EXCEPT !.at = "show"]
      /\ UNCHANGED <<outcome, sent>>
      /\ \/ requests' = requests
         \/ requests' = [requests EXCEPT ![i] =
                [[requests[i] EXCEPT !.status = "accepted"] EXCEPT !.tx = task.tx]]
    BY DEF Transferring!Record, Transferring!chain
<1>2. /\ task'.at = "show" /\ task'.tx = task.tx /\ task'.file = task.file
      /\ task'.ask = task.ask /\ DOMAIN task' = DOMAIN task
    BY <1>1 DEF TransferInv, Shapes
<1>3. /\ i \in DOMAIN requests /\ task.tx \in DOMAIN sent
      /\ requests[i].by = task.file.to /\ requests[i].sale = task.file.sale
      /\ sent[task.tx].file = task.file /\ sent[task.tx].ask = i
      /\ sent[task.tx].became = "success"
    BY <1>1 DEF TransferInv, TaskKnows
<1>4. OutcomeHappened' /\ TaskKnows'
    BY <1>1, <1>2, <1>3 DEF TransferInv, OutcomeHappened, TaskKnows
<1>5. CASE requests' = requests
    BY <1>1, <1>2, <1>4, <1>5 DEF TransferInv, Shapes, AcceptedHappened
<1>6. CASE requests' = [requests EXCEPT ![i] =
                [[requests[i] EXCEPT !.status = "accepted"] EXCEPT !.tx = task.tx]]
    <2>1. /\ DOMAIN requests' = DOMAIN requests /\ Len(requests') = Len(requests)
          /\ \A k \in DOMAIN requests \ {i} : requests'[k] = requests[k]
          /\ requests'[i] =
                [[requests[i] EXCEPT !.status = "accepted"] EXCEPT !.tx = task.tx]
        BY <1>3, <1>6 DEF TransferInv, Shapes
    <2>2. /\ requests'[i].tx = task.tx /\ IsAsk(requests'[i])
          /\ requests'[i].by = requests[i].by /\ requests'[i].sale = requests[i].sale
        <3>1. DOMAIN requests[i] = {"by", "to_holder", "sale", "hash", "status", "tx"}
            BY <1>3 DEF TransferInv, Shapes, IsAsk
        <3>. DEFINE accepted == [requests[i] EXCEPT !.status = "accepted"]
        <3>2. /\ DOMAIN accepted = DOMAIN requests[i]
              /\ accepted.by = requests[i].by /\ accepted.sale = requests[i].sale
            BY <3>1
        <3>. HIDE DEF accepted
        <3>3. requests'[i] = [accepted EXCEPT !.tx = task.tx]
            BY <2>1 DEF accepted
        <3>. QED
            BY <3>1, <3>2, <3>3 DEF IsAsk
    <2>3. Shapes'
        BY <1>1, <1>2, <2>1, <2>2 DEF TransferInv, Shapes
    <2>4. AcceptedHappened'
        <3>. SUFFICES ASSUME NEW k \in DOMAIN requests', requests'[k].status = "accepted"
                      PROVE  /\ requests'[k].tx \in DOMAIN sent
                             /\ LET t == sent[requests'[k].tx] IN
                                /\ t.became = "success" /\ t.ask = k
                                /\ t.file.to = requests'[k].by /\ t.file.sale = requests'[k].sale
            BY <1>1 DEF AcceptedHappened
        <3>1. CASE k = i
            BY <1>3, <2>2, <3>1
        <3>2. CASE k # i
            BY <2>1, <3>2 DEF TransferInv, AcceptedHappened
        <3>. QED
            BY <3>1, <3>2
    <2>. QED
        BY <1>4, <2>3, <2>4 DEF TransferInv
<1>. QED
    BY <1>1, <1>5, <1>6

LEMMA NextTransfer ==
    ASSUME TransferInv, [Transferring!Next]_(Transferring!vars)
    PROVE  TransferInv'
<1>. USE DEF Transferring!page, Transferring!box, Transferring!chain, Transferring!store
<1>1. ASSUME UNCHANGED <<sent, requests>>, Shapes', TaskKnows', OutcomeHappened'
      PROVE  TransferInv'
    BY <1>1 DEF TransferInv, AcceptedHappened
<1>2. ASSUME UNCHANGED <<sent, requests, task>>, outcome' \in {None, outcome} PROVE TransferInv'
    BY <1>1, <1>2 DEF TransferInv, Shapes, TaskKnows, OutcomeHappened
<1>3. ASSUME UNCHANGED <<sent, requests>>, outcome' \in {None, outcome},
             DOMAIN task' = {"at", "file", "ask", "tx"},
             task'.at \in {"none", "build", "refresh"}
      PROVE  TransferInv'
    BY <1>1, <1>3 DEF TransferInv, Shapes, TaskKnows, OutcomeHappened
<1>4. CASE UNCHANGED Transferring!vars
    BY <1>2, <1>4 DEF Transferring!vars
<1>5. ASSUME NEW by, NEW sale, NEW hash, Transferring!Ask(by, sale, hash) PROVE TransferInv'
    BY <1>5, TransferAsk
<1>6. ASSUME NEW i \in DOMAIN requests, Transferring!Close(i) PROVE TransferInv'
    BY <1>6, TransferClose
<1>7. ASSUME NEW i \in DOMAIN requests, Transferring!ConsentDies(i) PROVE TransferInv'
    BY <1>2, <1>7 DEF Transferring!ConsentDies
<1>8. CASE Transferring!TermEnds
    BY <1>2, <1>8 DEF Transferring!TermEnds
<1>9. ASSUME NEW f, Transferring!Upload(f) \/ Transferring!UploadRead(f) \/ Transferring!Paste(f)
      PROVE  TransferInv'
    BY <1>2, <1>9 DEF Transferring!Upload, Transferring!UploadRead, Transferring!Paste
<1>10. CASE Transferring!Submit
    <2>1. task' = [at |-> "build", file |-> file, ask |-> 0, tx |-> 0]
        BY <1>10 DEF Transferring!Submit, Transferring!Idle
    <2>. QED
        BY <1>3, <1>10, <2>1 DEF Transferring!Submit
<1>11. CASE Transferring!Build
    <2>1. PICK ask \in IF Transferring!Matching(task.file) = {} THEN {0}
                       ELSE Transferring!Matching(task.file) :
            task' = [task EXCEPT !.at = "sign", !.ask = ask]
        BY <1>11 DEF Transferring!Build, Transferring!Simulated
    <2>2. ask # 0 => /\ ask \in DOMAIN requests
                     /\ requests[ask].by = task.file.to /\ requests[ask].sale = task.file.sale
        BY DEF Transferring!Matching
    <2>3. /\ task'.at = "sign" /\ task'.ask = ask /\ task'.file = task.file
          /\ DOMAIN task' = DOMAIN task
        BY <2>1 DEF TransferInv, Shapes
    <2>4. UNCHANGED <<outcome, sent, requests>>
        BY <1>11 DEF Transferring!Build, Transferring!Simulated
    <2>. QED
        BY <1>1, <2>2, <2>3, <2>4 DEF TransferInv, Shapes, TaskKnows, OutcomeHappened
<1>12. CASE Transferring!Send
    BY <1>12, TransferSend
<1>13. CASE Transferring!Answered
    <2>1. /\ task.at = "wait" /\ sent[task.tx].became # "pending"
          /\ task' = [task EXCEPT !.at = IF sent[task.tx].became = "success" /\ task.ask # 0
                                         THEN "record" ELSE "show"]
          /\ UNCHANGED <<outcome, sent, requests>>
        BY <1>13 DEF Transferring!Answered, Transferring!Records
    <2>2. /\ task'.at = IF sent[task.tx].became = "success" /\ task.ask # 0
                        THEN "record" ELSE "show"
          /\ task'.file = task.file /\ task'.ask = task.ask /\ task'.tx = task.tx
          /\ DOMAIN task' = DOMAIN task
        BY <2>1 DEF TransferInv, Shapes
    <2>. QED
        BY <1>1, <2>1, <2>2 DEF TransferInv, Shapes, TaskKnows, OutcomeHappened
<1>14. CASE Transferring!Record
    BY <1>14, TransferRecord
<1>15. CASE Transferring!Show
    <2>. DEFINE kind == IF sent[task.tx].became = "success" THEN "confirmed"
                        ELSE "rejected-on-chain"
    <2>1. /\ task.at = "show" /\ task' = [task EXCEPT !.at = "refresh"]
          /\ outcome' = [file |-> task.file, tx |-> task.tx, kind |-> kind]
          /\ UNCHANGED <<sent, requests>>
        BY <1>15 DEF Transferring!Show, Transferring!Sent
    <2>2. task'.at = "refresh" /\ DOMAIN task' = DOMAIN task
        BY <2>1 DEF TransferInv, Shapes
    <2>3. /\ task.tx \in DOMAIN sent /\ sent[task.tx].file = task.file
          /\ sent[task.tx].became \in {"success", "refused"}
        BY <2>1 DEF TransferInv, TaskKnows, Shapes, IsSent
    <2>. QED
        BY <1>1, <2>1, <2>2, <2>3 DEF TransferInv, Shapes, TaskKnows, OutcomeHappened
<1>16. CASE Transferring!Refresh \/ Transferring!Throws
    <2>1. task' = [at |-> "none", file |-> None, ask |-> 0, tx |-> 0]
        BY <1>16 DEF Transferring!Refresh, Transferring!Throws, Transferring!Idle
    <2>2. UNCHANGED <<sent, requests>> /\ outcome' \in {None, outcome}
        BY <1>16 DEF Transferring!Refresh, Transferring!Throws
    <2>. QED
        BY <1>3, <2>1, <2>2
<1>17. ASSUME NEW n \in DOMAIN sent, Transferring!Settle(n) PROVE TransferInv'
    BY <1>17, TransferSettle
<1>. QED
    BY <1>4, <1>5, <1>6, <1>7, <1>8, <1>9, <1>10, <1>11, <1>12, <1>13, <1>14, <1>15, <1>16, <1>17
       DEF Transferring!Next

\* The page's own types: a submission under way is of a file, and a transaction or
\* an ask that is named is one there is.
TransferTyped ==
    /\ Transferring!TypeOK
    /\ task.at # "none" => task.file \in Files
    /\ \A n \in DOMAIN sent : sent[n].file \in Files

LEMMA FilesMoveAccounts ==
    ASSUME NEW f \in Files PROVE f.to \in Accounts
BY PagesAssumption DEF Transferring!File

LEMMA NextTransferTyped ==
    ASSUME TransferTyped, TransferInv, [Transferring!Next]_(Transferring!vars)
    PROVE  TransferTyped'
<1>. USE DEF Transferring!page, Transferring!box, Transferring!chain, Transferring!store
<1>0. /\ file \in Files \cup {None} /\ uploads \subseteq Files \cup {None}
      /\ task.file \in Files \cup {None}
      /\ task.at # "none" => task.file \in Files
      /\ task.ask \in 0..Len(requests) /\ task.tx \in 0..Len(sent)
      /\ title \in Accounts /\ tenant \in Accounts \cup {None}
      /\ \A n \in DOMAIN sent : sent[n].file \in Files /\ sent[n].ask \in 0..Len(requests)
      /\ \A i \in DOMAIN requests : requests[i].tx \in 0..Len(sent)
      /\ dead \subseteq DOMAIN requests
      /\ DOMAIN sent = 1..Len(sent) /\ Len(sent) \in Nat
      /\ DOMAIN requests = 1..Len(requests) /\ Len(requests) \in Nat
      /\ DOMAIN task = {"at", "file", "ask", "tx"}
    BY DEF TransferTyped, Transferring!TypeOK, TransferInv, Shapes
\* The screen alone
<1>1. ASSUME UNCHANGED <<title, tenant, sent, requests, dead>>,
             file' \in Files \cup {None}, uploads' \subseteq Files \cup {None},
             task'.file \in Files \cup {None},
             task'.at # "none" => task'.file \in Files,
             task'.ask \in 0..Len(requests), task'.tx \in 0..Len(sent)
      PROVE  TransferTyped'
    BY <1>0, <1>1 DEF TransferTyped, Transferring!TypeOK
<1>2. CASE UNCHANGED Transferring!vars
    BY <1>0, <1>1, <1>2 DEF Transferring!vars
<1>3. ASSUME NEW by, NEW sale, NEW hash, Transferring!Ask(by, sale, hash) PROVE TransferTyped'
    <2>1. PICK to_holder : /\ UNCHANGED <<file, uploads, task, outcome, title, tenant, sent, dead>>
                           /\ requests' = Append(requests,
                                [by |-> by, to_holder |-> to_holder, sale |-> sale, hash |-> hash,
                                 status |-> "open", tx |-> 0])
        BY <1>3 DEF Transferring!Ask
    <2>2. /\ DOMAIN requests' = 1..(Len(requests) + 1) /\ Len(requests') = Len(requests) + 1
          /\ \A i \in DOMAIN requests : requests'[i] = requests[i]
          /\ requests'[Len(requests) + 1].tx = 0
        BY <1>0, <2>1
    <2>3. 0..Len(requests) \subseteq 0..Len(requests')
        BY <1>0, <2>2
    <2>4. \A i \in DOMAIN requests' : requests'[i].tx \in 0..Len(sent)
        BY <1>0, <2>2
    <2>. QED
        BY <1>0, <2>1, <2>2, <2>3, <2>4 DEF TransferTyped, Transferring!TypeOK
<1>4. ASSUME NEW i \in DOMAIN requests, Transferring!Close(i) PROVE TransferTyped'
    <2>1. /\ UNCHANGED <<file, uploads, task, outcome, title, tenant, sent, dead>>
          /\ requests' = [requests EXCEPT ![i] = [requests[i] EXCEPT !.status = "closed"]]
        BY <1>4 DEF Transferring!Close
    <2>2. /\ DOMAIN requests' = DOMAIN requests /\ Len(requests') = Len(requests)
          /\ \A k \in DOMAIN requests \ {i} : requests'[k] = requests[k]
          /\ requests'[i] = [requests[i] EXCEPT !.status = "closed"]
        BY <1>0, <2>1
    <2>3. requests'[i].tx = requests[i].tx
        BY <2>2 DEF TransferInv, Shapes, IsAsk
    <2>. QED
        BY <1>0, <2>1, <2>2, <2>3 DEF TransferTyped, Transferring!TypeOK
<1>5. ASSUME NEW i \in DOMAIN requests, Transferring!ConsentDies(i) PROVE TransferTyped'
    BY <1>0, <1>5 DEF Transferring!ConsentDies, TransferTyped, Transferring!TypeOK
<1>6. CASE Transferring!TermEnds
    BY <1>0, <1>6 DEF Transferring!TermEnds, TransferTyped, Transferring!TypeOK
<1>7. ASSUME NEW f \in Files \cup {None},
             Transferring!Upload(f) \/ Transferring!UploadRead(f) \/ Transferring!Paste(f)
      PROVE  TransferTyped'
    BY <1>0, <1>1, <1>7 DEF Transferring!Upload, Transferring!UploadRead, Transferring!Paste
<1>8. CASE Transferring!Submit
    <2>1. task' = [at |-> "build", file |-> file, ask |-> 0, tx |-> 0] /\ file # None
        BY <1>8 DEF Transferring!Submit, Transferring!Idle
    <2>. QED
        BY <1>0, <1>1, <1>8, <2>1 DEF Transferring!Submit
<1>9. CASE Transferring!Build
    <2>1. PICK ask \in IF Transferring!Matching(task.file) = {} THEN {0}
                       ELSE Transferring!Matching(task.file) :
            task' = [task EXCEPT !.at = "sign", !.ask = ask]
        BY <1>9 DEF Transferring!Build, Transferring!Simulated
    <2>2. ask \in 0..Len(requests)
        BY <1>0 DEF Transferring!Matching
    <2>3. task'.ask = ask /\ task'.file = task.file /\ task'.tx = task.tx
        BY <1>0, <2>1
    <2>4. task.at = "build" /\ UNCHANGED <<file, uploads, title, tenant, sent, requests, dead>>
        BY <1>9 DEF Transferring!Build, Transferring!Simulated
    <2>. QED
        BY <1>0, <1>1, <2>2, <2>3, <2>4
<1>10. CASE Transferring!Send
    <2>1. PICK became \in {"pending", "refused"} :
            sent' = Append(sent, [file |-> task.file, ask |-> task.ask, became |-> became])
        BY <1>10 DEF Transferring!Send
    <2>2. /\ task.at = "sign" /\ task' = [task EXCEPT !.at = "wait", !.tx = Len(sent) + 1]
          /\ UNCHANGED <<file, uploads, title, tenant, requests, dead>>
        BY <1>10 DEF Transferring!Send
    <2>3. /\ DOMAIN sent' = 1..(Len(sent) + 1) /\ Len(sent') = Len(sent) + 1
          /\ \A n \in DOMAIN sent : sent'[n] = sent[n]
          /\ sent'[Len(sent) + 1].file = task.file /\ sent'[Len(sent) + 1].ask = task.ask
        BY <1>0, <2>1
    <2>4. task'.tx = Len(sent) + 1 /\ task'.file = task.file /\ task'.ask = task.ask
        BY <1>0, <2>2
    <2>5. 0..Len(sent) \subseteq 0..Len(sent') /\ Len(sent) + 1 \in 0..Len(sent')
        BY <1>0, <2>3
    <2>6. \A n \in DOMAIN sent' : sent'[n].file \in Files /\ sent'[n].ask \in 0..Len(requests)
        BY <1>0, <2>2, <2>3
    <2>. QED
        BY <1>0, <2>2, <2>3, <2>4, <2>5, <2>6 DEF TransferTyped, Transferring!TypeOK
<1>11. ASSUME UNCHANGED <<file, uploads, title, tenant, sent, requests, dead>>,
              NEW place, task' = [task EXCEPT !.at = place], task.at # "none"
       PROVE  TransferTyped'
    <2>1. task'.file = task.file /\ task'.ask = task.ask /\ task'.tx = task.tx
        BY <1>0, <1>11
    <2>. QED
        BY <1>0, <1>1, <1>11, <2>1
<1>12. CASE Transferring!Answered
    BY <1>11, <1>12 DEF Transferring!Answered
<1>13. CASE Transferring!Show
    BY <1>11, <1>13 DEF Transferring!Show
<1>14. CASE Transferring!Record
    <2>. DEFINE i == task.ask
    <2>1. /\ task.at = "record" /\ task' = [task EXCEPT !.at = "show"]
          /\ UNCHANGED <<file, uploads, title, tenant, sent, dead>>
          /\ \/ requests' = requests
             \/ requests' = [requests EXCEPT ![i] =
                    [[requests[i] EXCEPT !.status = "accepted"] EXCEPT !.tx = task.tx]]
        BY <1>14 DEF Transferring!Record
    <2>2. CASE requests' = requests
        BY <1>11, <2>1, <2>2
    <2>3. CASE requests' = [requests EXCEPT ![i] =
                    [[requests[i] EXCEPT !.status = "accepted"] EXCEPT !.tx = task.tx]]
        <3>1. i \in DOMAIN requests
            BY <2>1 DEF TransferInv, TaskKnows
        <3>2. /\ DOMAIN requests' = DOMAIN requests /\ Len(requests') = Len(requests)
              /\ \A k \in DOMAIN requests \ {i} : requests'[k] = requests[k]
              /\ requests'[i] =
                    [[requests[i] EXCEPT !.status = "accepted"] EXCEPT !.tx = task.tx]
            BY <1>0, <2>3, <3>1
        <3>3. requests'[i].tx = task.tx
            <4>1. DOMAIN [requests[i] EXCEPT !.status = "accepted"] =
                    {"by", "to_holder", "sale", "hash", "status", "tx"}
                BY <3>1 DEF TransferInv, Shapes, IsAsk
            <4>. QED
                BY <3>2, <4>1
        <3>4. task'.file = task.file /\ task'.ask = task.ask /\ task'.tx = task.tx
            BY <1>0, <2>1
        <3>5. \A k \in DOMAIN requests' : requests'[k].tx \in 0..Len(sent)
            BY <1>0, <3>2, <3>3
        <3>. QED
            BY <1>0, <2>1, <3>2, <3>4, <3>5 DEF TransferTyped, Transferring!TypeOK
    <2>. QED
        BY <2>1, <2>2, <2>3
<1>15. CASE Transferring!Refresh \/ Transferring!Throws
    <2>1. /\ task' = [at |-> "none", file |-> None, ask |-> 0, tx |-> 0]
          /\ file' \in {file, None} /\ uploads' \in {uploads, {}}
          /\ UNCHANGED <<title, tenant, sent, requests, dead>>
        BY <1>15 DEF Transferring!Refresh, Transferring!Throws, Transferring!Idle
    <2>. QED
        BY <1>0, <1>1, <2>1
<1>16. ASSUME NEW n \in DOMAIN sent, Transferring!Settle(n) PROVE TransferTyped'
    <2>1. /\ UNCHANGED <<file, uploads, task, requests, dead>>
          /\ title' \in {title, sent[n].file.to} /\ tenant' \in {tenant, sent[n].file.to}
          /\ \E became \in {"success", "refused"} :
                sent' = [sent EXCEPT ![n] = [sent[n] EXCEPT !.became = became]]
        BY <1>16 DEF Transferring!Settle
    <2>2. PICK became \in {"success", "refused"} :
                sent' = [sent EXCEPT ![n] = [sent[n] EXCEPT !.became = became]]
        BY <2>1
    <2>3. /\ DOMAIN sent' = DOMAIN sent /\ Len(sent') = Len(sent)
          /\ \A k \in DOMAIN sent \ {n} : sent'[k] = sent[k]
          /\ sent'[n] = [sent[n] EXCEPT !.became = became]
        BY <1>0, <2>2
    <2>4. sent'[n].file = sent[n].file /\ sent'[n].ask = sent[n].ask
        BY <2>3 DEF TransferInv, Shapes, IsSent
    <2>5. title' \in Accounts /\ tenant' \in Accounts \cup {None}
        BY <1>0, <2>1, FilesMoveAccounts
    <2>. QED
        BY <1>0, <2>1, <2>3, <2>4, <2>5 DEF TransferTyped, Transferring!TypeOK
<1>. QED
    BY <1>2, <1>3, <1>4, <1>5, <1>6, <1>7, <1>8, <1>9, <1>10, <1>12, <1>13, <1>14, <1>15, <1>16
       DEF Transferring!Next

LEMMA SpecTransfer == Scenes => [](scene = "transfer" => TransferInv /\ TransferTyped)
<1>1. Transferring!Init => TransferInv /\ TransferTyped
    <2>. SUFFICES ASSUME Transferring!Init PROVE TransferInv /\ TransferTyped
        OBVIOUS
    <2>1. TransferInv
        BY DEF Transferring!Init, Transferring!Idle, TransferInv, Shapes, TaskKnows,
               OutcomeHappened, AcceptedHappened
    <2>2. TransferTyped
        BY PagesAssumption
        DEF Transferring!Init, Transferring!Idle, TransferTyped, Transferring!TypeOK
    <2>. QED
        BY <2>1, <2>2
<1>2. ScenesInit => (scene = "transfer" => TransferInv /\ TransferTyped)
    BY <1>1 DEF ScenesInit
<1>3. (scene = "transfer" => TransferInv /\ TransferTyped) /\ [ScenesNext]_all
         => (scene = "transfer" => TransferInv /\ TransferTyped)'
    BY NextTransfer, NextTransferTyped, SceneMoves
<1>. QED
    BY <1>2, <1>3, PTL DEF Scenes

\* What is announced is what became of the transaction announced.
THEOREM OutcomesAreTrue == Scenes => []OutcomeIsOfItsTransaction
<1>1. (scene = "transfer" => TransferInv /\ TransferTyped) => OutcomeIsOfItsTransaction
    BY DEF TransferInv, OutcomeHappened, OutcomeIsOfItsTransaction,
       Transferring!OutcomeIsOfItsTransaction
<1>. QED
    BY <1>1, SpecTransfer, PTL

\* An accepted ask names the transaction that granted it.
THEOREM AcceptancesNameTheirTransfer == Scenes => []AcceptedByItsTransaction
<1>1. (scene = "transfer" => TransferInv /\ TransferTyped) => AcceptedByItsTransaction
    BY DEF TransferInv, AcceptedHappened, AcceptedByItsTransaction,
       Transferring!AcceptedByItsTransaction
<1>. QED
    BY <1>1, SpecTransfer, PTL
-----------------------------------------------------------------------------
(* EventPages                                                               *)

\* Of the numbers in a set there is a least one.
LEMMA LeastNatural ==
    ASSUME NEW S \in SUBSET Nat, S # {}
    PROVE  \E m \in S : \A k \in S : m <= k
<1>1. \E m \in S : \A k \in S : <<k, m>> \notin OpToRel(<, Nat)
    BY WFMin, NatLessThanWellFounded, Zenon
<1>2. PICK m \in S : \A k \in S : <<k, m>> \notin OpToRel(<, Nat)
    BY <1>1
<1>3. ASSUME NEW k \in S PROVE m <= k
    <2>1. k \in Nat /\ m \in Nat
        OBVIOUS
    <2>2. ~(k < m)
        BY <1>2, <2>1, Zenon DEF OpToRel
    <2>. QED
        BY <2>1, <2>2
<1>. QED
    BY <1>3

\* The log is in the order of its ledgers, none of which is still to close.
Chained ==
    /\ head \in Nat /\ head >= 1
    /\ log \in Seq([ledger : Nat, of : {"mine", "other"}])
    /\ \A i \in 1..Len(log) : log[i].ledger \in Nat /\ log[i].ledger <= head
    /\ \A i, j \in 1..Len(log) : i <= j => log[i].ledger <= log[j].ledger

\* The events up to the end of a ledger are the first so many of the log.
LEMMA UpToProperty ==
    ASSUME Chained, NEW l \in Int
    PROVE  /\ Events!UpTo(l) \in 0..Len(log)
           /\ \A i \in 1..Len(log) : log[i].ledger <= l <=> i <= Events!UpTo(l)
<1>. DEFINE Upper == {k \in 0..Len(log) : \A i \in 1..Len(log) : log[i].ledger <= l => i <= k}
<1>1. Upper \in SUBSET Nat /\ Len(log) \in Upper /\ Len(log) \in Nat
    BY DEF Chained
<1>2. PICK m \in Upper : \A k \in Upper : m <= k
    BY <1>1, LeastNatural
<1>3. ASSUME NEW i \in 1..Len(log), i <= m PROVE log[i].ledger <= l
    <2>0. Upper \subseteq 0..Len(log) /\ m \in 0..Len(log) /\ Len(log) \in Nat
        BY <1>1, <1>2
    <2>1. m \in 1..Len(log) /\ m - 1 \in 0..Len(log) /\ m - 1 \notin Upper
        <3>1. m >= 1 /\ m - 1 \in 0..Len(log) /\ ~(m <= m - 1)
            BY <1>3, <2>0
        <3>2. m - 1 \notin Upper
            BY <1>2, <3>1, Zenon
        <3>. QED
            BY <2>0, <3>1, <3>2
    <2>2. PICK j \in 1..Len(log) : log[j].ledger <= l /\ ~(j <= m - 1)
        BY <2>1
    <2>3. j = m
        BY <2>0, <2>2
    <2>4. log[i].ledger <= log[m].ledger /\ log[m].ledger <= l
        BY <1>3, <2>1, <2>2, <2>3 DEF Chained
    <2>5. log[i].ledger \in Nat /\ log[m].ledger \in Nat
        BY <2>1 DEF Chained
    <2>. QED
        BY <2>4, <2>5
<1>4. m \in 0..Len(log) /\ \A i \in 1..Len(log) : log[i].ledger <= l <=> i <= m
    BY <1>2, <1>3
<1>. QED
    BY <1>4 DEF Events!UpTo

\* What an attempt has found, once it has read a page, is what the log holds from its
\* start to where its cursor is, without a gap; and what follows in the cursor's ledger
\* is there only if a page was full.
First == past - Len(found)
Found ==
    /\ past \in 0..Len(log) /\ Len(found) <= past
    /\ \A n \in 1..Len(found) : found[n] = First + n
    /\ \A i \in 1..Len(log) :
          /\ log[i].ledger < start <=> i <= First
          /\ log[i].ledger < scanned => i <= past
          /\ i <= past => log[i].ledger <= scanned
          /\ log[i].ledger = scanned => i <= past \/ Len(found) >= Limit

\* Where an attempt is, and why it ended.
EventsInv ==
    /\ Chained /\ Events!TypeOK
    /\ stage = "latest" => found = << >> /\ pages = 0 /\ tries = 0
    /\ stage = "reading" => pages < MaxPages /\ tries <= Restarts
    /\ stage \in {"reading", "listed"} =>
         /\ start >= 1 /\ start <= scanned + 1
         /\ pages = 0 => found = << >> /\ scanned = start - 1
         /\ pages > 0 => start <= head /\ scanned <= head /\ Found
    /\ stage = "listed" => pages > 0 /\ scanned <= seen /\ (scanned < seen => pages = MaxPages)

\* A ledger that closes adds to the end of the log only.
LEMMA EventsClose == ASSUME EventsInv, Events!Close PROVE EventsInv'
<1>. DEFINE old == Len(log)
<1>1. PICK n \in 0..(MaxEvents - Len(log)) : \E of \in [1..n -> {"mine", "other"}] :
          log' = log \o [i \in 1..n |-> [ledger |-> head', of |-> of[i]]]
    BY DEF Events!Close
<1>2. PICK of \in [1..n -> {"mine", "other"}] :
          log' = log \o [i \in 1..n |-> [ledger |-> head', of |-> of[i]]]
    BY <1>1
<1>. DEFINE closed == [i \in 1..n |-> [ledger |-> head', of |-> of[i]]]
<1>3. /\ head' = head + 1 /\ head \in Nat /\ head' \in Nat
      /\ UNCHANGED <<stage, start, scanned, past, found, pages, tries, seen>>
    BY DEF Events!Close, Events!progress, Events!cursor, EventsInv, Chained
<1>4. n \in Nat /\ old \in Nat /\ log \in Seq([ledger : Nat, of : {"mine", "other"}])
    BY <1>1, NumbersAssumption DEF EventsInv, Chained
<1>5. closed \in Seq([ledger : Nat, of : {"mine", "other"}]) /\ Len(closed) = n
    BY <1>3, <1>4
<1>6. /\ log' \in Seq([ledger : Nat, of : {"mine", "other"}]) /\ Len(log') = old + n
      /\ \A i \in 1..old : log'[i] = log[i]
      /\ \A i \in (old + 1)..(old + n) : log'[i].ledger = head + 1
    <2>1. /\ log' \in Seq([ledger : Nat, of : {"mine", "other"}]) /\ Len(log') = old + n
          /\ \A i \in 1..old : log'[i] = log[i]
          /\ \A i \in (old + 1)..(old + n) : log'[i] = closed[i - old]
        BY <1>2, <1>4, <1>5, ConcatProperties
    <2>2. ASSUME NEW i \in (old + 1)..(old + n) PROVE closed[i - old].ledger = head + 1
        <3>1. i - old \in 1..n
            BY <1>4
        <3>. QED
            BY <1>3, <3>1
    <2>. QED
        BY <2>1, <2>2
<1>. HIDE DEF closed, old
<1>7. ASSUME NEW i \in 1..Len(log')
      PROVE  \/ i \in 1..old /\ log'[i].ledger = log[i].ledger /\ log[i].ledger \in Nat
                /\ log[i].ledger <= head
             \/ i > old /\ log'[i].ledger = head + 1
    <2>1. i \in 1..old \/ i \in (old + 1)..(old + n)
        BY <1>4, <1>6
    <2>2. ASSUME i \in 1..old
          PROVE  /\ log'[i].ledger = log[i].ledger /\ log[i].ledger \in Nat
                 /\ log[i].ledger <= head
        BY <1>4, <1>6, <2>2 DEF EventsInv, Chained, old
    <2>. QED
        BY <1>4, <1>6, <2>1, <2>2
<1>8. Chained'
    <2>1. ASSUME NEW i \in 1..Len(log'), NEW j \in 1..Len(log'), i <= j
          PROVE  log'[i].ledger <= log'[j].ledger
        <3>1. CASE j \in 1..old
            <4>1. i \in 1..old /\ log[i].ledger <= log[j].ledger
                BY <1>4, <2>1, <3>1 DEF EventsInv, Chained, old
            <4>. QED
                BY <1>4, <1>6, <3>1, <4>1
        <3>2. CASE j > old /\ log'[j].ledger = head + 1
            BY <1>3, <1>7, <3>2
        <3>. QED
            BY <1>7, <3>1, <3>2
    <2>2. ASSUME NEW i \in 1..Len(log') PROVE log'[i].ledger \in Nat /\ log'[i].ledger <= head'
        BY <1>3, <1>7
    <2>. QED
        BY <1>3, <1>6, <2>1, <2>2 DEF EventsInv, Chained
<1>9. Events!TypeOK'
    <2>1. found \in Seq(1..old) /\ 1..old \subseteq 1..Len(log')
        BY <1>4, <1>6 DEF EventsInv, Events!TypeOK, old
    <2>2. found' \in Seq(1..Len(log'))
        BY <1>3, <2>1, SeqMonotonic
    <2>3. past' \in 0..Len(log') /\ seen' \in 0..head'
        <3>1. past \in 0..old /\ seen \in 0..head
            BY DEF EventsInv, Events!TypeOK, old
        <3>2. old <= Len(log') /\ Len(log') \in Nat /\ head <= head'
            BY <1>3, <1>4, <1>6
        <3>. QED
            BY <1>3, <1>4, <3>1, <3>2
    <2>. QED
        BY <1>3, <2>2, <2>3 DEF EventsInv, Events!TypeOK
<1>10. ASSUME start \in Nat, scanned \in Nat, start <= head, scanned <= head, Found PROVE Found'
    <2>1. past \in Nat /\ First \in Int /\ Len(found) \in Nat /\ First' = First
          /\ past <= old /\ First <= past
        BY <1>3, <1>4, <1>10 DEF Found, First, EventsInv, Events!TypeOK, old
    <2>2. ASSUME NEW i \in 1..Len(log')
          PROVE  /\ log'[i].ledger < start <=> i <= First
                 /\ log'[i].ledger < scanned => i <= past
                 /\ i <= past => log'[i].ledger <= scanned
                 /\ log'[i].ledger = scanned => i <= past \/ Len(found) >= Limit
        <3>1. CASE i \in 1..old /\ log'[i].ledger = log[i].ledger
            BY <1>10, <3>1 DEF Found, old
        <3>2. CASE i > old /\ log'[i].ledger = head + 1
            BY <1>3, <1>4, <1>10, <2>1, <3>2
        <3>. QED
            BY <1>7, <3>1, <3>2
    <2>3. past' \in 0..Len(log') /\ Len(found') <= past'
        BY <1>3, <1>4, <1>6, <1>10, <2>1 DEF Found, old
    <2>. QED
        BY <1>3, <1>10, <2>1, <2>2, <2>3 DEF Found
<1>. QED
    BY <1>3, <1>8, <1>9, <1>10 DEF EventsInv, Events!TypeOK

LEMMA EventsGetLatest == ASSUME EventsInv, Events!GetLatest PROVE EventsInv'
<1>1. /\ stage = "latest" /\ stage' = "reading" /\ scanned' = start' - 1
      /\ start' = Events!Larger(1, Events!Before(head, Reach))
      /\ UNCHANGED <<head, log, past, found, pages, tries, seen>>
      /\ found = << >> /\ pages = 0 /\ tries = 0
    BY DEF Events!GetLatest, Events!chain, EventsInv
<1>2. start' \in Nat /\ start' >= 1
    <2>1. head \in Nat /\ Reach \in Nat
        BY NumbersAssumption DEF EventsInv, Chained
    <2>. QED
        BY <1>1, <2>1 DEF Events!Larger, Events!Before
<1>3. Chained' /\ Events!TypeOK'
    BY <1>1, <1>2 DEF EventsInv, Chained, Events!TypeOK
<1>. QED
    BY <1>1, <1>2, <1>3, NumbersAssumption DEF EventsInv

\* A page goes on where the one before ended, or begins where the attempt starts.
LEMMA EventsGetEvents == ASSUME EventsInv, Events!GetEvents PROVE EventsInv'
<1>0. PICK from, to, came, added, reach, end, page :
          /\ from = (IF pages = 0 THEN Events!UpTo(start - 1) ELSE past)
          /\ to = past' /\ came = scanned' /\ added = to - from
          /\ reach = (IF scanned + Span <= head THEN scanned + Span ELSE head)
          /\ end = Events!UpTo(reach)
          /\ page = [n \in 1..added |-> from + n]
    OBVIOUS
<1>1. /\ stage = "reading" /\ scanned < head /\ past' = to /\ scanned' = came
      /\ to = (IF end >= from + Limit THEN from + Limit ELSE end)
      /\ came = (IF end >= from + Limit THEN log[from + Limit].ledger ELSE reach)
      /\ found' = found \o page /\ seen' = head /\ pages' = pages + 1
      /\ stage' = (IF came < head /\ pages' < MaxPages THEN "reading" ELSE "listed")
      /\ UNCHANGED <<head, log, start, tries>>
    BY <1>0, Zenon DEF Events!GetEvents, Events!chain
<1>2. /\ scanned \in Nat /\ head \in Nat /\ start \in Nat /\ pages \in Nat /\ Len(log) \in Nat
      /\ start >= 1 /\ start <= scanned + 1 /\ pages < MaxPages
      /\ pages = 0 => found = << >> /\ scanned = start - 1
      /\ pages > 0 => start <= head /\ Found
      /\ found \in Seq(1..Len(log)) /\ Chained
      /\ Limit \in Nat /\ Limit >= 1 /\ MaxPages \in Nat /\ Span \in Nat
    <2>1. Len(log) \in Nat /\ head \in Nat /\ Chained
        BY DEF EventsInv, Chained
    <2>2. /\ scanned \in Nat /\ start \in Nat /\ pages \in Nat /\ found \in Seq(1..Len(log))
          /\ MaxPages \in Nat
        BY NumbersAssumption DEF EventsInv, Events!TypeOK
    <2>3. Limit \in Nat /\ Limit >= 1 /\ Span \in Nat
        BY NumbersAssumption
    <2>4. /\ start >= 1 /\ start <= scanned + 1 /\ pages < MaxPages
          /\ pages = 0 => found = << >> /\ scanned = start - 1
          /\ pages > 0 => start <= head /\ Found
        BY <1>1 DEF EventsInv
    <2>. QED
        BY <2>1, <2>2, <2>3, <2>4
<1>3. reach \in Nat /\ scanned <= reach /\ reach <= head /\ start <= head
    <2>1. scanned + Span \in Nat /\ scanned <= scanned + Span
        BY <1>2
    <2>2. start <= head
        BY <1>1, <1>2
    <2>. QED
        BY <1>0, <1>1, <1>2, <2>1, <2>2
\* The place it goes on from: what is before it was found already, or is too early.
<1>4. /\ from \in 0..Len(log) /\ Len(found) \in Nat /\ Len(found) <= from
      /\ \A n \in 1..Len(found) : found[n] = (from - Len(found)) + n
      /\ \A i \in 1..Len(log) : /\ log[i].ledger < start <=> i <= from - Len(found)
                                /\ i <= from => log[i].ledger <= reach
    <2>1. CASE pages = 0
        <3>1. /\ Events!UpTo(start - 1) \in 0..Len(log)
              /\ \A i \in 1..Len(log) : log[i].ledger <= start - 1 <=> i <= Events!UpTo(start - 1)
            <4>1. start - 1 \in Int /\ Chained
                BY <1>2
            <4>. QED
                BY <4>1, UpToProperty
        <3>2. from = Events!UpTo(start - 1) /\ found = << >> /\ Len(found) = 0
            BY <1>0, <1>2, <2>1
        <3>3. \A i \in 1..Len(log) : log[i].ledger \in Nat
            BY <1>2 DEF Chained
        <3>4. from \in Int /\ from - 0 = from
            BY <3>1, <3>2
        <3>5. ASSUME NEW i \in 1..Len(log)
              PROVE  /\ log[i].ledger < start <=> i <= from
                     /\ i <= from => log[i].ledger <= reach
            BY <1>2, <1>3, <2>1, <3>1, <3>2, <3>3
        <3>. QED
            BY <3>1, <3>2, <3>4, <3>5
    <2>2. CASE pages > 0
        <3>1. from = past /\ Found /\ Len(found) \in Nat
            BY <1>0, <1>2, <2>2
        <3>2. \A i \in 1..Len(log) : log[i].ledger \in Nat
            BY <1>2 DEF Chained
        <3>. QED
            BY <1>2, <1>3, <3>1, <3>2 DEF Found, First
    <2>. QED
        BY <1>2, <2>1, <2>2
<1>5. /\ end \in 0..Len(log)
      /\ \A i \in 1..Len(log) : log[i].ledger <= reach <=> i <= end
    <2>1. Chained /\ reach \in Int
        BY <1>2, <1>3
    <2>. QED
        BY <1>0, <2>1, UpToProperty
<1>6. from <= end
    <2>1. Len(log) \in Nat /\ from \in 0..Len(log) /\ end \in 0..Len(log)
        BY <1>2, <1>4, <1>5
    <2>2. CASE from = 0
        BY <2>1, <2>2
    <2>3. CASE from # 0
        <3>1. from \in 1..Len(log) /\ from <= from
            BY <2>1, <2>3
        <3>2. log[from].ledger <= reach
            BY <1>4, <3>1, Zenon
        <3>. QED
            BY <1>5, <3>1, <3>2, Zenon
    <2>. QED
        BY <2>2, <2>3
\* Where it comes to
<1>7. /\ to \in 0..Len(log) /\ from <= to /\ came \in Nat
      /\ start <= came + 1 /\ came <= head
      /\ \A i \in 1..Len(log) :
            /\ log[i].ledger < came => i <= to
            /\ i <= to => log[i].ledger <= came
            /\ log[i].ledger = came => i <= to \/ added >= Limit
    <2>0. \A i \in 1..Len(log) : log[i].ledger \in Nat
        BY <1>2 DEF Chained
    <2>1. CASE end >= from + Limit
        <3>1. /\ to = from + Limit /\ came = log[to].ledger
              /\ to \in 1..Len(log) /\ to <= end
            BY <1>1, <1>2, <1>4, <1>5, <2>1
        <3>2. came <= reach /\ came \in Nat
            BY <1>5, <2>0, <3>1
        <3>3. ~(log[to].ledger < start)
            BY <1>2, <1>4, <3>1
        <3>4. ASSUME NEW i \in 1..Len(log)
              PROVE  /\ log[i].ledger < came => i <= to
                     /\ i <= to => log[i].ledger <= came
            <4>1. /\ i <= to => log[i].ledger <= log[to].ledger
                  /\ to <= i => log[to].ledger <= log[i].ledger
                BY <1>2, <3>1 DEF Chained
            <4>2. i \in Nat /\ to \in Nat /\ log[i].ledger \in Nat
                BY <2>0, <3>1
            <4>. QED
                BY <3>1, <3>2, <4>1, <4>2
        <3>5. added = Limit /\ from <= to /\ to \in 0..Len(log)
            <4>1. from \in Nat /\ Limit \in Nat /\ Len(log) \in Nat
                BY <1>2, <1>4
            <4>2. to = from + Limit /\ added = to - from /\ to \in 1..Len(log)
                BY <1>0, <3>1
            <4>. QED
                BY <4>1, <4>2
        <3>6. start <= came + 1 /\ came <= head
            <4>1. came = log[to].ledger
                BY <3>1
            <4>2. start <= came
                BY <1>2, <3>2, <3>3, <4>1
            <4>. QED
                BY <1>2, <1>3, <3>2, <4>2
        <3>7. ASSUME NEW i \in 1..Len(log)
              PROVE  log[i].ledger = came => i <= to \/ added >= Limit
            BY <1>2, <3>5
        <3>. QED
            BY <3>2, <3>4, <3>5, <3>6, <3>7
    <2>2. CASE ~(end >= from + Limit)
        <3>1. to = end /\ came = reach
            BY <1>1, <2>2
        <3>2. start <= reach + 1
            BY <1>2, <1>3
        <3>3. ASSUME NEW i \in 1..Len(log)
              PROVE  /\ log[i].ledger < reach => i <= end
                     /\ i <= end => log[i].ledger <= reach
                     /\ log[i].ledger = reach => i <= end
            BY <1>3, <1>5, <2>0
        <3>. QED
            BY <1>3, <1>5, <1>6, <3>1, <3>2, <3>3
    <2>. QED
        BY <2>1, <2>2
<1>8. added \in Nat /\ to \in Nat /\ from \in Nat /\ to = from + added
    <2>1. Len(log) \in Nat /\ from \in 0..Len(log) /\ to \in 0..Len(log) /\ from <= to
        BY <1>2, <1>4, <1>7
    <2>. QED
        BY <1>0, <2>1
<1>9. /\ page \in Seq(1..Len(log)) /\ Len(page) = added
      /\ \A n \in 1..added : page[n] = from + n
    <2>1. \A n \in 1..added : from + n \in 1..Len(log)
        <3>1. Len(log) \in Nat /\ to <= Len(log)
            BY <1>2, <1>7
        <3>. QED
            BY <1>8, <3>1
    <2>2. page = [n \in 1..added |-> from + n]
        BY <1>0
    <2>3. DOMAIN page = 1..added /\ \A n \in 1..added : page[n] = from + n
        BY <2>2
    <2>4. page \in [1..added -> 1..Len(log)]
        BY <2>1, <2>2
    <2>5. page \in Seq(1..Len(log))
        BY <1>8, <2>4
    <2>6. Len(page) = added
        BY <1>8, <2>3, <2>5
    <2>. QED
        BY <2>3, <2>5, <2>6
<1>10. /\ found' \in Seq(1..Len(log)) /\ Len(found') = Len(found) + added
       /\ \A n \in 1..Len(found) : found'[n] = found[n]
       /\ \A n \in (Len(found) + 1)..(Len(found) + added) :
              found'[n] = page[n - Len(found)]
    <2>1. found \in Seq(1..Len(log)) /\ page \in Seq(1..Len(log)) /\ found' = found \o page
        BY <1>1, <1>2, <1>9
    <2>2. /\ found' \in Seq(1..Len(log)) /\ Len(found') = Len(found) + Len(page)
          /\ \A n \in 1..(Len(found) + Len(page)) :
                found'[n] = IF n <= Len(found) THEN found[n] ELSE page[n - Len(found)]
        BY <2>1, ConcatProperties
    <2>3. Len(found) \in Nat /\ added \in Nat /\ Len(page) = added
        BY <1>4, <1>8, <1>9
    <2>4. ASSUME NEW n \in (Len(found) + 1)..(Len(found) + added)
          PROVE  found'[n] = page[n - Len(found)]
        <3>1. n \in 1..(Len(found) + added) /\ ~(n <= Len(found))
            BY <2>3
        <3>. QED
            BY <2>2, <2>3, <3>1
    <2>5. ASSUME NEW n \in 1..Len(found) PROVE found'[n] = found[n]
        <3>1. n \in 1..(Len(found) + added) /\ n <= Len(found)
            BY <2>3
        <3>. QED
            BY <2>2, <2>3, <3>1
    <2>. QED
        BY <2>2, <2>3, <2>4, <2>5
<1>11. First' = from - Len(found)
    <2>1. First' = to - (Len(found) + added)
        BY <1>1, <1>10 DEF First
    <2>. QED
        BY <1>4, <1>8, <2>1
<1>12. Found'
    <2>1. ASSUME NEW n \in 1..Len(found') PROVE found'[n] = First' + n
        <3>1. CASE n <= Len(found)
            BY <1>4, <1>10, <1>11, <3>1
        <3>2. CASE n > Len(found)
            <4>1. /\ n \in (Len(found) + 1)..(Len(found) + added)
                  /\ n - Len(found) \in 1..added
                BY <1>4, <1>8, <1>10, <3>2
            <4>2. found'[n] = from + (n - Len(found))
                BY <1>9, <1>10, <4>1
            <4>. QED
                BY <1>4, <1>8, <1>11, <4>1, <4>2
        <3>. QED
            BY <1>4, <1>10, <3>1, <3>2
    <2>2. Len(found') <= to /\ (added >= Limit => Len(found') >= Limit)
        BY <1>2, <1>4, <1>8, <1>10
    <2>3. ASSUME NEW i \in 1..Len(log)
          PROVE  /\ log[i].ledger < start <=> i <= First'
                 /\ log[i].ledger < came => i <= to
                 /\ i <= to => log[i].ledger <= came
                 /\ log[i].ledger = came => i <= to \/ Len(found') >= Limit
        BY <1>4, <1>7, <1>11, <2>2
    <2>. QED
        BY <1>1, <1>7, <2>1, <2>2, <2>3 DEF Found
<1>13. Chained' /\ Events!TypeOK'
    <2>1. pages' \in 0..MaxPages /\ seen' \in 0..head
        BY <1>1, <1>2
    <2>. QED
        BY <1>1, <1>2, <1>7, <1>10, <2>1 DEF EventsInv, Events!TypeOK, Chained
<1>14. stage' = "listed" => (came < seen' => pages' = MaxPages)
    BY <1>1, <1>2
<1>. QED
    BY <1>1, <1>2, <1>3, <1>7, <1>12, <1>13, <1>14 DEF EventsInv

\* Wherever an attempt starts again, it has found nothing yet.
LEMMA EventsStartAgain ==
    ASSUME EventsInv, NEW from \in Nat, from >= 1, stage = "reading",
           Events!StartAgain(from)
    PROVE  EventsInv'
<1>1. /\ start' = from /\ scanned' = from - 1 /\ past' = 0 /\ found' = << >> /\ pages' = 0
      /\ tries' = tries + 1
      /\ stage' = IF tries >= Restarts THEN "failed" ELSE "reading"
      /\ UNCHANGED <<head, log, seen>>
    BY DEF Events!StartAgain, Events!FoundAnew, Events!chain
<1>2. tries \in Nat /\ tries <= Restarts /\ Restarts \in Nat
    BY NumbersAssumption DEF EventsInv, Events!TypeOK
<1>3. Chained' /\ Events!TypeOK'
    BY <1>1, <1>2, NumbersAssumption DEF EventsInv, Chained, Events!TypeOK
<1>. QED
    BY <1>1, <1>2, <1>3, NumbersAssumption DEF EventsInv

LEMMA NextEvents ==
    ASSUME EventsInv, [Events!Next]_(Events!vars)
    PROVE  EventsInv'
<1>1. CASE UNCHANGED Events!vars
    BY <1>1 DEF EventsInv, Chained, Events!TypeOK, Found, First, Events!vars, Events!chain,
                Events!cursor, Events!progress
<1>2. ASSUME NEW oldest \in 1..MaxHead, Events!RangeRefused(oldest) PROVE EventsInv'
    <2>. DEFINE from == Events!Larger(oldest + Margin, Events!Before(head, Day))
    <2>0. head \in Nat /\ MaxHead \in Nat /\ Margin \in Nat /\ Day \in Nat
        BY NumbersAssumption DEF EventsInv, Chained
    <2>1. from \in Nat /\ from >= 1
        <3>1. Events!Before(head, Day) \in Nat
            BY <2>0 DEF Events!Before
        <3>2. oldest + Margin \in Nat /\ oldest + Margin >= 1
            BY <1>2, <2>0
        <3>. QED
            BY <3>1, <3>2 DEF Events!Larger
    <2>. HIDE DEF from
    <2>. QED
        BY <1>2, <2>1, EventsStartAgain DEF from, Events!RangeRefused
<1>3. CASE Events!Shed
    BY <1>3, EventsStartAgain DEF Events!Shed, EventsInv, Events!TypeOK
<1>4. CASE Events!Unreadable
    BY <1>4 DEF Events!Unreadable, EventsInv, Chained, Events!TypeOK, Events!chain,
                Events!cursor, Events!progress
<1>. QED
    BY <1>1, <1>2, <1>3, <1>4, EventsClose, EventsGetLatest, EventsGetEvents
       DEF Events!Next

LEMMA SpecEvents == Scenes => [](scene = "events" => EventsInv)
<1>1. Events!Init => EventsInv
    BY NumbersAssumption DEF Events!Init, EventsInv, Chained, Events!TypeOK
<1>2. ScenesInit => (scene = "events" => EventsInv)
    BY <1>1 DEF ScenesInit
<1>3. (scene = "events" => EventsInv) /\ [ScenesNext]_all => (scene = "events" => EventsInv)'
    BY NextEvents, SceneMoves
<1>. QED
    BY <1>2, <1>3, PTL DEF Scenes

\* A list of transfers is a stretch of the chain from where its last attempt started,
\* whatever was refused and shed before: none of them twice, none out of order and no
\* gap.  What it misses is at its end, beyond its last page or after a full page in the
\* ledger where that page ended.
THEOREM TransfersAreListedOnce == Scenes => []ListedOnceAndComplete
<1>1. ASSUME EventsInv, stage = "listed"
      PROVE  /\ \A m, n \in Events!Listed : m < n => found[m] < found[n]
             /\ \A n \in Events!Listed : log[found[n]].ledger \in start..seen
             /\ \A i \in Events!Missed :
                   /\ log[i].ledger >= scanned
                   /\ \A n \in DOMAIN found : found[n] < i
                   /\ log[i].ledger > scanned => pages = MaxPages
                   /\ log[i].ledger = scanned => Len(found) >= Limit
    <2>1. /\ Found /\ Len(found) \in Nat /\ DOMAIN found = 1..Len(found) /\ past \in Nat
          /\ First \in Nat /\ First + Len(found) = past
          /\ start \in Nat /\ scanned \in Nat /\ seen \in Nat /\ scanned <= seen
          /\ scanned < seen => pages = MaxPages
        BY <1>1 DEF EventsInv, Events!TypeOK, Found, First
    <2>2. ASSUME NEW n \in DOMAIN found
          PROVE  found[n] = First + n /\ found[n] \in 1..Len(log)
        BY <1>1, <2>1 DEF Found, EventsInv, Events!TypeOK
    <2>3. \A i \in 1..Len(log) : log[i].ledger \in Nat
        BY <1>1 DEF EventsInv, Chained
    <2>4. ASSUME NEW m \in Events!Listed, NEW n \in Events!Listed, m < n
          PROVE  found[m] < found[n]
        BY <2>1, <2>2, <2>4 DEF Events!Listed
    <2>5. ASSUME NEW n \in Events!Listed PROVE log[found[n]].ledger \in start..seen
        <3>1. n \in 1..Len(found) /\ found[n] = First + n /\ found[n] \in 1..Len(log)
            BY <2>1, <2>2 DEF Events!Listed
        <3>2. ~(found[n] <= First) /\ found[n] <= past
            BY <2>1, <3>1
        <3>3. ~(log[found[n]].ledger < start) /\ log[found[n]].ledger <= scanned
            BY <2>1, <3>1, <3>2 DEF Found
        <3>. QED
            BY <2>1, <2>3, <3>1, <3>3
    <2>6. ASSUME NEW i \in Events!Missed
          PROVE  /\ log[i].ledger >= scanned
                 /\ \A n \in DOMAIN found : found[n] < i
                 /\ log[i].ledger > scanned => pages = MaxPages
                 /\ log[i].ledger = scanned => Len(found) >= Limit
        <3>1. /\ i \in 1..Len(log) /\ log[i].ledger \in start..seen
              /\ \A n \in DOMAIN found : found[n] # i
            BY <1>1 DEF Events!Missed, EventsInv, Chained
        <3>2. ~(i <= First)
            BY <2>1, <2>3, <3>1 DEF Found
        <3>3. ~(i <= past)
            <4>1. ASSUME i <= past PROVE FALSE
                <5>1. i - First \in DOMAIN found /\ First + (i - First) = i
                    BY <2>1, <3>1, <3>2, <4>1
                <5>. QED
                    BY <2>2, <3>1, <5>1
            <4>. QED
                BY <4>1
        <3>4. \A n \in DOMAIN found : found[n] < i
            BY <2>1, <2>2, <3>1, <3>3
        <3>5. ~(log[i].ledger < scanned) /\ (log[i].ledger = scanned => Len(found) >= Limit)
            BY <2>1, <3>1, <3>3 DEF Found
        <3>. QED
            BY <2>1, <2>3, <3>1, <3>4, <3>5
    <2>. QED
        BY <2>4, <2>5, <2>6
<1>2. (scene = "events" => EventsInv) => ListedOnceAndComplete
    BY <1>1 DEF ListedOnceAndComplete, Events!ListedOnceAndComplete
<1>. QED
    BY <1>2, SpecEvents, PTL

-----------------------------------------------------------------------------
(* All of them *)

\* In every scene everything keeps its type: no index, account or ask that a page,
\* a session or a loop holds is one there is not.
THEOREM ScenesKeepTheirTypes == Scenes => []TypesOK
<1>1. /\ RegistryInv
      /\ scene = "session" => SessionInv
      /\ scene = "verify" => VerifyInv
      /\ scene = "list" => ListInv /\ ListTyped
      /\ scene = "issue" => IssuingInv /\ IssuingTyped
      /\ scene = "transfer" => TransferInv /\ TransferTyped
      /\ scene = "events" => EventsInv
      => TypesOK
    BY DEF TypesOK, RegistryInv, SessionInv, VerifyInv, ListTyped, IssuingTyped, TransferTyped,
           EventsInv
<1>. QED
    BY <1>1, SpecRegistry, SpecSession, SpecVerify, SpecList, SpecIssuing, SpecTransfer,
       SpecEvents, PTL
=============================================================================
