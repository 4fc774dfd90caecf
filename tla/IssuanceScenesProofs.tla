------------------------ MODULE IssuanceScenesProofs ------------------------
(***************************************************************************)
(* What IssuanceProofs establishes of any number of handlers, and of one,  *)
(* said of the two scenes: each is an instance of Issuance, of which its   *)
(* theorems hold.                                                          *)
(***************************************************************************)
EXTENDS IssuanceScenes, IssuanceProofs

\* The scene of one handler, with what is proved about Issuance
Lone == INSTANCE IssuanceProofs WITH
    Records <- SerialRecords, Hashes <- SerialHashes, Workers <- {Handler},
    GetFails <- FALSE, SetFails <- TRUE, GivesUp <- FALSE

\* What Issuance assumes of its constants holds of that scene's as well.
LEMMA LoneAssumption ==
    /\ None \notin Lone!Week
    /\ {FALSE, TRUE, FALSE} \subseteq BOOLEAN
    /\ MaxEntries \in Nat /\ MaxSent \in Nat
BY IssuanceAssumption, IssuanceScenesAssumption DEF Lone!Week

LEMMA LoneIsAlone == Lone!OneAtATime
BY DEF Lone!OneAtATime

\* Two instances of Issuance with the same constants are the same.
LEMMA SameInit == Serial!Init => Lone!Init
BY DEF Serial!Init, Lone!Init, Serial!NoCall, Lone!NoCall

LEMMA SameNext == Serial!Next => Lone!Next
BY DEF Serial!Next, Serial!Include, Serial!AskIssuance, Serial!Issue,
       Serial!SaveAsk, Serial!CheckSpent, Serial!ReadNextId,
       Serial!BuildIssueTx, Serial!Submit, Serial!Poll,
       Serial!SaveAttestation, Serial!Close, Serial!SaveIssuance,
       Serial!Abandon, Serial!Week, Serial!Put, Serial!NoCall, Serial!Loads,
       Serial!Resume, Serial!Return, Serial!Open, Serial!Secures,
       Serial!Sequence, Serial!Settled, Serial!AskMatches, Serial!AsksFor,
       Serial!Told, Serial!Mark, Serial!network, Serial!handlers,
       Lone!Next, Lone!Include, Lone!AskIssuance, Lone!Issue, Lone!SaveAsk,
       Lone!CheckSpent, Lone!ReadNextId, Lone!BuildIssueTx, Lone!Submit,
       Lone!Poll, Lone!SaveAttestation, Lone!Close, Lone!SaveIssuance,
       Lone!Abandon, Lone!Week, Lone!Put, Lone!NoCall, Lone!Loads,
       Lone!Resume, Lone!Return, Lone!Open, Lone!Secures, Lone!Sequence,
       Lone!Settled, Lone!AskMatches, Lone!AsksFor, Lone!Told, Lone!Mark,
       Lone!network, Lone!handlers

\* A scene stays the same, and in it only its own handlers move.
LEMMA SceneMoves ==
    ASSUME [ScenesNext]_<<scene, vars>>
    PROVE  /\ scene' = scene
           /\ scene = "interleaved" => [Next]_vars
           /\ scene = "serial" => [Lone!Next]_(Lone!vars)
<1>1. CASE ScenesNext
    BY <1>1, SameNext DEF ScenesNext
<1>2. CASE UNCHANGED <<scene, vars>>
    BY <1>2 DEF vars, network, handlers, Lone!vars, Lone!network, Lone!handlers
<1>. QED
    BY <1>1, <1>2

\* A behaviour of the scenes is one of the two specifications.
LEMMA OneScene ==
    Scenes => \/ Spec /\ [](scene = "interleaved")
              \/ Lone!Spec /\ [](scene = "serial")
<1>1. ScenesInit => \/ scene = "interleaved" /\ Init
                    \/ scene = "serial" /\ Lone!Init
    BY SameInit DEF ScenesInit
<1>2. scene = "interleaved" /\ [ScenesNext]_<<scene, vars>>
        => [Next]_vars /\ (scene = "interleaved")'
    BY SceneMoves
<1>3. scene = "serial" /\ [ScenesNext]_<<scene, vars>>
        => [Lone!Next]_(Lone!vars) /\ (scene = "serial")'
    BY SceneMoves
<1>. QED
    BY <1>1, <1>2, <1>3, PTL DEF Scenes, Spec, Lone!Spec

-----------------------------------------------------------------------------
(* Theorems about both scenes                                               *)

\* In either scene, an ask that reads `issued` was issued: its account has a week on
\* chain under its secret (lib/requests.ts, 321-332).
THEOREM IssuedWasIssuedInScenes == Scenes => []IssuedAsksHaveWeeks
<1>1. Lone!IssuedAsksHaveWeeks => IssuedAsksHaveWeeks
    BY DEF Lone!IssuedAsksHaveWeeks, IssuedAsksHaveWeeks
<1>2. Lone!Spec => []Lone!IssuedAsksHaveWeeks
    BY LoneAssumption, Lone!IssuedWasIssued
<1>. QED
    BY <1>1, <1>2, OneScene, IssuedWasIssued, PTL

\* With one handler at a time, which waits for its transaction, an attestation is about
\* the record of the week whose id it is under (issue/route.ts, 18-19), and an issued ask
\* names the week it was issued as (lib/requests.ts, 321-332).
THEOREM IdsAgree == Scenes => []SeriallyIdsAgree
<1>1. Lone!AttestationIsOfItsWeek /\ Lone!IssuedNamesItsWeek
        => AttestationIsOfItsWeek /\ IssuedNamesItsWeek
    BY DEF Lone!AttestationIsOfItsWeek, AttestationIsOfItsWeek,
           Lone!IssuedNamesItsWeek, IssuedNamesItsWeek
<1>2. Lone!Spec => []Lone!AttestationIsOfItsWeek
    BY LoneAssumption, LoneIsAlone, Lone!AttestationsAreOfTheirWeeks
<1>3. Lone!Spec => []Lone!IssuedNamesItsWeek
    BY LoneAssumption, LoneIsAlone, Lone!IssuedAsksNameTheirWeeks
<1>4. /\ scene = "interleaved" => SeriallyIdsAgree
      /\ AttestationIsOfItsWeek /\ IssuedNamesItsWeek => SeriallyIdsAgree
    BY DEF SeriallyIdsAgree
<1>. QED
    BY <1>1, <1>2, <1>3, <1>4, OneScene, PTL

\* With one handler at a time, which waits for its transaction, an issuer told of nothing
\* left open left the secret on record (issue/route.ts, 217), also when writes fail after
\* they were applied; and no later week has that secret (159-160).
THEOREM SecretsAreSpentSerially == Scenes => []SeriallySecretsAreSpent
<1>1. Lone!LeftOpenIsSaid /\ Lone!OneSecretPerWeek => LeftOpenIsSaid /\ OneSecretPerWeek
    BY DEF Lone!LeftOpenIsSaid, LeftOpenIsSaid, Lone!Secures, Secures,
           Lone!OneSecretPerWeek, OneSecretPerWeek
<1>2. Lone!Spec => []Lone!LeftOpenIsSaid
    BY LoneAssumption, LoneIsAlone, Lone!NothingIsLeftUnsaid
<1>3. Lone!Spec => []Lone!OneSecretPerWeek
    BY LoneAssumption, LoneIsAlone, Lone!SecretsAreSpent
<1>4. /\ scene = "interleaved" => SeriallySecretsAreSpent
      /\ LeftOpenIsSaid /\ OneSecretPerWeek => SeriallySecretsAreSpent
    BY DEF SeriallySecretsAreSpent
<1>. QED
    BY <1>1, <1>2, <1>3, <1>4, OneScene, PTL
=============================================================================
