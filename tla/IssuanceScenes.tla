--------------------------- MODULE IssuanceScenes ---------------------------
(***************************************************************************)
(* Issuing in two settings, as scenes of one specification: handlers       *)
(* interleaved, with anything failing and transactions that settle late;   *)
(* or one handler at a time, which waits for its transaction, in a store   *)
(* whose writes may fail.                                                  *)
(***************************************************************************)
EXTENDS Issuance

\* The handler that is alone, and the records and secrets of its scene
CONSTANTS Handler, SerialRecords, SerialHashes

ASSUME IssuanceScenesAssumption ==
    None \notin [owner : Accounts, record : SerialRecords, hash : SerialHashes]

VARIABLE scene

Serial == INSTANCE Issuance WITH
    Records <- SerialRecords, Hashes <- SerialHashes, Workers <- {Handler},
    GetFails <- FALSE, SetFails <- TRUE, GivesUp <- FALSE

ScenesInit ==
    \/ scene = "interleaved" /\ Init
    \/ scene = "serial" /\ Serial!Init

ScenesNext ==
    \/ scene = "interleaved" /\ Next /\ UNCHANGED scene
    \/ scene = "serial" /\ Serial!Next /\ UNCHANGED scene

Scenes == ScenesInit /\ [][ScenesNext]_<<scene, vars>>

\* With one handler at a time, which waits for its transaction, an id names one week
\* wherever it is written: the attestation under it is about the record of that week
\* (issue/route.ts, 18-19), and so is the issued ask that carries it.
SeriallyIdsAgree == scene = "serial" => AttestationIsOfItsWeek /\ IssuedNamesItsWeek

\* With one handler at a time, an issuer told of nothing left open left the secret on
\* record (issue/route.ts, 217), and no later week has it (159-160).
SeriallySecretsAreSpent == scene = "serial" => LeftOpenIsSaid /\ OneSecretPerWeek
=============================================================================
