----------------------------- MODULE VerifyPage -----------------------------
(***************************************************************************)
(* The page that verifies a week, by its id or from pasted files.          *)
(*                                                                         *)
(* Between two awaits the page runs without interruption.  The two buttons *)
(* that read a right are disabled while one reads (loading); nothing else  *)
(* is.  So the right's recent transfers, the attestation offered for       *)
(* pasting and the hash of a disclosed record may each answer when the     *)
(* page is about something else.                                           *)
(*                                                                         *)
(* What the registry and the issuer's files answer is given: Rows, Files.  *)
(* An attestation that cannot be had, for whatever reason, is for the page *)
(* the same as none having been signed.                                    *)
(* An attestation is what the checks tell apart; `sound` stands for all    *)
(* that makes it the issuer's own, in time, for this contract.             *)
(***************************************************************************)
EXTENDS Naturals

CONSTANTS
    Ids,          \* the rights there are
    Holders, Digests,
    Rows,         \* Rows[id]: what reading the right may answer
    Files,        \* Files[id]: the attestations that may be found for the right
    Pasted,       \* the attestations a seller may send
    Blank, Bad,   \* an empty box; text that is no JSON or fails validation
    None,
    \* Bound of the model
    MaxEdits

Row == [id : Ids, holder : Holders, active : BOOLEAN, rented : BOOLEAN]
Attestation == [right : Ids, digest : Digests, sound : BOOLEAN, clear : BOOLEAN]

VARIABLES
    tab, rightId, right,
    history,      \* the right whose transfers are listed, or None
    recordText, attestationText, claimedHolder,
    checks,       \* what was checked, or None: the results follow from it
    main,         \* the read under way: loading is main # Idle
    reads,        \* the rights whose transfers are being read
    fetches,      \* those whose attestation is being fetched for pasting
    digests,      \* what is to be checked once a record is hashed
    edits         \* how often a box was edited

boxes == <<recordText, attestationText, claimedHolder, edits>>
late == <<reads, fetches, digests>>
vars == <<tab, rightId, right, history, boxes, checks, main, late>>

Idle == [by |-> "nobody", at |-> "none", id |-> None, offer |-> FALSE]
loading == main # Idle

\* The page opens reading the right its box names.
Init ==
    /\ tab = "id"
    /\ rightId \in Ids
    /\ right = None /\ history = None /\ checks = None
    /\ recordText = Blank /\ attestationText = Blank /\ claimedHolder = Blank
    /\ main = [by |-> "mount", at |-> "right", id |-> rightId, offer |-> FALSE]
    /\ reads = {} /\ fetches = {} /\ digests = {} /\ edits = 0

-----------------------------------------------------------------------------
(* The checks                                                               *)

Check(id, ok) == [id |-> id, ok |-> ok]

\* Mutant: a record that does not parse is passed over.
RecordIfItParses(text) ==
    IF text \in {Blank, Bad} THEN {} ELSE {Check("record-digest", TRUE)}

\* Leg 1: the record, if one was disclosed at all
RecordChecks(text) ==
    IF text = Blank THEN {}
    ELSE IF text = Bad THEN {Check("record", FALSE)}
    ELSE {Check("record-digest", TRUE)}

\* verifyAttestation: the digest is compared if there is one.
VerifyAttestation(attestation, id, digest) ==
    {Check("right", attestation.right = id),
     Check("signature", attestation.sound), Check("fees", attestation.clear)}
    \cup (IF digest \in Digests THEN {Check("record", attestation.digest = digest)} ELSE {})

\* Leg 2: the attestation
AttestationChecks(text, id, digest) ==
    IF text = Blank THEN {Check("attestation-absent", FALSE)}
    ELSE IF text = Bad THEN {Check("attestation", FALSE)}
    ELSE VerifyAttestation(text, id, digest)

\* Leg 3: the holder, if one was named, and the right itself
HolderChecks(claimed, row) ==
    (IF claimed = Blank THEN {} ELSE {Check("holder", claimed = row.holder)})
    \cup {Check("active", row.active)}
    \cup (IF row.rented THEN {Check("encumbered", FALSE)} ELSE {})

CollectChecks(input) ==
    RecordChecks(input.record)
    \cup AttestationChecks(input.attestation, input.right.id, input.record)
    \cup HolderChecks(input.claimed, input.right)

\* What the summary above the checks says
allOk == checks # None /\ \A check \in CollectChecks(checks) : check.ok
Checked(id) == checks # None /\ \E check \in CollectChecks(checks) : check.id = id
checkedARecord == Checked("record")
checkedAHolder == Checked("holder")

-----------------------------------------------------------------------------
(* Reading a right                                                          *)

AsText(file) == IF file = None THEN Blank ELSE file

\* verifyById and loadForPasting, up to reading the right: loadRight clears what
\* was shown.  A box that names no number only does that.
Start(by) ==
    /\ ~loading
    /\ tab = by
    /\ right' = None /\ checks' = None
    /\ IF rightId \in Ids
       THEN /\ history' = None
            /\ main' = [by |-> by, at |-> "right", id |-> rightId,
                        offer |-> attestationText = Blank]
       ELSE UNCHANGED <<history, main>>
    /\ UNCHANGED <<tab, rightId, boxes, late>>

\* The right is read, and what comes next is started.
RightAnswers(row) ==
    /\ main.at = "right" /\ row \in Rows[main.id]
    /\ right' = row
    /\ claimedHolder' = row.holder
    /\ reads' = reads \cup {main.id}
    /\ main' = IF main.by = "id" THEN [main EXCEPT !.at = "attestation"] ELSE Idle
    /\ fetches' = IF main.by = "json" /\ main.offer THEN fetches \cup {main.id} ELSE fetches
    /\ UNCHANGED <<tab, rightId, history, recordText, attestationText, checks, digests, edits>>

\* It, or the attestation after it, cannot be read.
ReadFails ==
    /\ loading
    /\ main' = Idle
    /\ UNCHANGED <<tab, rightId, right, history, boxes, checks, late>>

\* Mutant: the attestation is that of the right the box names by now.
FileOfTheBox == (IF rightId \in Ids THEN Files[rightId] ELSE {}) \cup {None}

\* fetchAttestation, for the right that was read: one that is found; or None, there being
\* none or any other answer that is not ok.
FileRead == Files[main.id] \cup {None}

\* verifyById: no record, and no claim about a seller.
AttestationAnswers ==
    /\ main.at = "attestation"
    /\ \E file \in FileRead :
          /\ attestationText' = AsText(file)
          /\ checks' = [by |-> "id", right |-> right, attestation |-> AsText(file),
                        record |-> Blank, claimed |-> Blank]
    /\ main' = Idle
    /\ UNCHANGED <<tab, rightId, right, history, recordText, claimedHolder, edits, late>>

\* What was read before is shown under whatever right is shown by now.
TransfersAnswer(id) ==
    /\ id \in reads
    /\ reads' = reads \ {id}
    /\ history' = id
    /\ UNCHANGED <<tab, rightId, right, boxes, checks, main, fetches, digests>>

\* loadForPasting: the box was empty when the button was pressed.  It is filled, unless
\* nothing was found.
FetchAnswers(id) ==
    /\ id \in fetches
    /\ fetches' = fetches \ {id}
    /\ attestationText' \in {attestationText} \cup Files[id]
    /\ UNCHANGED <<tab, rightId, right, history, recordText, claimedHolder, checks, main,
                   reads, digests, edits>>

-----------------------------------------------------------------------------
(* Verifying what was pasted                                                *)

\* A record that parses is hashed first, which takes a while.
VerifyPasted ==
    LET input == [by |-> "json", right |-> right, attestation |-> attestationText,
                  record |-> recordText, claimed |-> claimedHolder]
    IN /\ tab = "json" /\ right # None
       /\ IF recordText \in Digests
          THEN digests' = digests \cup {input} /\ UNCHANGED checks
          ELSE checks' = input /\ UNCHANGED digests
       /\ UNCHANGED <<tab, rightId, right, history, boxes, main, reads, fetches>>

DigestAnswers(input) ==
    /\ input \in digests
    /\ digests' = digests \ {input}
    /\ checks' = input
    /\ UNCHANGED <<tab, rightId, right, history, boxes, main, reads, fetches>>

-----------------------------------------------------------------------------
(* The user                                                                 *)

SwitchTab(next) ==
    /\ tab' = next
    /\ checks' = None
    /\ UNCHANGED <<rightId, right, history, boxes, main, late>>

TypeId(text) ==
    /\ rightId' = text
    /\ UNCHANGED <<tab, right, history, recordText, attestationText, claimedHolder, checks,
                   main, late>>

Paste(record, attestation, claimed) ==
    /\ tab = "json"
    /\ recordText' = record /\ attestationText' = attestation /\ claimedHolder' = claimed
    /\ UNCHANGED <<tab, rightId, right, history, checks, main, late>>

Edit ==
    /\ edits < MaxEdits
    /\ edits' = edits + 1
    /\ \/ \E text \in Ids \cup {Blank} : TypeId(text)
       \/ \E text \in Digests \cup {Blank, Bad} : Paste(text, attestationText, claimedHolder)
       \/ \E text \in Pasted \cup {Blank, Bad} : Paste(recordText, text, claimedHolder)
       \/ \E text \in Holders \cup {Blank} : Paste(recordText, attestationText, text)

-----------------------------------------------------------------------------
Next ==
    \/ \E by \in {"id", "json"} : Start(by) \/ SwitchTab(by)
    \/ \E id \in Ids : (\E row \in Rows[id] : RightAnswers(row)) \/ TransfersAnswer(id) \/ FetchAnswers(id)
    \/ ReadFails \/ AttestationAnswers \/ VerifyPasted \/ Edit
    \/ \E input \in digests : DigestAnswers(input)

Spec == Init /\ [][Next]_vars

-----------------------------------------------------------------------------
Input == [by : {"id", "json"}, right : Row, attestation : Attestation \cup {Blank, Bad},
          record : Digests \cup {Blank, Bad}, claimed : Holders \cup {Blank}]

TypeOK ==
    /\ tab \in {"id", "json"} /\ rightId \in Ids \cup {Blank}
    /\ right \in Row \cup {None} /\ history \in Ids \cup {None}
    /\ recordText \in Digests \cup {Blank, Bad}
    /\ attestationText \in Attestation \cup {Blank, Bad}
    /\ claimedHolder \in Holders \cup {Blank}
    /\ checks \in Input \cup {None} /\ digests \subseteq Input
    /\ main.id \in Ids \cup {None} /\ reads \subseteq Ids /\ fetches \subseteq Ids

\* A result that needed no hashing stands under the right it was made for, and the
\* one made by id rests on nothing but what is on file for that very right, however the
\* boxes were edited, the tabs switched and earlier answers delayed meanwhile.  (That
\* nothing is on file may only mean that it could not be read.)
ResultIsOfTheWeekShown ==
    checks # None /\ checks.record \notin Digests =>
        /\ checks.right = right
        /\ checks.by = "id" => checks.attestation \in Files[right.id] \cup {Blank}

\* "The summary says what the reader has, rather than implying more than was
\* checked" (lines 362-363): every sentence of the good news is true of what was
\* put in, and it speaks of a document exactly when one was shown.
SummaryIsSupported ==
    allOk =>
        /\ checks.attestation \in Attestation
        /\ checks.attestation.right = checks.right.id
        /\ checks.attestation.sound /\ checks.attestation.clear
        /\ checks.right.active /\ ~checks.right.rented
        /\ checkedAHolder => checks.claimed = checks.right.holder
        /\ checkedARecord <=> checks.record # Blank
        /\ checkedARecord => checks.attestation.digest = checks.record

\* "This week's accepted transfers the RPC still remembers" (line 83): what is
\* listed under a right is its own.
HistoryIsOfTheWeek ==
    right # None /\ history # None => history = right.id
=============================================================================
