------------------------------- MODULE IssuePage -------------------------------
(***************************************************************************)
(* The Issue screen: the record being edited, its preview, the owners'     *)
(* asks, and the call that issues.                                         *)
(*                                                                         *)
(* Nothing is disabled while the call is out but its own button: the       *)
(* record may be edited and another ask picked before it answers.  What    *)
(* the route refuses is Issuance's matter: here it may issue any record    *)
(* that validates, refuse it, or issue it and fail to say so.              *)
(***************************************************************************)
EXTENDS Sequences, Naturals, FiniteSets

CONSTANTS
    Accounts,
    Bodies,       \* the rest of a record
    Hashes,       \* what owners' secrets hash to
    Blank, Bad,   \* an empty field; a text that does not parse or validate
    None,
    \* Bounds of the model
    MaxAsks, MaxWeeks, MaxEdits

Records == [owner : Accounts \cup {Blank}, body : Bodies]
Asks == [by : Accounts, hash : Hashes]
Valid(text) == text \in Records /\ text.owner # Blank

VARIABLES
    isIssuer,     \* the issuer is signed in
    recordText,
    preview,      \* the record whose digest is shown, or None
    previewing,   \* the digest of the text as it is now is being computed
    secretHash,   \* the box for the owner's h
    queue,        \* the open asks shown
    reading,      \* this session is reading them
    selected,     \* the ask being issued from, or None
    call,         \* the call out, or None: busy is call # None
    result,       \* the week the page says it issued, or None
    open,         \* the open asks there are
    weeks,        \* the weeks issued, each with what the page showed of its h
    edits

picks == <<secretHash, selected>>
editor == <<recordText, preview, previewing, edits>>
vars == <<isIssuer, editor, picks, queue, reading, call, result, open, weeks>>

Init ==
    /\ isIssuer = FALSE
    /\ recordText \in {r \in Records : r.owner = Blank}
    /\ preview = None /\ previewing = TRUE
    /\ secretHash = Blank /\ selected = None
    /\ queue = {} /\ reading = FALSE
    /\ call = None /\ result = None
    /\ open = {} /\ weeks = << >> /\ edits = 0

-----------------------------------------------------------------------------
(* The record                                                               *)

\* Each edit starts the preview anew and cancels the one before.
Rewrite(text) ==
    /\ recordText' = text
    /\ previewing' = (previewing \/ text # recordText)

\* setField: a text that does not parse stays as it is.
WriteOwner(account) ==
    IF recordText = Bad THEN recordText ELSE [recordText EXCEPT !.owner = account]

Edit(text) ==
    /\ isIssuer /\ edits < MaxEdits /\ edits' = edits + 1
    /\ text # recordText
    /\ Rewrite(text)
    /\ UNCHANGED <<isIssuer, preview, picks, queue, reading, call, result, open, weeks>>

\* The form's owner field cannot be edited while an ask is picked; the JSON tab,
\* where a whole record is pasted, can.
EditForm(account) == selected = None /\ Edit(WriteOwner(account))
EditJson(text) == Edit(text)

PreviewAnswers ==
    /\ previewing /\ previewing' = FALSE
    /\ preview' = IF Valid(recordText) THEN recordText ELSE None
    /\ UNCHANGED <<isIssuer, recordText, edits, picks, queue, reading, call, result, open, weeks>>

-----------------------------------------------------------------------------
(* The queue                                                                *)

\* Signing in reads the owners' asks; signing out cancels that.
SignIn ==
    /\ ~isIssuer /\ isIssuer' = TRUE /\ reading' = TRUE
    /\ UNCHANGED <<editor, picks, queue, call, result, open, weeks>>
SignOut ==
    /\ isIssuer /\ isIssuer' = FALSE /\ reading' = FALSE
    /\ UNCHANGED <<editor, picks, queue, call, result, open, weeks>>

AsksAnswer ==
    /\ reading /\ reading' = FALSE
    /\ queue' \in {queue, open}
    /\ UNCHANGED <<isIssuer, editor, picks, call, result, open, weeks>>

\* IssuanceAsk, on an owner's screen
Ask(by, hash) ==
    /\ Cardinality(open) + Len(weeks) < MaxAsks
    /\ [by |-> by, hash |-> hash] \notin open
    /\ \A n \in DOMAIN weeks : weeks[n].ask # [by |-> by, hash |-> hash]
    /\ open' = open \cup {[by |-> by, hash |-> hash]}
    /\ UNCHANGED <<isIssuer, editor, picks, queue, reading, call, result, weeks>>

Pick(ask) ==
    /\ isIssuer /\ ask \in queue /\ ask # selected
    /\ selected' = ask /\ secretHash' = ask.hash
    /\ Rewrite(WriteOwner(ask.by))
    /\ UNCHANGED <<isIssuer, preview, edits, queue, reading, call, result, open, weeks>>

Deselect ==
    /\ isIssuer /\ selected \in queue
    /\ selected' = None /\ secretHash' = Blank
    /\ UNCHANGED <<isIssuer, editor, queue, reading, call, result, open, weeks>>

\* The h of an owner who sent it some other way
TypeHash(hash) ==
    /\ isIssuer /\ selected = None /\ secretHash' = hash
    /\ UNCHANGED <<isIssuer, editor, selected, queue, reading, call, result, open, weeks>>

-----------------------------------------------------------------------------
(* Issuing                                                                  *)

\* Mutant: the owner in the record is not held against the ask.
OwnerUnchecked == TRUE

ownerMatchesAsk ==
    selected # None => recordText \in Records /\ recordText.owner = selected.by

Issue ==
    /\ call = None /\ isIssuer /\ preview # None
    /\ secretHash # Blank /\ ownerMatchesAsk
    /\ result' = None
    /\ call' = IF recordText = Bad THEN None
               ELSE [text |-> recordText, ask |-> selected, shown |-> secretHash, issued |-> 0]
    /\ UNCHANGED <<isIssuer, editor, picks, queue, reading, open, weeks>>

\* The route issues the record under the hash of the ask, or the one it was sent.
Issued ==
    /\ call # None /\ call.issued = 0 /\ Valid(call.text) /\ Len(weeks) < MaxWeeks
    /\ weeks' = Append(weeks, [record |-> call.text, ask |-> call.ask, shown |-> call.shown,
                               hash |-> IF call.ask = None THEN call.shown ELSE call.ask.hash])
    /\ open' = open \ {call.ask}
    /\ call' = [call EXCEPT !.issued = Len(weeks) + 1]
    /\ UNCHANGED <<isIssuer, editor, picks, queue, reading, result>>

\* Mutant: what is saved is what the editor holds by now.
EditedText == recordText

\* Kept as sent: an edit made after issuing must not change what is saved.
IssuedText == call.text

\* An issued request drops off the list, and whichever is picked is deselected.
Answers ==
    /\ call # None /\ call.issued # 0
    /\ call' = None
    /\ result' = [right_id |-> call.issued, issuedText |-> IssuedText]
    /\ queue' = queue \ {call.ask}
    /\ IF call.ask # None THEN selected' = None /\ secretHash' = Blank ELSE UNCHANGED picks
    /\ UNCHANGED <<isIssuer, editor, reading, open, weeks>>

\* Refused, or never heard of.
Fails ==
    /\ call # None
    /\ call' = None
    /\ UNCHANGED <<isIssuer, editor, picks, queue, reading, result, open, weeks>>

-----------------------------------------------------------------------------
Next ==
    \/ \E account \in Accounts : EditForm(account)
    \/ \E text \in Records \cup {Bad} : EditJson(text)
    \/ \E by \in Accounts, hash \in Hashes : Ask(by, hash)
    \/ \E ask \in queue : Pick(ask)
    \/ \E hash \in Hashes \cup {Blank} : TypeHash(hash)
    \/ PreviewAnswers \/ SignIn \/ SignOut \/ AsksAnswer \/ Deselect
    \/ Issue \/ Issued \/ Answers \/ Fails

Spec == Init /\ [][Next]_vars

-----------------------------------------------------------------------------
TypeOK ==
    /\ isIssuer \in BOOLEAN /\ previewing \in BOOLEAN /\ reading \in BOOLEAN
    /\ recordText \in Records \cup {Bad} /\ preview \in Records \cup {None}
    /\ secretHash \in Hashes \cup {Blank} /\ selected \in Asks \cup {None}
    /\ queue \subseteq Asks /\ open \subseteq Asks
    /\ \A n \in DOMAIN weeks :
          weeks[n].record \in Records /\ weeks[n].ask \in Asks \cup {None} /\ weeks[n].hash \in Hashes
    /\ result # None => result.right_id \in DOMAIN weeks

\* "This is the only copy" (line 963): the record the page offers to save for a week
\* is the one that week was issued for, however the editor was used while the call
\* was out and after it.
SavedIsWhatWasIssued ==
    result # None => result.issuedText = weeks[result.right_id].record

\* A week issued from an ask is issued to the account that asked and under the h the
\* page showed, whatever was pasted over the record since the ask was picked and
\* whichever other ask was picked before.
AsksAreIssuedAsShown ==
    \A n \in DOMAIN weeks :
        /\ weeks[n].hash = weeks[n].shown
        /\ weeks[n].ask # None => weeks[n].record.owner = weeks[n].ask.by
=============================================================================
