---------------------------- MODULE Attestations ----------------------------
(***************************************************************************)
(* What the issuer has signed about each right, and where it is kept.      *)
(*                                                                         *)
(* The app reads a statement from the store, and failing that from the     *)
(* file that shipped with the build; it writes to the store only.  At the  *)
(* issuer's desk, with no store configured, the same code reads and writes *)
(* the files of the repository, which a deployment ships.  To attest is to *)
(* sign a statement from the record.  To settle fees or to describe is to  *)
(* restate the one on file: load it, read the right from the contract,     *)
(* sign, save, an await at a time.                                         *)
(*                                                                         *)
(* A statement is what its signature covers.  `sound` stands for all that  *)
(* makes it the issuer's own, for this contract and network.               *)
(***************************************************************************)
EXTENDS Integers

CONSTANTS
    Rights, Records, Texts,
    RecordOf,       \* the record each right was issued for
    Workers,        \* calls at the same time, of the app or the command line
    None,
    Life,           \* how long a statement may be relied on (365 days)
    GetFails, SetFails,   \* whether the store may fail
    \* Bounds of the model
    MaxSigned, MaxNow, MaxSlips

Statement ==
    [right : Rights, record : Records, text : Texts, fees : BOOLEAN,
     until : Nat, sound : BOOLEAN, no : Nat]
Kinds == {"attest", "settle", "describe"}
Sites == {"host", "desk"}
Places == {"store", "shipped", "repo"}
Call ==
    [kind : Kinds, site : Sites, right : Rights,
     fees : BOOLEAN \cup {None}, text : Texts \cup {None}, statement : Statement \cup {None}]

ASSUME AttestationsAssumption ==
    /\ RecordOf \in [Rights -> Records]
    /\ None \notin Statement \cup Call \cup Texts \cup BOOLEAN
    /\ Life \in Nat
    /\ GetFails \in BOOLEAN /\ SetFails \in BOOLEAN
    /\ MaxSigned \in Nat /\ MaxNow \in Nat /\ MaxSlips \in Nat

VARIABLES
    now,
    files,     \* files[place][right]: the statement kept there, or None
    at,        \* where each call is suspended
    call,      \* what it was called with, and the statement it has read or signed
    signed,    \* how many statements have been signed
    slips,     \* how many files were copied or edited by hand
    \* History, read by no action
    told       \* what the issuer was last told is on file in the store

vars == <<now, files, at, call, signed, slips, told>>

Nothing == [fees |-> None, text |-> None]

Init ==
    /\ now = 0
    /\ files = [p \in Places |-> [r \in Rights |-> None]]
    /\ at = [w \in Workers |-> "idle"]
    /\ call = [w \in Workers |-> None]
    /\ signed = 0 /\ slips = 0
    /\ told = [r \in Rights |-> Nothing]

-----------------------------------------------------------------------------
(* Reading and checking                                                     *)

\* loadAttestation, when the store answers and when it does not
OnFile(site, r, reachable) ==
    IF site = "desk" THEN files["repo"][r]
    ELSE IF reachable /\ files["store"][r] # None THEN files["store"][r]
    ELSE files["shipped"][r]

\* Mutant: a statement is not asked which right it is about.
AuthenticForAny(s, r) ==
    s # None /\ s.sound /\ now < s.until

\* The issuer's, about this right, and still to be relied on.
Authentic(s, r) ==
    s # None /\ s.sound /\ s.right = r /\ now < s.until

\* What the registry says about a right: a statement it can check, or nothing.
Shown(r, reachable) ==
    IF Authentic(OnFile("host", r, reachable), r)
    THEN OnFile("host", r, reachable) ELSE None

-----------------------------------------------------------------------------
(* The calls                                                                *)

Suspend(w, place, c) ==
    /\ at' = [at EXCEPT ![w] = place]
    /\ call' = [call EXCEPT ![w] = c]

\* The first statement about a right, at issuance, or a new one: the record it is
\* made from has been checked against the contract.
Attest(w, site, r, fees, text) ==
    /\ at[w] = "idle" /\ signed < MaxSigned
    /\ signed' = signed + 1
    /\ Suspend(w, "save",
         [kind |-> "attest", site |-> site, right |-> r, fees |-> fees, text |-> text,
          statement |-> [right |-> r, record |-> RecordOf[r], text |-> text, fees |-> fees,
                         until |-> now + Life, sound |-> TRUE, no |-> signed + 1]])
    /\ UNCHANGED <<now, files, slips, told>>

\* Settling has nothing to say of the description, describing nothing of the fees.
Restate(w, kind, site, r, fees, text) ==
    /\ at[w] = "idle"
    /\ Suspend(w, "load", [kind |-> kind, site |-> site, right |-> r, fees |-> fees,
                           text |-> text, statement |-> None])
    /\ UNCHANGED <<now, files, signed, slips, told>>

\* No statement on file ends the call.
Load(w) ==
    /\ at[w] = "load"
    /\ \E reachable \in {TRUE, ~GetFails} :
         LET existing == OnFile(call[w].site, call[w].right, reachable)
         IN IF existing = None THEN Suspend(w, "idle", None)
            ELSE Suspend(w, "sign", [call[w] EXCEPT !.statement = existing])
    /\ UNCHANGED <<now, files, signed, slips, told>>

\* Mutant: a settlement drops the description on file.
RestatedAfresh(c) ==
    [right |-> c.right, record |-> c.statement.record, text |-> c.text,
     fees |-> IF c.kind = "settle" THEN c.fees ELSE c.statement.fees,
     until |-> now + Life, sound |-> TRUE, no |-> signed + 1]

\* What is not restated is carried over.
Restated(c) ==
    [right |-> c.right, record |-> c.statement.record,
     text |-> IF c.kind = "describe" THEN c.text ELSE c.statement.text,
     fees |-> IF c.kind = "settle" THEN c.fees ELSE c.statement.fees,
     until |-> now + Life, sound |-> TRUE, no |-> signed + 1]

\* Mutant: what is on file is signed anew as it is.
SignUnchecked(w) ==
    /\ at[w] = "sign" /\ signed < MaxSigned
    /\ signed' = signed + 1
    /\ Suspend(w, "save", [call[w] EXCEPT !.statement = Restated(call[w])])
    /\ UNCHANGED <<now, files, slips, told>>

\* The right has been read.  A statement that is not authentic is not signed anew.
Sign(w) ==
    /\ at[w] = "sign" /\ signed < MaxSigned
    /\ IF Authentic(call[w].statement, call[w].right)
       THEN /\ Suspend(w, "save", [call[w] EXCEPT !.statement = Restated(call[w])])
            /\ signed' = signed + 1
       ELSE Suspend(w, "idle", None) /\ UNCHANGED signed
    /\ UNCHANGED <<now, files, slips, told>>

WrittenAt(site) == IF site = "host" THEN "store" ELSE "repo"

Filed(w) == [files EXCEPT ![WrittenAt(call[w].site)][call[w].right] = call[w].statement]

\* The issuer is told that it is on file, and goes by it for what the call was about.
Tell(c) ==
    told' = IF c.site = "desk" THEN told
            ELSE [told EXCEPT ![c.right] =
                   [fees |-> IF c.kind = "describe" THEN @.fees ELSE c.fees,
                    text |-> IF c.kind = "settle" THEN @.text ELSE c.text]]

Save(w) ==
    /\ at[w] = "save"
    /\ \/ files' = Filed(w) /\ Tell(call[w])
       \/ /\ SetFails /\ call[w].site = "host"
          /\ files' \in {files, Filed(w)}
          /\ told' = [told EXCEPT ![call[w].right] = Nothing]
    /\ Suspend(w, "idle", None)
    /\ UNCHANGED <<now, signed, slips>>

\* The contract cannot be read, or the call is cut off.
Abandon(w) ==
    /\ at[w] # "idle"
    /\ Suspend(w, "idle", None)
    /\ UNCHANGED <<now, files, signed, slips, told>>

-----------------------------------------------------------------------------
(* The files: shipped by a deployment, copied under a wrong name, edited.   *)

Deploy ==
    /\ files' = [files EXCEPT !["shipped"] = files["repo"]]
    /\ UNCHANGED <<now, at, call, signed, slips, told>>

Slip(r) ==
    /\ files["repo"][r] # None
    /\ slips < MaxSlips /\ slips' = slips + 1
    /\ UNCHANGED <<now, at, call, signed, told>>

Misfile(r, q) ==
    /\ Slip(r)
    /\ files' = [files EXCEPT !["repo"][q] = files["repo"][r]]

Edit(r, q) ==
    /\ Slip(r)
    /\ files' = [files EXCEPT !["repo"][r].right = q, !["repo"][r].sound = FALSE]

Tick ==
    /\ now < MaxNow
    /\ now' = now + 1
    /\ UNCHANGED <<files, at, call, signed, slips, told>>

-----------------------------------------------------------------------------
Step(w) ==
    \/ \E site \in Sites, r \in Rights :
         \/ \E fees \in BOOLEAN, text \in Texts : Attest(w, site, r, fees, text)
         \/ \E fees \in BOOLEAN : Restate(w, "settle", site, r, fees, None)
         \/ \E text \in Texts : Restate(w, "describe", site, r, None, text)
    \/ Load(w) \/ Sign(w) \/ Save(w) \/ Abandon(w)

Next ==
    \/ \E w \in Workers : Step(w)
    \/ Deploy \/ Tick
    \/ \E r, q \in Rights : Misfile(r, q) \/ Edit(r, q)

Spec == Init /\ [][Next]_vars

-----------------------------------------------------------------------------
TypeOK ==
    /\ now \in Nat /\ signed \in Nat /\ slips \in Nat
    /\ files \in [Places -> [Rights -> Statement \cup {None}]]
    /\ at \in [Workers -> {"idle", "load", "sign", "save"}]
    /\ call \in [Workers -> Call \cup {None}]
    /\ \A w \in Workers :
          /\ at[w] # "idle" => call[w] # None
          /\ at[w] \in {"sign", "save"} => call[w].statement # None
          /\ at[w] \in {"load", "sign"} => call[w].kind # "attest"
          /\ call[w] # None =>
                /\ (call[w].fees = None => call[w].kind = "describe")
                /\ (call[w].text = None => call[w].kind = "settle")
    /\ told \in [Rights -> [fees : BOOLEAN \cup {None}, text : Texts \cup {None}]]

\* Wherever it is kept, a statement that is the issuer's own is about the record
\* of the right it names: a file under a wrong name is never signed anew under that
\* name (settle-fees/route.ts, lines 159-161; describe.ts, 125-127).
NothingIsLaundered ==
    \A p \in Places, r \in Rights :
        LET s == files[p][r] IN s # None /\ s.sound => s.record = RecordOf[s.right]

\* What the registry shows about a right is about its record, whichever copy it
\* falls back to, whatever was filed where, and still to be relied on.
ShownIsOfItsRight ==
    \A r \in Rights, reachable \in BOOLEAN :
        LET s == Shown(r, reachable)
        IN s # None => s.record = RecordOf[r] /\ now < s.until

\* Settling fees does not undo a description and describing does not undo a
\* settlement: in the store is what the issuer was last told of each.
LastWordStands ==
    \A r \in Rights :
        LET s == files["store"][r]
        IN /\ told[r].fees # None => s # None /\ s.fees = told[r].fees
           /\ told[r].text # None => s # None /\ s.text = told[r].text

\* attestation-store.ts, lines 51-52: "whatever was written since the build wins over
\* what came with it"; docs/VERCEL.md, lines 55-59: the signed file is committed,
\* "Vercel rebuilds", "the registry shows it".  So what is shown is never older than
\* what shipped.
RebuiltIsShown ==
    \A r \in Rights :
        Authentic(files["shipped"][r], r) =>
            Shown(r, TRUE) # None /\ Shown(r, TRUE).no >= files["shipped"][r].no
=============================================================================
