------------------------- MODULE AttestationsProofs -------------------------
(***************************************************************************)
(* However calls interleave and whatever the store and the files suffer,   *)
(* no record is signed under another right, or shown for one.  With one    *)
(* call at a time, the issuer's last word on a right stays.                *)
(***************************************************************************)
EXTENDS Attestations, TLAPS

Honest(s) == s # None /\ s.sound => s.record = RecordOf[s.right]

IInv ==
    /\ TypeOK
    /\ \A p \in Places, r \in Rights : Honest(files[p][r])
    /\ \A w \in Workers : call[w] # None => Honest(call[w].statement)

-----------------------------------------------------------------------------
(* IInv is inductive: one lemma per action                                  *)

LEMMA InitInv == Init => IInv
<1> SUFFICES ASSUME Init PROVE IInv
    OBVIOUS
<1>1. TypeOK
    BY DEF Init, TypeOK, Nothing
<1> QED
    BY <1>1 DEF IInv, Init, Honest

\* A suspended call has a well-typed call, and whatever it goes on with is too.
LEMMA SuspendInv ==
    ASSUME IInv, NEW w \in Workers, NEW place \in {"load", "sign", "save"}, NEW c \in Call,
           Suspend(w, place, c), UNCHANGED <<now, files, slips, told>>, signed' \in Nat,
           place \in {"sign", "save"} => c.statement # None,
           place \in {"load", "sign"} => c.kind # "attest",
           c.fees = None => c.kind = "describe",
           c.text = None => c.kind = "settle",
           Honest(c.statement)
    PROVE  IInv'
<1> USE AttestationsAssumption
<1>1. c # None
    OBVIOUS
<1>2. TypeOK'
    BY <1>1, SMT DEF IInv, TypeOK, Suspend
<1> QED
    BY <1>2 DEF IInv, TypeOK, Suspend, Honest

LEMMA EndInv ==
    ASSUME IInv, NEW w \in Workers, Suspend(w, "idle", None),
           UNCHANGED <<now, signed, slips>>,
           files' \in [Places -> [Rights -> Statement \cup {None}]],
           \A p \in Places, r \in Rights : Honest(files'[p][r]),
           told' \in [Rights -> [fees : BOOLEAN \cup {None}, text : Texts \cup {None}]]
    PROVE  IInv'
<1>1. TypeOK'
    BY SMT DEF IInv, TypeOK, Suspend
<1> QED
    BY <1>1 DEF IInv, TypeOK, Suspend, Honest

LEMMA AttestInv ==
    ASSUME IInv, NEW w \in Workers, NEW site \in Sites, NEW r \in Rights,
           NEW fees \in BOOLEAN, NEW text \in Texts, Attest(w, site, r, fees, text)
    PROVE  IInv'
<1> USE AttestationsAssumption
<1> DEFINE s == [right |-> r, record |-> RecordOf[r], text |-> text, fees |-> fees,
                 until |-> now + Life, sound |-> TRUE, no |-> signed + 1]
           c == [kind |-> "attest", site |-> site, right |-> r, fees |-> fees, text |-> text,
                 statement |-> s]
<1>0. RecordOf[r] \in Records /\ now + Life \in Nat /\ signed + 1 \in Nat
    BY DEF IInv, TypeOK
<1>1. s \in Statement /\ s # None /\ Honest(s)
  <2>1. s \in Statement
      BY <1>0 DEF Statement
  <2> QED
      BY <2>1 DEF Honest
<1>2. c \in Call /\ c.statement = s /\ c.fees # None /\ c.text # None
    BY <1>1 DEF Call, Kinds
<1>3. Suspend(w, "save", c) /\ UNCHANGED <<now, files, slips, told>> /\ signed' \in Nat
    BY DEF Attest, IInv, TypeOK
<1> HIDE DEF c, s
<1> QED
    BY <1>1, <1>2, <1>3, SuspendInv

LEMMA RestateInv ==
    ASSUME IInv, NEW w \in Workers, NEW kind \in {"settle", "describe"}, NEW site \in Sites,
           NEW r \in Rights, NEW fees \in BOOLEAN \cup {None}, NEW text \in Texts \cup {None},
           fees = None => kind = "describe", text = None => kind = "settle",
           Restate(w, kind, site, r, fees, text)
    PROVE  IInv'
<1> USE AttestationsAssumption
<1> DEFINE c == [kind |-> kind, site |-> site, right |-> r, fees |-> fees,
                 text |-> text, statement |-> None]
<1>1. /\ c \in Call /\ c.statement = None /\ c.kind # "attest"
      /\ c.fees = None => c.kind = "describe"
      /\ c.text = None => c.kind = "settle"
    BY DEF Call, Kinds
<1>2. Suspend(w, "load", c) /\ UNCHANGED <<now, files, slips, told>> /\ signed' \in Nat
    BY DEF Restate, IInv, TypeOK
<1>3. Honest(c.statement)
    BY <1>1 DEF Honest
<1> HIDE DEF c
<1> QED
    BY <1>1, <1>2, <1>3, SuspendInv

LEMMA LoadInv == ASSUME IInv, NEW w \in Workers, Load(w) PROVE IInv'
<1> USE AttestationsAssumption
<1>1. PICK reachable \in {TRUE, ~GetFails} :
         LET existing == OnFile(call[w].site, call[w].right, reachable)
         IN IF existing = None THEN Suspend(w, "idle", None)
            ELSE Suspend(w, "sign", [call[w] EXCEPT !.statement = existing])
    BY DEF Load
<1> DEFINE existing == OnFile(call[w].site, call[w].right, reachable)
           c == [call[w] EXCEPT !.statement = existing]
<1>2. call[w] \in Call /\ call[w].kind # "attest"
      /\ (call[w].fees = None => call[w].kind = "describe")
      /\ (call[w].text = None => call[w].kind = "settle")
    BY DEF Load, IInv, TypeOK
<1>3. call[w].right \in Rights
    BY <1>2 DEF Call
<1>4. existing \in Statement \cup {None} /\ Honest(existing)
    BY <1>3 DEF OnFile, IInv, TypeOK, Places
<1>5. UNCHANGED <<now, files, signed, slips, told>> /\ signed \in Nat
    BY DEF Load, IInv, TypeOK
<1>6. CASE existing = None
    BY <1>1, <1>5, <1>6, EndInv DEF IInv, TypeOK
<1>7. CASE existing # None
  <2>1. /\ c \in Call /\ c.statement = existing /\ c.kind = call[w].kind
        /\ c.fees = call[w].fees /\ c.text = call[w].text
      BY <1>2, <1>4 DEF Call
  <2>2. Suspend(w, "sign", c)
      BY <1>1, <1>7
  <2> HIDE DEF c, existing
  <2> QED
      BY <1>2, <1>4, <1>5, <1>7, <2>1, <2>2, SuspendInv
<1> QED
    BY <1>6, <1>7

LEMMA SignInv == ASSUME IInv, NEW w \in Workers, Sign(w) PROVE IInv'
<1> USE AttestationsAssumption
<1> DEFINE s == Restated(call[w])
           c == [call[w] EXCEPT !.statement = s]
<1>1. /\ call[w] \in Call /\ call[w].kind # "attest" /\ call[w].statement \in Statement
      /\ (call[w].fees = None => call[w].kind = "describe")
      /\ (call[w].text = None => call[w].kind = "settle")
      /\ Honest(call[w].statement) /\ call[w] # None
    BY DEF Sign, IInv, TypeOK, Call
<1>2. CASE Authentic(call[w].statement, call[w].right)
  <2>1. s \in Statement
    <3>1. call[w].right \in Rights /\ call[w].statement.record \in Records
        BY <1>1 DEF Call, Statement
    <3>2. (IF call[w].kind = "describe" THEN call[w].text ELSE call[w].statement.text) \in Texts
        BY <1>1 DEF Call, Statement
    <3>3. (IF call[w].kind = "settle" THEN call[w].fees ELSE call[w].statement.fees) \in BOOLEAN
        BY <1>1 DEF Call, Statement
    <3>4. now + Life \in Nat /\ signed + 1 \in Nat
        BY DEF IInv, TypeOK
    <3> QED
        BY <3>1, <3>2, <3>3, <3>4 DEF Restated, Statement
  <2>2. Honest(s) /\ s # None
    <3>1. call[w].statement.record = RecordOf[call[w].right]
        BY <1>1, <1>2 DEF Authentic, Honest
    <3> QED
        BY <2>1, <3>1 DEF Restated, Honest
  <2>3. /\ c \in Call /\ c.statement = s /\ c.kind = call[w].kind
        /\ c.fees = call[w].fees /\ c.text = call[w].text
      BY <1>1, <2>1 DEF Call
  <2>4. Suspend(w, "save", c) /\ UNCHANGED <<now, files, slips, told>> /\ signed' \in Nat
      BY <1>2 DEF Sign, IInv, TypeOK
  <2> HIDE DEF c, s
  <2> QED
      BY <1>1, <2>2, <2>3, <2>4, SuspendInv
<1>3. CASE ~Authentic(call[w].statement, call[w].right)
    BY <1>3, EndInv DEF Sign, IInv, TypeOK
<1> QED
    BY <1>2, <1>3

\* What a call files is honest, where it files it and everywhere else.
LEMMA FiledHonest ==
    ASSUME IInv, NEW w \in Workers, at[w] = "save"
    PROVE  /\ Filed(w) \in [Places -> [Rights -> Statement \cup {None}]]
           /\ \A p \in Places, r \in Rights : Honest(Filed(w)[p][r])
<1>1. /\ call[w] \in Call /\ call[w].statement \in Statement
      /\ Honest(call[w].statement) /\ call[w].right \in Rights
    BY DEF IInv, TypeOK, Call
<1>2. WrittenAt(call[w].site) \in Places
    BY DEF WrittenAt, Places
<1> QED
    BY <1>1, <1>2 DEF Filed, IInv, TypeOK

LEMMA SaveInv == ASSUME IInv, NEW w \in Workers, Save(w) PROVE IInv'
<1> USE AttestationsAssumption
<1>1. call[w] \in Call /\ call[w].right \in Rights
    BY DEF Save, IInv, TypeOK, Call
<1>2. files' \in {files, Filed(w)}
    BY DEF Save
<1>3. /\ files' \in [Places -> [Rights -> Statement \cup {None}]]
      /\ \A p \in Places, r \in Rights : Honest(files'[p][r])
    BY <1>2, FiledHonest DEF Save, IInv, TypeOK
<1>4. told' \in [Rights -> [fees : BOOLEAN \cup {None}, text : Texts \cup {None}]]
  <2> DEFINE T == [fees : BOOLEAN \cup {None}, text : Texts \cup {None}]
  <2>1. Nothing \in T
      BY DEF Nothing
  <2>2. told \in [Rights -> T]
      BY DEF IInv, TypeOK
  <2>3. CASE Tell(call[w])
    <3>1. told[call[w].right] \in T
        BY <1>1, <2>2
    <3> DEFINE v == [fees |-> IF call[w].kind = "describe" THEN told[call[w].right].fees
                              ELSE call[w].fees,
                     text |-> IF call[w].kind = "settle" THEN told[call[w].right].text
                              ELSE call[w].text]
    <3>2. v \in T
        BY <1>1, <3>1 DEF Call
    <3>3. told' = told \/ told' = [told EXCEPT ![call[w].right] = v]
        BY <2>3 DEF Tell
    <3> HIDE DEF T, v
    <3>4. told' \in [Rights -> T]
        BY <2>2, <3>2, <3>3
    <3> QED
        BY <3>4 DEF T
  <2>4. CASE told' = [told EXCEPT ![call[w].right] = Nothing]
      BY <2>1, <2>2, <2>4
  <2> QED
      BY <2>3, <2>4 DEF Save
<1> QED
    BY <1>3, <1>4, EndInv DEF Save

LEMMA AbandonInv == ASSUME IInv, NEW w \in Workers, Abandon(w) PROVE IInv'
<1> QED
    BY EndInv DEF Abandon, IInv, TypeOK

\* What happens to the files by hand or by the clock leaves the calls alone.
LEMMA FilesInv ==
    ASSUME IInv, UNCHANGED <<at, call, told>>, now' \in Nat, signed' \in Nat, slips' \in Nat,
           files' \in [Places -> [Rights -> Statement \cup {None}]],
           \A p \in Places, r \in Rights : Honest(files'[p][r])
    PROVE  IInv'
<1>1. TypeOK'
    BY DEF IInv, TypeOK
<1> QED
    BY <1>1 DEF IInv, Honest

LEMMA DeployInv == ASSUME IInv, Deploy PROVE IInv'
<1>1. /\ files' \in [Places -> [Rights -> Statement \cup {None}]]
      /\ \A p \in Places, r \in Rights : Honest(files'[p][r])
    BY DEF Deploy, IInv, TypeOK, Places
<1> QED
    BY <1>1, FilesInv DEF Deploy, IInv, TypeOK

LEMMA MisfileInv == ASSUME IInv, NEW r \in Rights, NEW q \in Rights, Misfile(r, q) PROVE IInv'
<1>1. /\ files' \in [Places -> [Rights -> Statement \cup {None}]]
      /\ \A p \in Places, x \in Rights : Honest(files'[p][x])
    BY DEF Misfile, IInv, TypeOK, Places
<1> QED
    BY <1>1, FilesInv DEF Misfile, Slip, IInv, TypeOK

LEMMA EditInv == ASSUME IInv, NEW r \in Rights, NEW q \in Rights, Edit(r, q) PROVE IInv'
<1> USE AttestationsAssumption
<1> DEFINE s == [files["repo"][r] EXCEPT !.right = q, !.sound = FALSE]
<1>1. files["repo"][r] \in Statement
    BY DEF Edit, Slip, IInv, TypeOK, Places
<1>2. s \in Statement /\ s.sound = FALSE
    BY <1>1 DEF Statement
<1>3. Honest(s)
    BY <1>2 DEF Honest
<1>4. files' = [files EXCEPT !["repo"] = [@ EXCEPT ![r] = s]]
    BY DEF Edit, IInv, TypeOK, Places
<1> DEFINE g == [files["repo"] EXCEPT ![r] = s]
<1> HIDE DEF s
<1>5. /\ g \in [Rights -> Statement \cup {None}]
      /\ \A x \in Rights : Honest(g[x])
    BY <1>2, <1>3 DEF IInv, TypeOK, Places
<1>6. files' = [files EXCEPT !["repo"] = g]
    BY <1>4
<1> HIDE DEF g
<1> DEFINE F == [Rights -> Statement \cup {None}]
<1>7. files \in [Places -> F] /\ \A p \in Places, x \in Rights : Honest(files[p][x])
    BY DEF IInv, TypeOK
<1>8. g \in F
    BY <1>5
<1> HIDE DEF F
<1>9. files' \in [Places -> F] /\ \A p \in Places : files'[p] = g \/ files'[p] = files[p]
    BY <1>6, <1>7, <1>8
<1>10. ASSUME NEW p \in Places, NEW x \in Rights PROVE Honest(files'[p][x])
  <2>1. CASE files'[p] = g
      BY <1>5, <2>1
  <2>2. CASE files'[p] = files[p]
      BY <1>7, <2>2
  <2> QED
      BY <1>9, <2>1, <2>2
<1>11. files' \in [Places -> [Rights -> Statement \cup {None}]]
    BY <1>9 DEF F
<1>12. UNCHANGED <<at, call, told, now, signed>> /\ slips' = slips + 1
    BY DEF Edit, Slip
<1>13. now' \in Nat /\ signed' \in Nat /\ slips' \in Nat
    BY <1>12 DEF IInv, TypeOK
<1> QED
    BY <1>10, <1>11, <1>12, <1>13, FilesInv

LEMMA NextInv == IInv /\ [Next]_vars => IInv'
<1> SUFFICES ASSUME IInv, [Next]_vars PROVE IInv'
    OBVIOUS
<1>1. ASSUME NEW w \in Workers, Step(w) PROVE IInv'
  <2>1. ASSUME NEW site \in Sites, NEW r \in Rights, NEW fees \in BOOLEAN, NEW text \in Texts,
               Attest(w, site, r, fees, text)
        PROVE  IInv'
      BY <2>1, AttestInv
  <2>2. ASSUME NEW site \in Sites, NEW r \in Rights, NEW fees \in BOOLEAN,
               Restate(w, "settle", site, r, fees, None)
        PROVE  IInv'
      BY <2>2, RestateInv, AttestationsAssumption
  <2>3. ASSUME NEW site \in Sites, NEW r \in Rights, NEW text \in Texts,
               Restate(w, "describe", site, r, None, text)
        PROVE  IInv'
      BY <2>3, RestateInv, AttestationsAssumption
  <2> QED
      BY <1>1, <2>1, <2>2, <2>3, LoadInv, SignInv, SaveInv, AbandonInv DEF Step
<1>2. CASE Deploy
    BY <1>2, DeployInv
<1>3. CASE Tick
    BY <1>3, FilesInv DEF Tick, IInv, TypeOK
<1>4. ASSUME NEW r \in Rights, NEW q \in Rights, Misfile(r, q) \/ Edit(r, q) PROVE IInv'
    BY <1>4, MisfileInv, EditInv
<1>5. CASE UNCHANGED vars
    BY <1>5, FilesInv DEF vars, IInv, TypeOK
<1> QED
    BY <1>1, <1>2, <1>3, <1>4, <1>5 DEF Next

LEMMA IInvInvariant == Spec => []IInv
<1> QED
    BY InitInv, NextInv, PTL DEF Spec

-----------------------------------------------------------------------------
\* The types of the files and of every suspended call.
THEOREM TypeCorrect == Spec => []TypeOK
<1>1. IInv => TypeOK
    BY DEF IInv
<1> QED
    BY IInvInvariant, <1>1, PTL

\* Whatever is misfiled, edited, restated at the same time or read from an older copy,
\* the issuer's signature is never put on one week's record under another's id.
THEOREM SignaturesAreTrue == Spec => []NothingIsLaundered
<1>1. IInv => NothingIsLaundered
    BY DEF IInv, Honest, NothingIsLaundered
<1> QED
    BY IInvInvariant, <1>1, PTL

\* What the registry shows about a right is about the record it was issued for.
THEOREM ShownIsTrue == Spec => []ShownIsOfItsRight
<1>1. ASSUME IInv, NEW r \in Rights, NEW reachable \in BOOLEAN, Shown(r, reachable) # None
      PROVE  Shown(r, reachable).record = RecordOf[r] /\ now < Shown(r, reachable).until
  <2> DEFINE s == OnFile("host", r, reachable)
  <2>1. Authentic(s, r) /\ Shown(r, reachable) = s
      BY <1>1 DEF Shown
  <2>2. Honest(s)
      BY <1>1 DEF OnFile, IInv, Places
  <2> QED
      BY <2>1, <2>2 DEF Authentic, Honest
<1>2. IInv => ShownIsOfItsRight
    BY <1>1 DEF ShownIsOfItsRight
<1> QED
    BY IInvInvariant, <1>2, PTL
-----------------------------------------------------------------------------
(* One call at a time                                                       *)

\* One call at a time, and a store that answers when it is read
OneAtATime == ~GetFails /\ \A v, w \in Workers : v = w

\* The word the issuer has on a right is in the statement.
Keeps(s, word) ==
    /\ word.fees # None => s # None /\ s.fees = word.fees
    /\ word.text # None => s # None /\ s.text = word.text

\* What a call that restates has read of the store, and what any call is to write, keeps
\* the issuer's last word, but for what the call itself is about.
CallKeeps(w) ==
    LET c == call[w]
        word == told[c.right]
    IN /\ at[w] = "sign" /\ c.site = "host" => Keeps(c.statement, word)
       /\ at[w] = "save" =>
            /\ c.kind # "describe" => c.statement.fees = c.fees
            /\ c.kind # "settle" => c.statement.text = c.text
            /\ c.site = "host" =>
                 Keeps(c.statement,
                       [fees |-> IF c.kind = "describe" THEN word.fees ELSE c.fees,
                        text |-> IF c.kind = "settle" THEN word.text ELSE c.text])

WordInv ==
    /\ \A r \in Rights : Keeps(files["store"][r], told[r])
    /\ \A w \in Workers : CallKeeps(w)

\* A call that goes on or ends, and leaves store and word alone, is the only one.
LEMMA OnlyCall ==
    ASSUME OneAtATime, WordInv, NEW w \in Workers, CallKeeps(w)',
           UNCHANGED told, files'["store"] = files["store"]
    PROVE  WordInv'
BY DEF OneAtATime, WordInv

LEMMA EndedCall ==
    ASSUME IInv, NEW w \in Workers, Suspend(w, "idle", None) PROVE CallKeeps(w)'
<1>1. at'[w] = "idle"
    BY DEF Suspend, IInv, TypeOK
<1> QED
    BY <1>1 DEF CallKeeps

LEMMA StepKeepsWord ==
    ASSUME OneAtATime, IInv, WordInv, NEW w \in Workers, Step(w)
    PROVE  WordInv'
<1> USE AttestationsAssumption
<1>1. ASSUME NEW site \in Sites, NEW r \in Rights, NEW fees \in BOOLEAN, NEW text \in Texts,
             Attest(w, site, r, fees, text)
      PROVE  WordInv'
  <2>1. /\ at'[w] = "save" /\ UNCHANGED <<files, told>>
        /\ call'[w] = [kind |-> "attest", site |-> site, right |-> r, fees |-> fees,
                       text |-> text,
                       statement |-> [right |-> r, record |-> RecordOf[r], text |-> text,
                                      fees |-> fees, until |-> now + Life, sound |-> TRUE,
                                      no |-> signed + 1]]
      BY <1>1 DEF Attest, Suspend, IInv, TypeOK
  <2>2. call'[w].statement # None
      <3>1. call'[w].statement \in Statement
          BY <2>1 DEF Statement, IInv, TypeOK
      <3> QED
          BY <3>1
  <2>3. CallKeeps(w)'
      BY <2>1, <2>2 DEF CallKeeps, Keeps
  <2> QED
      BY <2>1, <2>3, OnlyCall
<1>2. ASSUME NEW kind, NEW site, NEW r, NEW fees, NEW text, Restate(w, kind, site, r, fees, text)
      PROVE  WordInv'
  <2>1. at'[w] = "load" /\ UNCHANGED <<files, told>>
      BY <1>2 DEF Restate, Suspend, IInv, TypeOK
  <2>2. CallKeeps(w)'
      BY <2>1 DEF CallKeeps
  <2> QED
      BY <2>1, <2>2, OnlyCall
<1>3. CASE Load(w)
  <2> DEFINE existing == OnFile(call[w].site, call[w].right, TRUE)
  <2>1. /\ UNCHANGED <<files, told>>
        /\ IF existing = None THEN Suspend(w, "idle", None)
           ELSE Suspend(w, "sign", [call[w] EXCEPT !.statement = existing])
      BY <1>3 DEF Load, OneAtATime
  <2>2. call[w] \in Call /\ call[w].right \in Rights
      BY <1>3 DEF Load, IInv, TypeOK, Call
  <2>3. CASE existing # None
    <3>1. call[w].site = "host" => Keeps(existing, told[call[w].right])
        BY <2>2 DEF OnFile, WordInv, Keeps
    <3> HIDE DEF existing
    <3>2. /\ at'[w] = "sign" /\ call'[w].statement = existing
          /\ call'[w].site = call[w].site /\ call'[w].right = call[w].right
        BY <2>1, <2>2, <2>3 DEF Suspend, IInv, TypeOK, Call
    <3>3. CallKeeps(w)'
        BY <2>1, <3>1, <3>2 DEF CallKeeps, Keeps
    <3> QED
        BY <2>1, <3>3, OnlyCall
  <2> QED
      BY <2>1, <2>3, EndedCall, OnlyCall
<1>4. CASE Sign(w)
  <2> DEFINE c == call[w]
             s == Restated(c)
  <2>1. /\ c \in Call /\ c.right \in Rights /\ c.statement \in Statement
        /\ c.kind \in {"settle", "describe"} /\ at[w] = "sign"
        /\ UNCHANGED <<files, told>>
      BY <1>4 DEF Sign, IInv, TypeOK, Call, Kinds
  <2>2. CASE Suspend(w, "save", [c EXCEPT !.statement = s])
    <3>1. /\ at'[w] = "save" /\ call'[w].statement = s /\ call'[w].kind = c.kind
          /\ call'[w].site = c.site /\ call'[w].right = c.right
          /\ call'[w].fees = c.fees /\ call'[w].text = c.text
        BY <2>1, <2>2 DEF Suspend, IInv, TypeOK, Call
    <3>2. /\ s.text = IF c.kind = "describe" THEN c.text ELSE c.statement.text
          /\ s.fees = IF c.kind = "settle" THEN c.fees ELSE c.statement.fees
        BY DEF Restated
    <3>3. s # None
        <4>1. s \in Statement
            BY <1>4, <2>2, <3>1, SignInv DEF IInv, TypeOK, Call
        <4> QED
            BY <4>1
    <3>4. c.site = "host" => Keeps(c.statement, told[c.right])
        BY <2>1 DEF WordInv, CallKeeps
    <3>5. CallKeeps(w)'
        BY <2>1, <3>1, <3>2, <3>3, <3>4 DEF CallKeeps, Keeps
    <3> QED
        BY <2>1, <3>5, OnlyCall
  <2> QED
      BY <1>4, <2>1, <2>2, EndedCall, OnlyCall DEF Sign
<1>5. CASE Save(w)
  <2> DEFINE c == call[w]
             word == [fees |-> IF c.kind = "describe" THEN told[c.right].fees ELSE c.fees,
                      text |-> IF c.kind = "settle" THEN told[c.right].text ELSE c.text]
  <2>1. /\ c \in Call /\ c.right \in Rights /\ at[w] = "save"
        /\ c.site \in {"host", "desk"} /\ Suspend(w, "idle", None)
      BY <1>5 DEF Save, IInv, TypeOK, Call, Sites
  <2>2. /\ files \in [Places -> [Rights -> Statement \cup {None}]]
        /\ told \in [Rights -> [fees : BOOLEAN \cup {None}, text : Texts \cup {None}]]
      BY DEF IInv, TypeOK
  <2>3. \A v \in Workers : CallKeeps(v)'
      BY <2>1, EndedCall DEF OneAtATime
  <2>4. CASE c.site = "desk"
    <3>1. files'["store"] = files["store"] /\ told' = told
        BY <1>5, <2>2, <2>4 DEF Save, Filed, WrittenAt, Tell, Places
    <3> QED
        BY <2>3, <3>1 DEF WordInv
  <2>5. CASE c.site = "host"
    <3>1. Keeps(c.statement, word)
        BY <2>1, <2>5 DEF WordInv, CallKeeps
    <3>2. Filed(w)["store"] = [files["store"] EXCEPT ![c.right] = c.statement]
        BY <2>2, <2>5 DEF Filed, WrittenAt, Places
    <3>3. CASE files' = Filed(w) /\ Tell(c)
      <4>1. told' = [told EXCEPT ![c.right] = word]
          BY <2>5, <3>3 DEF Tell
      <4> HIDE DEF c, word
      <4> QED
          BY <2>1, <2>2, <2>3, <3>1, <3>2, <3>3, <4>1 DEF WordInv, Places
    <3>4. CASE files' \in {files, Filed(w)} /\ told' = [told EXCEPT ![c.right] = Nothing]
      <4>1. \A r \in Rights : Keeps(files'["store"][r], told'[r])
        <5>1. ASSUME NEW r \in Rights, r # c.right PROVE Keeps(files'["store"][r], told'[r])
            BY <2>1, <2>2, <3>2, <3>4, <5>1 DEF WordInv, Places
        <5>2. Keeps(files'["store"][c.right], told'[c.right])
            BY <2>1, <2>2, <3>4 DEF Keeps, Nothing
        <5> QED
            BY <5>1, <5>2
      <4> QED
          BY <2>3, <4>1 DEF WordInv
    <3> QED
        BY <1>5, <3>3, <3>4 DEF Save
  <2> QED
      BY <2>1, <2>4, <2>5
<1>6. CASE Abandon(w)
    BY <1>6, EndedCall, OnlyCall DEF Abandon
<1> QED
    BY <1>1, <1>2, <1>3, <1>4, <1>5, <1>6 DEF Step

LEMMA NextKeepsWord ==
    ASSUME OneAtATime, IInv, WordInv, [Next]_vars PROVE WordInv'
<1>1. CASE UNCHANGED vars \/ Tick
    BY <1>1 DEF vars, Tick, WordInv, CallKeeps
<1>2. ASSUME UNCHANGED <<at, call, told>>, files'["store"] = files["store"] PROVE WordInv'
    BY <1>2 DEF WordInv, CallKeeps
<1>3. CASE Deploy
    BY <1>2, <1>3 DEF Deploy, IInv, TypeOK, Places
<1>4. ASSUME NEW r \in Rights, NEW q \in Rights, Misfile(r, q) \/ Edit(r, q) PROVE WordInv'
    BY <1>2, <1>4 DEF Misfile, Edit, Slip, IInv, TypeOK, Places
<1> QED
    BY <1>1, <1>3, <1>4, StepKeepsWord DEF Next

\* With one call at a time, what the issuer was last told is on file is on file: settling
\* does not undo a description, or describing a settlement, although each signs the whole
\* statement anew and writes may fail half-way.
THEOREM TheLastWordIsKept ==
    ASSUME OneAtATime PROVE Spec => []LastWordStands
<1>1. Init => WordInv
    BY DEF Init, Nothing, WordInv, CallKeeps, Keeps
<1>2. IInv /\ WordInv /\ [Next]_vars => WordInv'
    BY NextKeepsWord
<1>3. WordInv => LastWordStands
    BY DEF WordInv, Keeps, LastWordStands
<1> QED
    BY <1>1, <1>2, <1>3, IInvInvariant, PTL DEF Spec
=============================================================================
