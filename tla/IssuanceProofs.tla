--------------------------- MODULE IssuanceProofs ---------------------------
(***************************************************************************)
(* What holds of issuance for any number of accounts, handlers and weeks,  *)
(* however the handlers interleave, whichever reads and writes of the      *)
(* store fail and however late a transaction settles: an ask on record as  *)
(* issued was, and nothing is attested that is not on chain.  And what     *)
(* holds besides with one handler at a time, which waits for its           *)
(* transaction: an id names one week wherever it is written, and a secret  *)
(* is spent once.                                                          *)
(***************************************************************************)
EXTENDS Issuance, WellFoundedInduction, TLAPS

-----------------------------------------------------------------------------
(* The inductive invariant *)

OnChain(a, h) == \E i \in DOMAIN weeks : weeks[i].owner = a /\ weeks[i].hash = h

\* Every list, stored or held by a worker, tells the truth about what is issued.
Honest(f) ==
    /\ EntryList(f)
    /\ \A id \in DOMAIN f : f[id].status = "issued" => OnChain(f[id].by, f[id].hash)

\* The call's week is on chain, under the id the call read or a later one.
Minted(c) == \E i \in DOMAIN weeks : i >= c.right /\ weeks[i] = c.week

\* The ask a call closes is for the week it issues.
ClosesItsAsk(c) ==
    \/ c.request = 0
    \/ c.request \in DOMAIN made /\ made[c.request] = [by |-> c.week.owner, hash |-> c.week.hash]

\* The id a call read was the next one, or has been.
ReadRight(c) == c.right \in 1..(Len(weeks) + 1)

\* What a call has established at the await it is suspended in.
CallOK(place, c, l) ==
    /\ c \in Call
    /\ Honest(l)
    /\ place \in Issuing => c.week \in Week /\ ClosesItsAsk(c)
    /\ place \in {"build", "submit"} => ReadRight(c)
    /\ place = "poll" => c.tx \in DOMAIN sent /\ sent[c.tx] = c
    /\ place \in {"attest", "close"} => c.right >= 1 /\ Minted(c)

Places == {"idle", "save ask"} \cup Issuing

Shape ==
    /\ weeks \in Seq(Week)
    /\ sent \in Seq(Call)
    /\ included \in Seq([tx : Nat, successful : BOOLEAN])
    /\ made \in Seq([by : Accounts, hash : Hashes])
    /\ attestations \in [DOMAIN attestations -> Records]
    /\ answers \subseteq [hash : Hashes, note : BOOLEAN, weeks : Nat]
    /\ at \in [Workers -> Places]
    /\ call = [w \in Workers |-> call[w]] /\ list = [w \in Workers |-> list[w]]

\* A transaction was built for an id that had been read, and one that succeeded
\* issued its week.
Transactions ==
    /\ \A t \in DOMAIN sent : sent[t].week \in Week /\ ReadRight(sent[t])
    /\ \A k \in DOMAIN included :
          /\ included[k].tx \in DOMAIN sent
          /\ included[k].successful => Minted(sent[included[k].tx])

IInv ==
    /\ Shape
    /\ Transactions
    /\ Honest(issuance)
    /\ AttestedWeeksExist
    /\ \A w \in Workers : CallOK(at[w], call[w], list[w])

LEMMA IInvImplies == IInv => TypeOK /\ IssuedAsksHaveWeeks /\ AttestedWeeksExist
<1> SUFFICES ASSUME IInv PROVE TypeOK /\ IssuedAsksHaveWeeks /\ AttestedWeeksExist
  OBVIOUS
<1>1. call \in [Workers -> Call]
  BY DEF IInv, Shape, CallOK
<1>2. \A w \in Workers : EntryList(list[w]) /\ (at[w] \in Issuing => call[w].week \in Week)
  BY DEF IInv, CallOK, Honest
<1>3. EntryList(issuance) /\ IssuedAsksHaveWeeks
  BY DEF IInv, Honest, OnChain, IssuedAsksHaveWeeks
<1>4. /\ \A t \in DOMAIN sent : sent[t].week \in Week
      /\ \A k \in DOMAIN included : included[k].tx \in DOMAIN sent
  BY DEF IInv, Transactions
<1>5. TypeOK
  BY <1>1, <1>2, <1>3, <1>4 DEF IInv, Shape, Places, TypeOK
<1> QED
  BY <1>3, <1>5 DEF IInv

-----------------------------------------------------------------------------
(* The chain and the history only grow, and what a call has established     *)
(* stays so.                                                                *)

Grows ==
    /\ weeks' \in Seq(Week) /\ Len(weeks) <= Len(weeks')
    /\ \A i \in DOMAIN weeks : weeks'[i] = weeks[i]
    /\ sent' \in Seq(Call) /\ Len(sent) <= Len(sent')
    /\ \A t \in DOMAIN sent : sent'[t] = sent[t]
    /\ made' \in Seq([by : Accounts, hash : Hashes]) /\ Len(made) <= Len(made')
    /\ \A id \in DOMAIN made : made'[id] = made[id]

LEMMA DomainsGrow ==
    ASSUME Shape, Grows
    PROVE  /\ DOMAIN weeks \subseteq DOMAIN weeks' /\ DOMAIN sent \subseteq DOMAIN sent'
           /\ DOMAIN made \subseteq DOMAIN made'
           /\ Len(weeks) \in Nat /\ Len(weeks') \in Nat /\ Len(weeks) <= Len(weeks')
  BY DEF Shape, Grows

LEMMA MintedPersists ==
    ASSUME Shape, Grows, NEW c, Minted(c)
    PROVE  Minted(c)'
  BY DomainsGrow DEF Minted, Grows

LEMMA HonestPersists ==
    ASSUME Shape, Grows, NEW f, Honest(f)
    PROVE  Honest(f)'
<1>1. EntryList(f)'
  BY DomainsGrow DEF Honest, EntryList, Grows
<1>2. ASSUME NEW a, NEW h, OnChain(a, h) PROVE OnChain(a, h)'
  BY <1>2, DomainsGrow DEF OnChain, Grows
<1> QED
  BY <1>1, <1>2 DEF Honest

LEMMA CallPersists ==
    ASSUME Shape, Grows, NEW place, NEW c, NEW l, CallOK(place, c, l)
    PROVE  CallOK(place, c, l)'
<1>1. Honest(l)'
  BY HonestPersists DEF CallOK
<1>2. Minted(c) => Minted(c)'
  BY MintedPersists
<1>3. ReadRight(c) => ReadRight(c)'
  BY DomainsGrow DEF ReadRight
<1>4. ClosesItsAsk(c) => ClosesItsAsk(c)'
  BY DomainsGrow DEF ClosesItsAsk, Grows
<1>5. c.tx \in DOMAIN sent /\ sent[c.tx] = c => c.tx \in DOMAIN sent' /\ sent'[c.tx] = c
  BY DomainsGrow DEF Grows
<1> QED
  BY <1>1, <1>2, <1>3, <1>4, <1>5 DEF CallOK

\* A call that returned has established nothing.
LEMMA IdleOK == CallOK("idle", NoCall, << >>)
  BY DEF CallOK, NoCall, Call, Honest, EntryList, Entry, Issuing

-----------------------------------------------------------------------------
(* A step leaves the workers alone, or resumes one of them.                 *)

LEMMA HandlersStay ==
    ASSUME IInv, Grows, Shape', Transactions', Honest(issuance)', AttestedWeeksExist',
           UNCHANGED handlers
    PROVE  IInv'
<1>1. ASSUME NEW v \in Workers PROVE CallOK(at[v], call[v], list[v])'
  <2>1. PICK place, c, l : place = at[v] /\ c = call[v] /\ l = list[v]
    OBVIOUS
  <2>2. CallOK(place, c, l)'
    BY <2>1, CallPersists DEF IInv
  <2> QED
    BY <2>1, <2>2 DEF handlers
<1> QED
  BY <1>1 DEF IInv

LEMMA Resumed ==
    ASSUME IInv, Grows, Shape', Transactions', Honest(issuance)', AttestedWeeksExist',
           NEW w \in Workers, NEW place, NEW c, NEW l,
           Resume(w, place, c, l), CallOK(place, c, l)'
    PROVE  IInv'
<1>1. ASSUME NEW v \in Workers PROVE CallOK(at[v], call[v], list[v])'
  <2>1. CASE v = w
    BY <2>1 DEF Resume, IInv, Shape
  <2>2. CASE v # w
    <3>1. PICK p, d, k : p = at[v] /\ d = call[v] /\ k = list[v]
      OBVIOUS
    <3>2. CallOK(p, d, k)'
      BY <3>1, CallPersists DEF IInv
    <3> QED
      BY <2>2, <3>1, <3>2 DEF Resume, IInv, Shape
  <2> QED
    BY <2>1, <2>2
<1> QED
  BY <1>1 DEF IInv

LEMMA ResumeShape ==
    ASSUME Shape, NEW w \in Workers, NEW place \in Places, NEW c, NEW l, Resume(w, place, c, l)
    PROVE  /\ at' \in [Workers -> Places]
           /\ call' = [v \in Workers |-> call'[v]] /\ list' = [v \in Workers |-> list'[v]]
  BY DEF Shape, Resume

\* Whatever a list says, it says of the same ask as long as nothing is added.
LEMMA StoreStays ==
    ASSUME IInv, Grows, issuance' = issuance
    PROVE  Honest(issuance)'
<1>1. PICK f : f = issuance
  OBVIOUS
<1>2. Honest(f)'
  BY <1>1, HonestPersists DEF IInv
<1> QED
  BY <1>1, <1>2

\* A step of one worker that touches no other state.
LEMMA QuietlyResumed ==
    ASSUME IInv, UNCHANGED <<network, issuance, attestations, made, answers>>,
           NEW w \in Workers, NEW place \in Places, NEW c, NEW l,
           Resume(w, place, c, l), CallOK(place, c, l)
    PROVE  IInv'
<1>1. Grows
  BY DEF Grows, network, IInv, Shape
<1>2. Shape'
  BY ResumeShape DEF Shape, IInv, network
<1>3. Transactions' /\ AttestedWeeksExist'
  BY DEF IInv, network, Transactions, ReadRight, Minted, AttestedWeeksExist
<1>4. Honest(issuance)'
  BY <1>1, StoreStays
<1>5. CallOK(place, c, l)'
  BY <1>1, CallPersists DEF IInv
<1> QED
  BY <1>1, <1>2, <1>3, <1>4, <1>5, Resumed

LEMMA Returned ==
    ASSUME IInv, UNCHANGED <<network, issuance, attestations, made, answers>>,
           NEW w \in Workers, Return(w)
    PROVE  IInv'
<1>1. PICK c, l : c = NoCall /\ l = << >>
  OBVIOUS
<1> QED
  BY <1>1, IdleOK, QuietlyResumed DEF Return, Places

-----------------------------------------------------------------------------
(* The initial states *)

LEMMA InitIInv == Init => IInv
<1> SUFFICES ASSUME Init PROVE IInv
  OBVIOUS
<1>1. Shape
  BY DEF Init, Shape, Places
<1>2. Transactions /\ AttestedWeeksExist
  BY DEF Init, Transactions, AttestedWeeksExist
<1>3. Honest(issuance)
  BY DEF Init, Honest, EntryList
<1> QED
  BY <1>1, <1>2, <1>3, IdleOK DEF IInv, Init

-----------------------------------------------------------------------------
(* The network *)

LEMMA IncludeIInv ==
    ASSUME IInv, NEW t \in DOMAIN sent, Include(t)
    PROVE  IInv'
<1>1. PICK successful \in BOOLEAN :
        /\ included' = Append(included, [tx |-> t, successful |-> successful])
        /\ weeks' = IF successful THEN Append(weeks, sent[t].week) ELSE weeks
  BY DEF Include
<1>2. sent[t].week \in Week /\ ReadRight(sent[t]) /\ t \in Nat /\ sent[t] \in Call
  BY DEF IInv, Transactions, Shape
<1>3. weeks' \in Seq(Week) /\ included' \in Seq([tx : Nat, successful : BOOLEAN])
  BY <1>1, <1>2 DEF IInv, Shape
<1>4. Grows
  BY <1>1, <1>3 DEF Grows, IInv, Shape, Include
<1>5. Shape'
  BY <1>3 DEF IInv, Shape, Include, handlers
<1>6. PICK c, n : c = sent[t] /\ n = Len(weeks) + 1
  OBVIOUS
<1>7. successful => Minted(c)'
  <2>1. n \in Nat /\ c.right \in 1..n
    BY <1>2, <1>6 DEF IInv, Shape, ReadRight
  <2>2. successful => n \in DOMAIN weeks' /\ weeks'[n] = c.week
    BY <1>1, <1>2, <1>6 DEF IInv, Shape
  <2> QED
    BY <2>1, <2>2 DEF Minted
<1>8. Transactions'
  <2>1. ASSUME NEW u \in DOMAIN sent PROVE sent[u].week \in Week /\ ReadRight(sent[u])'
    <3>1. PICK d : d = sent[u]
      OBVIOUS
    <3>2. ReadRight(d) /\ sent[u].week \in Week
      BY <3>1 DEF IInv, Transactions
    <3> QED
      BY <1>4, <3>1, <3>2, DomainsGrow DEF ReadRight, IInv, Include
  <2>2. ASSUME NEW k \in DOMAIN included'
        PROVE  \E u \in DOMAIN sent :
                  included'[k].tx = u /\ (included'[k].successful => Minted(sent[u])')
    <3>1. CASE k \in DOMAIN included /\ included'[k] = included[k]
      <4>1. PICK u, d : u = included[k].tx /\ d = sent[u]
        OBVIOUS
      <4>2. u \in DOMAIN sent /\ (included[k].successful => Minted(d))
        BY <3>1, <4>1 DEF IInv, Transactions
      <4>3. Minted(d) => Minted(d)'
        BY <1>4, MintedPersists DEF IInv
      <4>4. sent' = sent
        BY DEF Include
      <4>5. Minted(d)' => Minted(sent[u])'
        BY <4>1, <4>4 DEF Minted
      <4> QED
        BY <3>1, <4>1, <4>2, <4>3, <4>5
    <3>2. CASE included'[k] = [tx |-> t, successful |-> successful]
      <4>1. sent' = sent
        BY DEF Include
      <4>2. Minted(c)' => Minted(sent[t])'
        BY <1>6, <4>1 DEF Minted
      <4> QED
        BY <1>7, <3>2, <4>2
    <3> QED
      BY <1>1, <2>2, <3>1, <3>2 DEF IInv, Shape
  <2>3. sent' = sent
    BY DEF Include
  <2> QED
    BY <2>1, <2>2, <2>3 DEF Transactions
<1>9. AttestedWeeksExist'
  BY <1>4, DomainsGrow DEF IInv, AttestedWeeksExist, Grows, Include
<1>10. Honest(issuance)'
  BY <1>4, StoreStays DEF Include
<1> QED
  BY <1>4, <1>5, <1>8, <1>9, <1>10, HandlersStay DEF Include

-----------------------------------------------------------------------------
(* Entering and closing asks *)

LEMMA LoadedHonest ==
    ASSUME IInv, NEW loaded \in Loads
    PROVE  Honest(loaded)
<1>1. Honest(<< >>)
  BY DEF Honest, EntryList
<1> QED
  BY <1>1 DEF Loads, IInv

\* A list with one entry more, made just now, is honest if the entry is.
LEMMA EnteredHonest ==
    ASSUME IInv, Grows, NEW l, Honest(l), NEW entry \in Entry,
           made' = Append(made, [by |-> entry.by, hash |-> entry.hash]),
           entry.status = "issued" <=> entry.right # 0,
           entry.status = "issued" => OnChain(entry.by, entry.hash)',
           NEW f, NEW id, id = Len(made) + 1, f = Put(l, id, entry)
    PROVE  Honest(f)'
<1>2. /\ DOMAIN f = DOMAIN l \cup {id} /\ f[id] = entry
      /\ \A k \in DOMAIN l \ {id} : f[k] = l[k]
      /\ f = [k \in DOMAIN f |-> f[k]]
  BY DEF Put
<1>3. id \in DOMAIN made' /\ made'[id] = [by |-> entry.by, hash |-> entry.hash]
  BY DEF IInv, Shape
<1>4. Honest(l)'
  BY HonestPersists DEF IInv
<1>5. EntryList(f)'
  BY <1>2, <1>3, <1>4 DEF Honest, EntryList, Entry
<1>6. \A k \in DOMAIN f : f[k].status = "issued" => OnChain(f[k].by, f[k].hash)'
  <2>1. ASSUME NEW k \in DOMAIN f, f[k].status = "issued", k = id
        PROVE OnChain(f[k].by, f[k].hash)'
    BY <1>2, <2>1 DEF OnChain
  <2>2. ASSUME NEW k \in DOMAIN f, f[k].status = "issued", k # id
        PROVE OnChain(f[k].by, f[k].hash)'
    BY <1>2, <1>4, <2>2 DEF Honest, OnChain
  <2> QED
    BY <2>1, <2>2
<1> QED
  BY <1>5, <1>6 DEF Honest

LEMMA AskIssuanceIInv ==
    ASSUME IInv, NEW w \in Workers, NEW a \in Accounts, NEW h \in Hashes, AskIssuance(w, a, h)
    PROVE  IInv'
<1>1. PICK loaded \in Loads :
        Resume(w, "save ask", NoCall, Put(loaded, Len(made) + 1, Open(a, h)))
  BY DEF AskIssuance
<1>2. /\ made' = Append(made, [by |-> a, hash |-> h])
      /\ made' \in Seq([by : Accounts, hash : Hashes]) /\ Len(made') = Len(made) + 1
      /\ \A id \in DOMAIN made : made'[id] = made[id]
  <2>1. made' = Append(made, [by |-> a, hash |-> h])
    BY DEF AskIssuance
  <2> QED
    BY <2>1 DEF IInv, Shape
<1>3. Grows
  <2>3. UNCHANGED network
    BY DEF AskIssuance
  <2>1. /\ weeks' = weeks /\ sent' = sent
        /\ weeks \in Seq(Week) /\ sent \in Seq(Call) /\ Len(made) \in Nat
    BY <2>3 DEF IInv, Shape, network
  <2>2. Len(weeks) <= Len(weeks) /\ Len(sent) <= Len(sent) /\ Len(made) <= Len(made')
    BY <1>2, <2>1
  <2> QED
    BY <1>2, <2>1, <2>2 DEF Grows
<1>4. Shape'
  BY <1>1, <1>2, ResumeShape DEF Places, IInv, Shape, network, AskIssuance
<1>5. Transactions' /\ AttestedWeeksExist'
  BY DEF IInv, network, Transactions, ReadRight, Minted, AttestedWeeksExist, AskIssuance
<1>6. Honest(issuance)'
  BY <1>3, StoreStays DEF AskIssuance
<1>7. PICK l, entry, id :
        entry = Open(a, h) /\ id = Len(made) + 1 /\ l = Put(loaded, id, entry)
  OBVIOUS
<1>8. Honest(l)'
  <2>1. entry \in Entry /\ entry.status = "open" /\ entry.right = 0 /\ entry.by = a /\ entry.hash = h
    BY <1>7 DEF Open, Entry
  <2> QED
    BY <1>2, <1>3, <1>7, <2>1, LoadedHonest, EnteredHonest
<1>9. CallOK("save ask", NoCall, l)'
  BY <1>8, IdleOK DEF CallOK, Issuing
<1>10. PICK c : c = NoCall
  OBVIOUS
<1> QED
  BY <1>1, <1>3, <1>4, <1>5, <1>6, <1>7, <1>9, Resumed

\* A write replaces the store by a list a worker holds, or does not reach it.
LEMMA WrittenIInv ==
    ASSUME IInv, NEW w \in Workers, issuance' \in {issuance, list[w]}, Return(w),
           answers' \subseteq [hash : Hashes, note : BOOLEAN, weeks : Nat],
           UNCHANGED <<network, attestations, made>>
    PROVE  IInv'
<1>1. Grows
  BY DEF Grows, network, IInv, Shape
<1>2. Shape'
  BY ResumeShape DEF Shape, IInv, network, Return, Places
<1>3. Transactions' /\ AttestedWeeksExist'
  BY DEF IInv, network, Transactions, ReadRight, Minted, AttestedWeeksExist
<1>4. PICK f : f = issuance'
  OBVIOUS
<1>5. Honest(f)
  BY <1>4 DEF IInv, CallOK
<1>6. Honest(issuance)'
  BY <1>1, <1>4, <1>5, HonestPersists DEF IInv
<1>7. CallOK("idle", NoCall, << >>)'
  BY <1>1, IdleOK, CallPersists DEF IInv
<1> QED
  BY <1>1, <1>2, <1>3, <1>6, <1>7, Resumed DEF Return

-----------------------------------------------------------------------------
(* The issuing route, up to the submission                                  *)

LEMMA SeqElement ==
    ASSUME NEW S, NEW s \in Seq(S), NEW i \in DOMAIN s
    PROVE  i \in Nat /\ i # 0 /\ s[i] \in S
<1>1. DOMAIN s = 1..Len(s) /\ Len(s) \in Nat
  OBVIOUS
<1> QED
  BY <1>1

LEMMA AsksForMatch ==
    ASSUME NEW loaded, NEW week, NEW request \in AsksFor(loaded, week)
    PROVE  request = 0 \/ (request \in DOMAIN loaded /\ AskMatches(loaded[request], week))
<1> DEFINE same == {id \in DOMAIN loaded : AskMatches(loaded[id], week)}
<1>1. AsksFor(loaded, week) = IF same = {} THEN {0} ELSE same
  BY DEF AsksFor
<1> HIDE DEF same
<1>2. request = 0 \/ request \in same
  BY <1>1
<1> QED
  BY <1>2 DEF same

LEMMA IssueIInv ==
    ASSUME IInv, NEW w \in Workers, NEW week \in Week, Issue(w, week)
    PROVE  IInv'
<1>0. PICK loaded \in Loads :
        \E request \in AsksFor(loaded, week) :
           Resume(w, "spent", [NoCall EXCEPT !.request = request, !.week = week], << >>)
  BY DEF Issue
<1>9. PICK request \in AsksFor(loaded, week) :
        Resume(w, "spent", [NoCall EXCEPT !.request = request, !.week = week], << >>)
  BY <1>0
<1>1. request = 0 \/ (request \in DOMAIN loaded /\ AskMatches(loaded[request], week))
  BY AsksForMatch
<1>2. PICK c, l : c = [NoCall EXCEPT !.request = request, !.week = week] /\ l = << >>
  OBVIOUS
<1>4. Honest(loaded)
  BY LoadedHonest
<1>5. ASSUME request \in DOMAIN loaded
      PROVE  /\ request \in DOMAIN made /\ request \in Nat
             /\ loaded[request].by = made[request].by
             /\ loaded[request].hash = made[request].hash
             /\ made[request] \in [by : Accounts, hash : Hashes]
  <2>1. made \in Seq([by : Accounts, hash : Hashes])
    BY DEF IInv, Shape
  <2>2. /\ request \in DOMAIN made
        /\ loaded[request].by = made[request].by /\ loaded[request].hash = made[request].hash
    BY <1>4, <1>5 DEF Honest, EntryList
  <2>3. request \in Nat /\ made[request] \in [by : Accounts, hash : Hashes]
    BY <2>1, <2>2, SeqElement
  <2> QED
    BY <2>2, <2>3
<1>6. c \in Call /\ c.week = week /\ c.request = request
  <2>1. request \in Nat
    BY <1>1, <1>5
  <2> QED
    BY <1>2, <2>1 DEF NoCall, Call
<1>7. ClosesItsAsk(c)
  <2>1. CASE request = 0
    BY <1>6, <2>1 DEF ClosesItsAsk
  <2>2. CASE request \in DOMAIN loaded /\ AskMatches(loaded[request], week)
    <3>1. made[request] \in [by : Accounts, hash : Hashes]
      BY <1>5, <2>2
    <3>2. made[request].by = week.owner /\ made[request].hash = week.hash
      BY <1>5, <2>2 DEF AskMatches
    <3> QED
      BY <1>5, <1>6, <2>2, <3>1, <3>2 DEF ClosesItsAsk
  <2> QED
    BY <1>1, <2>1, <2>2
<1>8. CallOK("spent", c, l)
  BY <1>2, <1>6, <1>7, IdleOK DEF CallOK
<1> QED
  BY <1>2, <1>8, <1>9, QuietlyResumed DEF Issue, Places, Issuing

LEMMA CheckSpentIInv ==
    ASSUME IInv, NEW w \in Workers, CheckSpent(w)
    PROVE  IInv'
<1>1. CASE Return(w)
  BY <1>1, Returned DEF CheckSpent
<1>2. CASE Resume(w, "next", call[w], << >>)
  <2>1. PICK c, l : c = call[w] /\ l = << >>
    OBVIOUS
  <2>2. CallOK("spent", c, list[w])
    BY <2>1 DEF IInv, CheckSpent
  <2>3. CallOK("next", c, l)
    BY <2>1, <2>2, IdleOK DEF CallOK, Issuing
  <2> QED
    BY <1>2, <2>1, <2>3, QuietlyResumed DEF CheckSpent, Places, Issuing
<1> QED
  BY <1>1, <1>2 DEF CheckSpent

LEMMA ReadNextIdIInv ==
    ASSUME IInv, NEW w \in Workers, ReadNextId(w)
    PROVE  IInv'
<1>1. PICK c, d, l : c = call[w] /\ d = [c EXCEPT !.right = Len(weeks) + 1] /\ l = << >>
  OBVIOUS
<1>2. CallOK("next", c, list[w]) /\ Len(weeks) \in Nat
  BY <1>1 DEF IInv, Shape, ReadNextId
<1>3. /\ d \in Call /\ d.right = Len(weeks) + 1
      /\ d.request = c.request /\ d.week = c.week
  BY <1>1, <1>2 DEF CallOK, Call
<1>4. ReadRight(d)
  BY <1>2, <1>3 DEF ReadRight
<1>5. CallOK("build", d, l)
  BY <1>1, <1>2, <1>3, <1>4, IdleOK DEF CallOK, Issuing, ClosesItsAsk
<1> QED
  BY <1>1, <1>5, QuietlyResumed DEF ReadNextId, Places, Issuing

LEMMA BuildIInv ==
    ASSUME IInv, NEW w \in Workers, BuildIssueTx(w)
    PROVE  IInv'
<1>1. PICK c, d, l : c = call[w] /\ d = [c EXCEPT !.sequence = Sequence] /\ l = << >>
  OBVIOUS
<1>2. CallOK("build", c, list[w]) /\ Sequence \in Nat
  BY <1>1 DEF IInv, Shape, BuildIssueTx, Sequence
<1>3. /\ d \in Call /\ d.right = c.right
      /\ d.request = c.request /\ d.week = c.week
  BY <1>1, <1>2 DEF CallOK, Call
<1>4. CallOK("submit", d, l)
  BY <1>1, <1>2, <1>3, IdleOK DEF CallOK, Issuing, ClosesItsAsk, ReadRight
<1> QED
  BY <1>1, <1>4, QuietlyResumed DEF BuildIssueTx, Places, Issuing

LEMMA SubmitIInv ==
    ASSUME IInv, NEW w \in Workers, Submit(w)
    PROVE  IInv'
<1>1. CASE Return(w) /\ UNCHANGED sent
  BY <1>1, Returned DEF Submit, network
<1>2. CASE LET c == [call[w] EXCEPT !.tx = Len(sent) + 1] IN
           sent' = Append(sent, c) /\ Resume(w, "poll", c, << >>)
  <2>1. PICK b, c, l : /\ b = call[w] /\ c = [b EXCEPT !.tx = Len(sent) + 1] /\ l = << >>
    OBVIOUS
  <2>2. CallOK("submit", b, list[w]) /\ Len(sent) \in Nat
    BY <2>1 DEF IInv, Shape, Submit
  <2>3. /\ c \in Call /\ c.right = b.right /\ c.tx = Len(sent) + 1
        /\ c.request = b.request /\ c.week = b.week
    BY <2>1, <2>2 DEF CallOK, Call
  <2>4. sent' = Append(sent, c) /\ Resume(w, "poll", c, l)
    BY <1>2, <2>1
  <2>5. /\ sent' \in Seq(Call) /\ Len(sent') = Len(sent) + 1 /\ c.tx \in DOMAIN sent' /\ sent'[c.tx] = c
        /\ \A t \in DOMAIN sent : sent'[t] = sent[t]
        /\ \A t \in DOMAIN sent' : t \in DOMAIN sent \/ t = c.tx
        /\ DOMAIN sent \subseteq DOMAIN sent'
    BY <2>3, <2>4 DEF IInv, Shape
  <2>6. Grows
    <3>1. /\ weeks' = weeks /\ made' = made
          /\ weeks \in Seq(Week) /\ made \in Seq([by : Accounts, hash : Hashes])
      BY DEF IInv, Shape, Submit
    <3>2. Len(weeks) <= Len(weeks) /\ Len(made) <= Len(made) /\ Len(sent) <= Len(sent')
      BY <2>2, <2>5, <3>1
    <3> QED
      BY <2>5, <3>1, <3>2 DEF Grows
  <2>7. Shape'
    BY <2>4, <2>5, ResumeShape DEF IInv, Shape, Submit, Places, Issuing
  <2>8. Transactions'
    <3>1. \A t \in DOMAIN sent' : sent'[t].week \in Week /\ ReadRight(sent'[t])
      BY <2>2, <2>3, <2>5 DEF IInv, Transactions, CallOK, Issuing, ReadRight
    <3>2. weeks' = weeks /\ included' = included
      BY DEF Submit
    <3> QED
      BY <2>5, <3>1, <3>2 DEF IInv, Transactions, ReadRight, Minted
  <2>9. AttestedWeeksExist'
    BY DEF IInv, Submit, AttestedWeeksExist
  <2>10. Honest(issuance)'
    BY <2>6, StoreStays DEF Submit
  <2>11. CallOK("poll", c, l)'
    <3>1. Honest(l)'
      BY <2>1, <2>6, IdleOK, HonestPersists DEF CallOK, IInv
    <3>2. ClosesItsAsk(c)'
      BY <2>2, <2>3 DEF CallOK, Issuing, ClosesItsAsk, Submit
    <3> QED
      BY <2>2, <2>3, <2>5, <3>1, <3>2 DEF CallOK, Issuing
  <2> QED
    BY <2>4, <2>6, <2>7, <2>8, <2>9, <2>10, <2>11, Resumed
<1> QED
  BY <1>1, <1>2 DEF Submit

-----------------------------------------------------------------------------
(* The issuing route, from the submission on                                *)

\* A transaction that succeeded put the call's week on chain, under the id the
\* call read or a later one.
LEMMA PollIInv ==
    ASSUME IInv, NEW w \in Workers, Poll(w)
    PROVE  IInv'
<1>1. CASE Return(w)
  BY <1>1, Returned DEF Poll
<1>2. CASE \E k \in DOMAIN included :
              /\ included[k].tx = call[w].tx /\ included[k].successful
              /\ Resume(w, "attest", call[w], << >>)
  <2>1. PICK c, l : c = call[w] /\ l = << >>
    OBVIOUS
  <2>2. PICK k \in DOMAIN included :
          /\ included[k].tx = c.tx /\ included[k].successful
          /\ Resume(w, "attest", c, l)
    BY <1>2, <2>1
  <2>3. CallOK("poll", c, list[w])
    BY <2>1 DEF IInv, Poll
  <2>4. c.tx \in DOMAIN sent /\ sent[c.tx] = c
    BY <2>3 DEF CallOK
  <2>5. Minted(c) /\ ReadRight(c)
    BY <2>2, <2>4 DEF IInv, Transactions
  <2>6. c.right >= 1
    BY <2>5 DEF ReadRight, IInv, Shape
  <2>7. CallOK("attest", c, l)
    BY <2>1, <2>3, <2>5, <2>6, IdleOK DEF CallOK, Issuing
  <2> QED
    BY <2>2, <2>7, QuietlyResumed DEF Poll, Places, Issuing
<1> QED
  BY <1>1, <1>2 DEF Poll

\* The right a call attests exists, since its week was issued under that id or
\* a later one, and its record is that of the call's own week.
LEMMA AttestedIIInv ==
    ASSUME IInv, NEW w \in Workers, at[w] = "attest",
           attestations' \in {attestations, Put(attestations, call[w].right, call[w].week.record)},
           NEW place \in {"close", "idle"}, NEW c, NEW l, Resume(w, place, c, l),
           CallOK(place, c, l),
           UNCHANGED <<network, issuance, made, answers>>
    PROVE  IInv'
<1>1. PICK b : b = call[w]
  OBVIOUS
<1>2. CallOK("attest", b, list[w])
  BY <1>1 DEF IInv
<1>3. b.week \in Week /\ b.right \in Nat /\ b.right >= 1 /\ Minted(b)
  BY <1>2 DEF CallOK, Issuing, Call
<1>4. b.right \in DOMAIN weeks /\ \E j \in DOMAIN weeks : weeks[j].record = b.week.record
  <2>1. PICK i \in DOMAIN weeks : i >= b.right /\ weeks[i] = b.week
    BY <1>3 DEF Minted
  <2>2. DOMAIN weeks = 1..Len(weeks) /\ Len(weeks) \in Nat
    BY DEF IInv, Shape
  <2> QED
    BY <1>3, <2>1, <2>2
<1>5. /\ attestations' \in [DOMAIN attestations' -> Records]
      /\ \A i \in DOMAIN attestations' :
            \/ i \in DOMAIN attestations /\ attestations'[i] = attestations[i]
            \/ i = b.right /\ attestations'[i] = b.week.record
  BY <1>1, <1>3 DEF IInv, Shape, Put, Week
<1>6. weeks' = weeks
  BY DEF network
<1>7. AttestedWeeksExist'
  BY <1>4, <1>5, <1>6 DEF IInv, AttestedWeeksExist
<1>8. Grows
  BY DEF Grows, network, IInv, Shape
<1>9. Shape'
  BY <1>5, ResumeShape DEF Shape, IInv, network, Places, Issuing
<1>10. Transactions'
  BY DEF IInv, network, Transactions, ReadRight, Minted
<1>11. Honest(issuance)'
  BY <1>8, StoreStays
<1>12. CallOK(place, c, l)'
  BY <1>8, CallPersists DEF IInv
<1> QED
  BY <1>7, <1>8, <1>9, <1>10, <1>11, <1>12, Resumed

LEMMA SaveAttestationIInv ==
    ASSUME IInv, NEW w \in Workers, SaveAttestation(w)
    PROVE  IInv'
<1>1. PICK c, l, d : c = call[w] /\ l = << >> /\ d = NoCall
  OBVIOUS
<1>2. CallOK("attest", c, list[w])
  BY <1>1 DEF IInv, SaveAttestation
<1>3. CallOK("close", c, l) /\ CallOK("idle", d, l)
  BY <1>1, <1>2, IdleOK DEF CallOK, Issuing
<1>4. CASE Resume(w, "close", call[w], << >>)
  BY <1>1, <1>3, <1>4, AttestedIIInv DEF SaveAttestation
<1>5. CASE Return(w)
  BY <1>1, <1>3, <1>5, AttestedIIInv DEF SaveAttestation, Return
<1> QED
  BY <1>4, <1>5 DEF SaveAttestation

LEMMA ToldTyped ==
    ASSUME IInv, NEW w \in Workers, at[w] \in Issuing, NEW note \in BOOLEAN, Told(w, note)
    PROVE  answers' \subseteq [hash : Hashes, note : BOOLEAN, weeks : Nat]
<1>1. call[w].week \in Week /\ Len(weeks) \in Nat
  BY DEF IInv, CallOK, Shape
<1> QED
  BY <1>1 DEF Told, IInv, Shape, Week

LEMMA MarkedEntry ==
    ASSUME NEW e \in Entry, NEW c, c.right \in Nat, c.right >= 1
    PROVE  /\ Mark(e, c) \in Entry /\ Mark(e, c).status = "issued" /\ Mark(e, c).right # 0
           /\ Mark(e, c).by = e.by /\ Mark(e, c).hash = e.hash
<1>1. PICK r \in Nat : r = c.right /\ r # 0
  OBVIOUS
<1> QED
  BY <1>1 DEF Mark, Entry

LEMMA CloseFoundIInv ==
    ASSUME IInv, NEW w \in Workers, at[w] = "close", NEW loaded \in Loads,
           call[w].request \in DOMAIN loaded,
           Resume(w, "save", call[w], [loaded EXCEPT ![call[w].request] = Mark(@, call[w])]),
           UNCHANGED <<network, issuance, attestations, made, answers>>
    PROVE  IInv'
<1>1. PICK c, l : /\ c = call[w]
                  /\ l = [loaded EXCEPT ![c.request] = Mark(loaded[c.request], c)]
  OBVIOUS
<1>2. CallOK("close", c, list[w]) /\ Honest(loaded)
  BY <1>1, LoadedHonest DEF IInv
<1>3. /\ DOMAIN l = DOMAIN loaded /\ l = [id \in DOMAIN l |-> l[id]]
      /\ l[c.request] = Mark(loaded[c.request], c)
      /\ \A id \in DOMAIN loaded \ {c.request} : l[id] = loaded[id]
      /\ loaded[c.request] \in Entry
  BY <1>1, <1>2 DEF Honest, EntryList
<1>4. c.request # 0 /\ c.week \in Week /\ c.right \in Nat /\ c.right >= 1 /\ Minted(c)
  <2>1. c.week \in Week /\ c.right >= 1 /\ Minted(c) /\ c \in Call
    BY <1>2 DEF CallOK, Issuing
  <2>2. c.request \in DOMAIN made
    BY <1>1, <1>2 DEF Honest, EntryList
  <2>3. made \in Seq([by : Accounts, hash : Hashes])
    BY DEF IInv, Shape
  <2>4. c.request # 0
    BY <2>2, <2>3
  <2> QED
    BY <2>1, <2>4 DEF Call
<1>5. /\ l[c.request] \in Entry /\ l[c.request].status = "issued" /\ l[c.request].right # 0
      /\ l[c.request].by = loaded[c.request].by /\ l[c.request].hash = loaded[c.request].hash
  BY <1>3, <1>4, MarkedEntry
<1>6. loaded[c.request].by = c.week.owner /\ loaded[c.request].hash = c.week.hash
  BY <1>1, <1>2, <1>4 DEF CallOK, Issuing, ClosesItsAsk, Honest, EntryList
<1>7. EntryList(l)
  BY <1>1, <1>2, <1>3, <1>5 DEF Honest, EntryList
<1>8. OnChain(c.week.owner, c.week.hash)
  BY <1>4 DEF Minted, OnChain
<1>9. Honest(l)
  BY <1>2, <1>3, <1>5, <1>6, <1>7, <1>8 DEF Honest
<1>10. CallOK("save", c, l)
  BY <1>2, <1>9 DEF CallOK, Issuing
<1> QED
  BY <1>1, <1>10, QuietlyResumed DEF Places, Issuing

\* An ask that is no longer on the list leaves only the answer.
LEMMA CloseMissingIInv ==
    ASSUME IInv, NEW w \in Workers, at[w] = "close", Return(w), Told(w, FALSE),
           UNCHANGED <<network, issuance, attestations, made>>
    PROVE  IInv'
<1>1. answers' \subseteq [hash : Hashes, note : BOOLEAN, weeks : Nat]
  BY ToldTyped DEF Issuing
<1> QED
  BY <1>1, WrittenIInv

LEMMA CloseDirectIInv ==
    ASSUME IInv, NEW w \in Workers, at[w] = "close", NEW loaded \in Loads,
           made' = Append(made, [by |-> call[w].week.owner, hash |-> call[w].week.hash]),
           Resume(w, "save", call[w],
                  Put(loaded, Len(made) + 1,
                      Mark(Open(call[w].week.owner, call[w].week.hash), call[w]))),
           UNCHANGED <<network, issuance, attestations, answers>>
    PROVE  IInv'
<1>1. PICK c, entry, id, l :
        /\ c = call[w] /\ entry = Mark(Open(c.week.owner, c.week.hash), c)
        /\ id = Len(made) + 1 /\ l = Put(loaded, id, entry)
  OBVIOUS
<1>2. CallOK("close", c, list[w]) /\ Honest(loaded)
  BY <1>1, LoadedHonest DEF IInv
<1>3. c.week \in Week /\ c.right \in Nat /\ c.right >= 1 /\ Minted(c)
  BY <1>2 DEF CallOK, Issuing, Call
<1>4. /\ entry \in Entry /\ entry.status = "issued" /\ entry.right # 0
      /\ entry.by = c.week.owner /\ entry.hash = c.week.hash
  <2>1. PICK e : e = Open(c.week.owner, c.week.hash)
    OBVIOUS
  <2>2. e \in Entry /\ e.by = c.week.owner /\ e.hash = c.week.hash
    BY <1>3, <2>1 DEF Open, Entry, Week
  <2> QED
    BY <1>1, <1>3, <2>1, <2>2, MarkedEntry
<1>5. /\ made' = Append(made, [by |-> entry.by, hash |-> entry.hash])
      /\ made' \in Seq([by : Accounts, hash : Hashes]) /\ Len(made') = Len(made) + 1
      /\ \A k \in DOMAIN made : made'[k] = made[k]
  <2>1. made' = Append(made, [by |-> entry.by, hash |-> entry.hash])
    BY <1>1, <1>4
  <2>2. [by |-> entry.by, hash |-> entry.hash] \in [by : Accounts, hash : Hashes]
    BY <1>4 DEF Entry
  <2> QED
    BY <2>1, <2>2 DEF IInv, Shape
<1>6. Grows
  <2>1. /\ weeks' = weeks /\ sent' = sent
        /\ weeks \in Seq(Week) /\ sent \in Seq(Call) /\ Len(made) \in Nat
    BY DEF IInv, Shape, network
  <2>2. Len(weeks) <= Len(weeks) /\ Len(sent) <= Len(sent) /\ Len(made) <= Len(made')
    BY <1>5, <2>1
  <2> QED
    BY <1>5, <2>1, <2>2 DEF Grows
<1>7. OnChain(entry.by, entry.hash)'
  BY <1>3, <1>4 DEF Minted, OnChain, network
<1>8. Honest(l)'
  BY <1>1, <1>2, <1>4, <1>5, <1>6, <1>7, EnteredHonest
<1>9. Shape'
  BY <1>5, ResumeShape DEF IInv, Shape, network, Places, Issuing
<1>10. Transactions' /\ AttestedWeeksExist'
  BY DEF IInv, network, Transactions, ReadRight, Minted, AttestedWeeksExist
<1>11. Honest(issuance)'
  BY <1>6, StoreStays
<1>12. CallOK("save", c, l)'
  <2>1. CallOK("close", c, list[w])
    BY <1>2
  <2>2. c \in Call /\ c.week \in Week /\ ClosesItsAsk(c)
    BY <2>1 DEF CallOK, Issuing
  <2>3. ClosesItsAsk(c)'
    BY <1>6, <2>2, DomainsGrow DEF ClosesItsAsk, Grows, IInv
  <2> QED
    BY <1>8, <2>2, <2>3 DEF CallOK, Issuing
<1> QED
  BY <1>1, <1>6, <1>8, <1>9, <1>10, <1>11, <1>12, Resumed

LEMMA CloseIInv ==
    ASSUME IInv, NEW w \in Workers, Close(w)
    PROVE  IInv'
<1>1. PICK loaded \in Loads :
        LET c == call[w] IN
        \/ /\ c.request \in DOMAIN loaded
           /\ Resume(w, "save", c, [loaded EXCEPT ![c.request] = Mark(@, c)])
           /\ UNCHANGED <<made, answers>>
        \/ /\ c.request # 0 /\ c.request \notin DOMAIN loaded
           /\ Return(w) /\ Told(w, FALSE)
           /\ UNCHANGED made
        \/ /\ c.request = 0
           /\ Len(made) < MaxEntries
           /\ made' = Append(made, [by |-> c.week.owner, hash |-> c.week.hash])
           /\ Resume(w, "save", c, Put(loaded, Len(made) + 1,
                                       Mark(Open(c.week.owner, c.week.hash), c)))
           /\ UNCHANGED answers
  BY DEF Close
<1> QED
  BY <1>1, CloseFoundIInv, CloseMissingIInv, CloseDirectIInv DEF Close

LEMMA SavesIInv ==
    ASSUME IInv, NEW w \in Workers, SaveAsk(w) \/ SaveIssuance(w)
    PROVE  IInv'
<1>1. CASE SaveAsk(w)
  BY <1>1, WrittenIInv DEF SaveAsk, IInv, Shape
<1>2. CASE SaveIssuance(w)
  <2>1. answers' \subseteq [hash : Hashes, note : BOOLEAN, weeks : Nat]
    BY <1>2, ToldTyped DEF SaveIssuance, Issuing
  <2> QED
    BY <1>2, <2>1, WrittenIInv DEF SaveIssuance
<1> QED
  BY <1>1, <1>2

-----------------------------------------------------------------------------
(* Theorems *)

\* Every step of the network and of any handler keeps the invariant.
THEOREM IssuanceInductive == IInv /\ [Next]_vars => IInv'
<1> SUFFICES ASSUME IInv, [Next]_vars PROVE IInv'
  OBVIOUS
<1>1. CASE UNCHANGED vars
  <2>1. Grows
    BY <1>1 DEF Grows, vars, network, IInv, Shape
  <2>2. Shape'
    BY <1>1 DEF Shape, IInv, vars, network, handlers
  <2>3. Transactions' /\ AttestedWeeksExist'
    BY <1>1 DEF IInv, vars, network, Transactions, ReadRight, Minted, AttestedWeeksExist
  <2>4. Honest(issuance)'
    BY <1>1, <2>1, StoreStays DEF vars
  <2> QED
    BY <1>1, <2>1, <2>2, <2>3, <2>4, HandlersStay DEF vars
<1>2. ASSUME NEW t \in DOMAIN sent, Include(t) PROVE IInv'
  BY <1>2, IncludeIInv
<1>3. ASSUME NEW w \in Workers, NEW a \in Accounts, NEW h \in Hashes, AskIssuance(w, a, h)
      PROVE IInv'
  BY <1>3, AskIssuanceIInv
<1>4. ASSUME NEW w \in Workers, NEW week \in Week, Issue(w, week) PROVE IInv'
  BY <1>4, IssueIInv
<1>5. ASSUME NEW w \in Workers,
             CheckSpent(w) \/ ReadNextId(w) \/ BuildIssueTx(w) \/ Submit(w)
      PROVE IInv'
  BY <1>5, CheckSpentIInv, ReadNextIdIInv, BuildIInv, SubmitIInv
<1>6. ASSUME NEW w \in Workers, Poll(w) \/ SaveAttestation(w) \/ Close(w) PROVE IInv'
  BY <1>6, PollIInv, SaveAttestationIInv, CloseIInv
<1>7. ASSUME NEW w \in Workers, SaveAsk(w) \/ SaveIssuance(w) \/ Abandon(w) PROVE IInv'
  BY <1>7, SavesIInv, Returned DEF Abandon
<1> QED
  BY <1>1, <1>2, <1>3, <1>4, <1>5, <1>6, <1>7 DEF Next

THEOREM Invariant == Spec => []IInv
  BY InitIInv, IssuanceInductive, PTL DEF Spec

\* The types of the chain, the store and every suspended call.
THEOREM TypeCorrect == Spec => []TypeOK
  BY Invariant, IInvImplies, PTL

\* However handlers interleave, whatever the store loses and however late a
\* transaction settles, an ask that reads `issued` was issued: its account has a
\* week on chain under its secret (lib/requests.ts, 321-332).
THEOREM IssuedWasIssued == Spec => []IssuedAsksHaveWeeks
  BY Invariant, IInvImplies, PTL

\* Nothing is attested that is not on chain (issue/route.ts, 181-215).
THEOREM AttestedIsOnChain == Spec => []AttestedWeeksExist
  BY Invariant, IInvImplies, PTL

-----------------------------------------------------------------------------
(* One handler at a time, which waits for its transaction, and reads that   *)
(* do not fail                                                              *)

OneAtATime == ~GetFails /\ ~GivesUp /\ \E w \in Workers : Workers = {w}

\* Only the transaction that is waited for may still be included: the sequence
\* number of any other is used.
NothingElsePends(place, c) ==
    \A t \in DOMAIN sent : sent[t].sequence < Sequence \/ (place = "poll" /\ t = c.tx)

AskIsOpen(c) ==
    \/ c.request = 0
    \/ c.request \in DOMAIN issuance /\ issuance[c.request].status = "open"

Unspent(h) == \A id \in DOMAIN issuance : ~Secures(issuance[id], h)

IsNext(c) == c.right = Len(weeks) + 1
IsLast(c) == c.right \in DOMAIN weeks /\ c.right = Len(weeks) /\ weeks[c.right] = c.week

LastIncluded(c) ==
    \E k \in DOMAIN included :
        /\ k = Len(included) /\ included[k].tx = c.tx
        /\ included[k].successful => IsLast(c)

NamesWeeks(l) ==
    \A id \in DOMAIN l : l[id].status = "issued" =>
        /\ l[id].right \in DOMAIN weeks
        /\ weeks[l[id].right].owner = l[id].by /\ weeks[l[id].right].hash = l[id].hash

\* A list that loses nothing of the store
Keeps(l) ==
    \A id \in DOMAIN issuance :
        id \in DOMAIN l /\ (issuance[id].status = "issued" => l[id] = issuance[id])

\* What the handler has read still stands, at each of its awaits.
Knows(place, c, l) ==
    /\ NothingElsePends(place, c)
    /\ place \in Issuing \ {"save"} => AskIsOpen(c)
    /\ place \in {"next", "build", "submit", "poll"} => Unspent(c.week.hash)
    /\ place \in {"build", "submit"} => IsNext(c)
    /\ place = "submit" => c.sequence = Sequence
    /\ place = "poll" => (c.sequence = Sequence /\ IsNext(c)) \/ LastIncluded(c)
    /\ place \in {"attest", "close", "save"} => IsLast(c)
    /\ place \in {"save ask", "save"} => NamesWeeks(l) /\ Keeps(l)
    /\ place = "save" => \E id \in DOMAIN l : Secures(l[id], c.week.hash)

SerialInv ==
    /\ AttestationIsOfItsWeek
    /\ NamesWeeks(issuance)
    /\ LeftOpenIsSaid
    /\ OneSecretPerWeek
    /\ \A answer \in answers : answer.weeks <= Len(weeks)
    /\ \A k \in DOMAIN included : sent[included[k].tx].sequence = k
    /\ \A w \in Workers : Knows(at[w], call[w], list[w])

LEMMA SerialInvImplies ==
    SerialInv => /\ AttestationIsOfItsWeek /\ IssuedNamesItsWeek
                 /\ LeftOpenIsSaid /\ OneSecretPerWeek
  BY DEF SerialInv, NamesWeeks, IssuedNamesItsWeek

LEMMA InitSerially == Init => SerialInv
  BY DEF Init, SerialInv, AttestationIsOfItsWeek, NamesWeeks, LeftOpenIsSaid,
         OneSecretPerWeek, Knows, NothingElsePends, Issuing

\* With one handler, what it knows is all that is known.
LEMMA KnownSerially ==
    ASSUME OneAtATime, IInv, NEW w \in Workers, NEW place, NEW c, NEW l,
           Resume(w, place, c, l), Knows(place, c, l)'
    PROVE  \A v \in Workers : Knows(at[v], call[v], list[v])'
<1>1. at'[w] = place /\ call'[w] = c /\ list'[w] = l
  BY DEF Resume, IInv, Shape
<1>2. \A v \in Workers : v = w
  BY DEF OneAtATime
<1>3. Knows(at[w], call[w], list[w])'
  BY <1>1
<1> QED
  BY <1>2, <1>3

\* A step of the handler that writes nothing.
LEMMA QuietSerially ==
    ASSUME OneAtATime, IInv, SerialInv, UNCHANGED <<network, issuance, attestations, answers>>,
           NEW w \in Workers, NEW place, NEW c, NEW l, Resume(w, place, c, l), Knows(place, c, l)
    PROVE  SerialInv'
<1>1. Knows(place, c, l)'
  BY DEF Knows, NothingElsePends, Sequence, AskIsOpen, Unspent, IsNext, IsLast, LastIncluded,
         NamesWeeks, Keeps, network
<1>2. \A v \in Workers : Knows(at[v], call[v], list[v])'
  BY <1>1, KnownSerially
<1> QED
  BY <1>2 DEF SerialInv, network, AttestationIsOfItsWeek, NamesWeeks, LeftOpenIsSaid,
              OneSecretPerWeek

LEMMA IdleKnows ==
    ASSUME SerialInv, NEW w \in Workers, at[w] # "poll"
    PROVE  Knows("idle", NoCall, << >>)
  BY DEF SerialInv, Knows, NothingElsePends, Issuing

LEMMA ReturnedSerially ==
    ASSUME OneAtATime, IInv, SerialInv, UNCHANGED <<network, issuance, attestations, answers>>,
           NEW w \in Workers, Return(w), at[w] # "poll"
    PROVE  SerialInv'
<1>1. PICK c, l : c = NoCall /\ l = << >>
  OBVIOUS
<1> QED
  BY <1>1, IdleKnows, QuietSerially DEF Return

\* The transaction that is waited for is the one that is included: its week is
\* the next, and nobody was told that its secret is spent.
LEMMA IncludeSerially ==
    ASSUME OneAtATime, IInv, SerialInv, NEW t \in DOMAIN sent, Include(t)
    PROVE  SerialInv'
<1>0. PICK successful \in BOOLEAN :
        /\ included' = Append(included, [tx |-> t, successful |-> successful])
        /\ weeks' = IF successful THEN Append(weeks, sent[t].week) ELSE weeks
  BY DEF Include
<1>1. PICK n, last :
        /\ included' = Append(included, [tx |-> t, successful |-> successful])
        /\ weeks' = IF successful THEN Append(weeks, sent[t].week) ELSE weeks
        /\ n = Len(weeks) + 1 /\ last = Len(included) + 1
  BY <1>0
<1>2. PICK w \in Workers : Workers = {w}
  BY DEF OneAtATime
<1>3. PICK c, l : c = call[w] /\ l = list[w]
  OBVIOUS
<1>4. /\ weeks \in Seq(Week) /\ included \in Seq([tx : Nat, successful : BOOLEAN])
      /\ sent[t].week \in Week /\ t \in Nat /\ sent[t].sequence = last
      /\ n \in Nat /\ last \in Nat
  BY <1>1 DEF IInv, Shape, Transactions, Include, Sequence
<1>5. /\ DOMAIN included' = DOMAIN included \cup {last} /\ Len(included') = last
      /\ included'[last] = [tx |-> t, successful |-> successful]
      /\ \A k \in DOMAIN included : included'[k] = included[k] /\ k < last
  BY <1>1, <1>4
<1>6. Knows(at[w], c, l)
  BY <1>3 DEF SerialInv
<1>7. at[w] = "poll" /\ t = c.tx /\ sent[t] = c
  <2>1. ~(sent[t].sequence < Sequence)
    BY <1>1, <1>4 DEF Sequence
  <2>2. at[w] = "poll" /\ t = c.tx
    BY <1>6, <2>1 DEF Knows, NothingElsePends
  <2> QED
    BY <1>3, <2>2 DEF IInv, CallOK
<1>8. c.right = n
  <2>1. ASSUME LastIncluded(c) PROVE FALSE
    <3>1. PICK k \in DOMAIN included : k = Len(included) /\ included[k].tx = c.tx
      BY <2>1 DEF LastIncluded
    <3>2. sent[t].sequence = k
      BY <1>7, <3>1 DEF SerialInv
    <3> QED
      BY <1>4, <1>5, <3>1, <3>2
  <2> QED
    BY <1>1, <1>6, <1>7, <2>1 DEF Knows, IsNext
<1>9. /\ DOMAIN weeks \subseteq DOMAIN weeks' /\ \A i \in DOMAIN weeks : weeks'[i] = weeks[i]
      /\ Len(weeks) <= Len(weeks') /\ Len(weeks) \in Nat /\ Len(weeks') \in Nat
  BY <1>1, <1>4
<1>10. successful => /\ n \in DOMAIN weeks' /\ n = Len(weeks') /\ weeks'[n] = c.week
                     /\ DOMAIN weeks' = DOMAIN weeks \cup {n}
  BY <1>1, <1>4, <1>7
<1>11. Knows(at[w], c, l)'
  <2>1. at'[w] = "poll"
    BY <1>7 DEF Include, handlers
  <2>2. NothingElsePends("poll", c)'
    <3>1. sent' = sent /\ Sequence = last /\ Sequence' = last + 1
      BY <1>1, <1>5 DEF Include, Sequence
    <3>2. ASSUME NEW u \in DOMAIN sent, u # c.tx PROVE sent[u].sequence < last + 1
      <4>1. sent[u] \in Call
        BY SeqElement DEF IInv, Shape
      <4>2. sent[u].sequence < last
        BY <1>6, <3>1, <3>2 DEF Knows, NothingElsePends
      <4> QED
        BY <1>4, <4>1, <4>2 DEF Call
    <3> QED
      BY <3>1, <3>2 DEF NothingElsePends
  <2>3. LastIncluded(c)'
    BY <1>5, <1>7, <1>8, <1>10 DEF LastIncluded, IsLast
  <2>4. AskIsOpen(c)' /\ Unspent(c.week.hash)'
    BY <1>6, <1>7 DEF Knows, AskIsOpen, Unspent, Include, Issuing
  <2> QED
    BY <2>1, <2>2, <2>3, <2>4 DEF Knows
<1>12. \A v \in Workers : Knows(at[v], call[v], list[v])'
  BY <1>2, <1>3, <1>11 DEF Include, handlers
<1>13. AttestationIsOfItsWeek' /\ NamesWeeks(issuance)' /\ LeftOpenIsSaid'
  BY <1>9 DEF SerialInv, AttestationIsOfItsWeek, NamesWeeks, LeftOpenIsSaid, Include
<1>14. \A answer \in answers' : answer.weeks <= Len(weeks')
  BY <1>9 DEF SerialInv, Include, IInv, Shape
<1>15. OneSecretPerWeek'
  <2> SUFFICES ASSUME NEW answer \in answers, ~answer.note,
                      NEW i \in DOMAIN weeks', i > answer.weeks
               PROVE  weeks'[i].hash # answer.hash
    BY DEF OneSecretPerWeek, Include
  <2>1. CASE i \in DOMAIN weeks
    BY <1>9, <2>1 DEF SerialInv, OneSecretPerWeek
  <2>2. CASE i \notin DOMAIN weeks
    <3>1. weeks'[i] = c.week
      BY <1>1, <1>10, <2>2
    <3>2. \E id \in DOMAIN issuance : Secures(issuance[id], answer.hash)
      BY DEF SerialInv, LeftOpenIsSaid
    <3>3. Unspent(c.week.hash)
      BY <1>6, <1>7 DEF Knows
    <3> QED
      BY <3>1, <3>2, <3>3 DEF Unspent
  <2> QED
    BY <2>1, <2>2
<1>16. \A k \in DOMAIN included' : sent'[included'[k].tx].sequence = k
  BY <1>4, <1>5 DEF SerialInv, Include
<1> QED
  BY <1>12, <1>13, <1>14, <1>15, <1>16 DEF SerialInv

\* The list that was read is the store, as no other handler has it.
LEMMA LoadsSerially == ASSUME OneAtATime PROVE Loads = {issuance}
  BY DEF OneAtATime, Loads

LEMMA AskSerially ==
    ASSUME OneAtATime, IInv, SerialInv, NEW w \in Workers,
           NEW a \in Accounts, NEW h \in Hashes, AskIssuance(w, a, h)
    PROVE  SerialInv'
<1>1. PICK l, c, id : /\ l = Put(issuance, id, Open(a, h)) /\ c = NoCall /\ id = Len(made) + 1
  OBVIOUS
<1>2. Resume(w, "save ask", c, l) /\ at[w] = "idle"
  BY <1>1, LoadsSerially DEF AskIssuance
<1>3. id \notin DOMAIN issuance
  BY <1>1 DEF IInv, Shape, Honest, EntryList
<1>4. /\ DOMAIN l = DOMAIN issuance \cup {id} /\ l[id].status = "open"
      /\ \A k \in DOMAIN issuance : l[k] = issuance[k]
  BY <1>1, <1>3 DEF Put, Open
<1>5. NamesWeeks(l) /\ Keeps(l)
  BY <1>4 DEF SerialInv, NamesWeeks, Keeps
<1>6. NothingElsePends("save ask", c)
  BY <1>2 DEF SerialInv, Knows, NothingElsePends
<1>7. Knows("save ask", c, l)
  BY <1>5, <1>6 DEF Knows, Issuing
<1> QED
  BY <1>2, <1>7, QuietSerially DEF AskIssuance

LEMMA IssueSerially ==
    ASSUME OneAtATime, IInv, SerialInv, NEW w \in Workers, NEW week \in Week, Issue(w, week)
    PROVE  SerialInv'
<1>1. PICK request \in AsksFor(issuance, week) :
        Resume(w, "spent", [NoCall EXCEPT !.request = request, !.week = week], << >>)
  BY LoadsSerially DEF Issue
<1>2. PICK c, l : c = [NoCall EXCEPT !.request = request, !.week = week] /\ l = << >>
  OBVIOUS
<1>3. c.request = request
  BY <1>2 DEF NoCall
<1>4. AskIsOpen(c)
  BY <1>3, AsksForMatch DEF AskIsOpen, AskMatches
<1>5. NothingElsePends("spent", c)
  BY DEF Issue, SerialInv, Knows, NothingElsePends
<1>6. Knows("spent", c, l)
  BY <1>4, <1>5 DEF Knows
<1> QED
  BY <1>1, <1>2, <1>6, QuietSerially DEF Issue

\* Every non-empty set of naturals has a least element.
LEMMA LeastNatural ==
    ASSUME NEW S \in SUBSET Nat, S # {}
    PROVE  \E m \in S : \A k \in S : m <= k
<1>1. PICK m \in S : \A k \in S : <<k, m>> \notin OpToRel(<, Nat)
  BY WFMin, NatLessThanWellFounded, Zenon
<1>2. ASSUME NEW k \in S PROVE m <= k
  <2>1. k \in Nat /\ m \in Nat
    OBVIOUS
  <2>2. ~(k < m)
    BY <1>1, <2>1, Zenon DEF OpToRel
  <2> QED
    BY <2>1, <2>2
<1> QED
  BY <1>2

\* The ask a call closes is open, so that a week secured by its hash is another's.
LEMMA CheckSpentSerially ==
    ASSUME OneAtATime, IInv, SerialInv, NEW w \in Workers, CheckSpent(w)
    PROVE  SerialInv'
<1>1. PICK c, l : c = call[w] /\ l = << >>
  OBVIOUS
<1>2. Knows("spent", c, list[w])
  BY <1>1 DEF SerialInv, CheckSpent
<1> DEFINE securing == {id \in DOMAIN issuance : Secures(issuance[id], c.week.hash)}
           first == {id \in securing : \A other \in securing : id <= other}
<1>3. CASE Return(w)
  BY <1>3, ReturnedSerially DEF CheckSpent
<1>4. CASE first \subseteq {c.request} /\ Resume(w, "next", c, l)
  <2>1. securing \in SUBSET Nat
    <3>1. made \in Seq([by : Accounts, hash : Hashes]) /\ DOMAIN issuance \subseteq DOMAIN made
      BY DEF IInv, Shape, Honest, EntryList
    <3> QED
      BY <3>1, SeqElement
  <2>2. c.request \notin securing
    <3>1. 0 \notin DOMAIN issuance
      <4>1. made \in Seq([by : Accounts, hash : Hashes]) /\ DOMAIN issuance \subseteq DOMAIN made
        BY DEF IInv, Shape, Honest, EntryList
      <4> QED
        BY <4>1, SeqElement
    <3> QED
      BY <1>2, <3>1 DEF Knows, AskIsOpen, Issuing, Secures
  <2>3. securing = {}
    <3>1. SUFFICES ASSUME securing # {} PROVE FALSE
      OBVIOUS
    <3> HIDE DEF securing
    <3>2. PICK m \in securing : \A other \in securing : m <= other
      BY <2>1, <3>1, LeastNatural
    <3>3. m \in first
      BY <3>2
    <3> QED
      BY <1>4, <2>2, <3>3
  <2>4. Unspent(c.week.hash)
    BY <2>3 DEF Unspent
  <2>5. Knows("next", c, l)
    BY <1>2, <2>4 DEF Knows, NothingElsePends, Issuing
  <2> QED
    BY <1>1, <1>4, <2>5, QuietSerially DEF CheckSpent
<1> QED
  BY <1>1, <1>3, <1>4, LoadsSerially DEF CheckSpent

LEMMA ReadNextIdSerially ==
    ASSUME OneAtATime, IInv, SerialInv, NEW w \in Workers, ReadNextId(w)
    PROVE  SerialInv'
<1>1. PICK c, d, l : c = call[w] /\ d = [c EXCEPT !.right = Len(weeks) + 1] /\ l = << >>
  OBVIOUS
<1>2. Knows("next", c, list[w]) /\ c \in Call
  BY <1>1 DEF SerialInv, ReadNextId, IInv, CallOK
<1>3. d.right = Len(weeks) + 1 /\ d.request = c.request /\ d.week = c.week
  BY <1>1, <1>2 DEF Call
<1>4. Knows("build", d, l)
  BY <1>2, <1>3 DEF Knows, NothingElsePends, AskIsOpen, IsNext, Issuing
<1> QED
  BY <1>1, <1>4, QuietSerially DEF ReadNextId

LEMMA BuildSerially ==
    ASSUME OneAtATime, IInv, SerialInv, NEW w \in Workers, BuildIssueTx(w)
    PROVE  SerialInv'
<1>1. PICK c, d, l : c = call[w] /\ d = [c EXCEPT !.sequence = Sequence] /\ l = << >>
  OBVIOUS
<1>2. Knows("build", c, list[w]) /\ c \in Call
  BY <1>1 DEF SerialInv, BuildIssueTx, IInv, CallOK
<1>3. d.sequence = Sequence /\ d.right = c.right /\ d.request = c.request /\ d.week = c.week
  BY <1>1, <1>2 DEF Call
<1>4. Knows("submit", d, l)
  BY <1>2, <1>3 DEF Knows, NothingElsePends, AskIsOpen, IsNext, Issuing
<1> QED
  BY <1>1, <1>4, QuietSerially DEF BuildIssueTx

LEMMA SubmitSerially ==
    ASSUME OneAtATime, IInv, SerialInv, NEW w \in Workers, Submit(w)
    PROVE  SerialInv'
<1>1. CASE Return(w) /\ UNCHANGED sent
  BY <1>1, ReturnedSerially DEF Submit, network
<1>2. CASE LET c == [call[w] EXCEPT !.tx = Len(sent) + 1] IN
           sent' = Append(sent, c) /\ Resume(w, "poll", c, << >>)
  <2>1. PICK b, c, l : b = call[w] /\ c = [b EXCEPT !.tx = Len(sent) + 1] /\ l = << >>
    OBVIOUS
  <2>2. Knows("submit", b, list[w]) /\ b \in Call /\ sent \in Seq(Call)
    BY <2>1 DEF SerialInv, Submit, IInv, CallOK, Shape
  <2>3. /\ c.tx = Len(sent) + 1 /\ c.sequence = b.sequence /\ c.right = b.right
        /\ c.request = b.request /\ c.week = b.week /\ c \in Call
    <3>1. PICK n \in Nat : n = Len(sent) + 1
      BY <2>2
    <3> QED
      BY <2>1, <2>2, <3>1 DEF Call
  <2>4. /\ sent' = Append(sent, c) /\ Resume(w, "poll", c, l)
    BY <1>2, <2>1
  <2>5. /\ \A t \in DOMAIN sent : sent'[t] = sent[t]
        /\ \A t \in DOMAIN sent' : t \in DOMAIN sent \/ t = c.tx
    BY <2>2, <2>3, <2>4
  <2>6. UNCHANGED <<weeks, included, issuance, attestations, answers>>
    BY DEF Submit
  <2>7. NothingElsePends("poll", c)'
    BY <2>2, <2>5, <2>6 DEF Knows, NothingElsePends, Sequence
  <2>8. Knows("poll", c, l)'
    BY <2>2, <2>3, <2>6, <2>7
       DEF Knows, AskIsOpen, Unspent, IsNext, Sequence, Issuing
  <2>9. \A v \in Workers : Knows(at[v], call[v], list[v])'
    BY <2>4, <2>8, KnownSerially
  <2>10. \A k \in DOMAIN included' : sent'[included'[k].tx].sequence = k
    BY <2>5, <2>6 DEF SerialInv, IInv, Transactions
  <2> QED
    BY <2>6, <2>9, <2>10
       DEF SerialInv, AttestationIsOfItsWeek, NamesWeeks, LeftOpenIsSaid, OneSecretPerWeek
<1> QED
  BY <1>1, <1>2 DEF Submit

\* Once its transaction is on the ledger, nothing of the call is pending.
LEMMA SettledSerially ==
    ASSUME OneAtATime, IInv, SerialInv, NEW w \in Workers, at[w] = "poll",
           NEW k \in DOMAIN included, included[k].tx = call[w].tx
    PROVE  /\ included[k].successful => IsLast(call[w])
           /\ \A place, c : NothingElsePends(place, c)
<1>1. PICK c, l : c = call[w] /\ l = list[w]
  OBVIOUS
<1>2. Knows("poll", c, l) /\ c.tx \in DOMAIN sent /\ sent[c.tx] = c
  BY <1>1 DEF SerialInv, IInv, CallOK
<1>3. k \in Nat /\ k < Len(included) + 1 /\ included \in Seq([tx : Nat, successful : BOOLEAN])
  BY DEF IInv, Shape
<1>4. c.sequence = k /\ c.sequence # Sequence /\ c.sequence < Sequence
  BY <1>1, <1>2, <1>3 DEF SerialInv, Sequence
<1>5. LastIncluded(c)
  BY <1>2, <1>4 DEF Knows
<1>6. PICK last \in DOMAIN included :
        /\ last = Len(included) /\ included[last].tx = c.tx
        /\ included[last].successful => IsLast(c)
  BY <1>5 DEF LastIncluded
<1>7. last = k
  BY <1>2, <1>4, <1>6 DEF SerialInv
<1>8. \A place, d : NothingElsePends(place, d)
  BY <1>2, <1>4 DEF Knows, NothingElsePends
<1> QED
  BY <1>1, <1>6, <1>7, <1>8

LEMMA LeaveSerially ==
    ASSUME OneAtATime, IInv, SerialInv, UNCHANGED <<network, issuance, attestations, answers>>,
           NEW w \in Workers, Return(w), NothingElsePends("idle", NoCall)
    PROVE  SerialInv'
<1>1. PICK c, l : c = NoCall /\ l = << >>
  OBVIOUS
<1>2. Knows("idle", c, l)
  BY <1>1 DEF Knows, Issuing
<1> QED
  BY <1>1, <1>2, QuietSerially DEF Return

LEMMA PollSerially ==
    ASSUME OneAtATime, IInv, SerialInv, NEW w \in Workers, Poll(w)
    PROVE  SerialInv'
<1>1. PICK k \in DOMAIN included :
        /\ included[k].tx = call[w].tx
        /\ IF included[k].successful THEN Resume(w, "attest", call[w], << >>) ELSE Return(w)
  BY DEF Poll
<1>2. \A place, d : NothingElsePends(place, d)
  BY <1>1, SettledSerially DEF Poll
<1>3. CASE Return(w)
  BY <1>2, <1>3, LeaveSerially DEF Poll
<1>4. CASE included[k].successful /\ Resume(w, "attest", call[w], << >>)
  <2>1. PICK c, l : c = call[w] /\ l = << >>
    OBVIOUS
  <2>2. IsLast(c)
    BY <1>1, <1>4, <2>1, SettledSerially DEF Poll
  <2>3. Knows("attest", c, l)
    BY <1>2, <2>1, <2>2 DEF SerialInv, Knows, Poll, Issuing
  <2> QED
    BY <1>4, <2>1, <2>3, QuietSerially DEF Poll
<1> QED
  BY <1>1, <1>3, <1>4

LEMMA AbandonSerially ==
    ASSUME OneAtATime, IInv, SerialInv, NEW w \in Workers, Abandon(w)
    PROVE  SerialInv'
<1>1. CASE at[w] = "poll"
  <2>1. Settled(call[w])
    BY <1>1 DEF Abandon, OneAtATime
  <2>2. NothingElsePends("idle", NoCall)
    BY <1>1, <2>1, SettledSerially DEF Settled
  <2> QED
    BY <2>2, LeaveSerially DEF Abandon
<1>2. CASE at[w] # "poll"
  BY <1>2, ReturnedSerially DEF Abandon
<1> QED
  BY <1>1, <1>2

LEMMA SaveAttestationSerially ==
    ASSUME OneAtATime, IInv, SerialInv, NEW w \in Workers, SaveAttestation(w)
    PROVE  SerialInv'
<1>1. PICK c, saved : c = call[w] /\ saved = Put(attestations, c.right, c.week.record)
  OBVIOUS
<1>2. Knows("attest", c, list[w])
  BY <1>1 DEF SerialInv, SaveAttestation
<1>3. IsLast(c)
  BY <1>2 DEF Knows
<1>4. attestations' = saved \/ attestations' = attestations
  BY <1>1 DEF SaveAttestation
<1>5. \A i \in DOMAIN saved :
        \/ i \in DOMAIN attestations /\ saved[i] = attestations[i]
        \/ i = c.right /\ saved[i] = c.week.record
  BY <1>1 DEF Put
<1>6. AttestationIsOfItsWeek'
  BY <1>3, <1>4, <1>5 DEF SerialInv, AttestationIsOfItsWeek, IsLast, SaveAttestation, network
<1>7. PICK place, d, l : Resume(w, place, d, l) /\ Knows(place, d, l)
  <2>1. PICK l, none : l = << >> /\ none = NoCall
    OBVIOUS
  <2>2. Knows("close", c, l)
    BY <1>2 DEF Knows, NothingElsePends, Issuing
  <2>3. Knows("idle", none, l)
    BY <2>1, IdleKnows DEF SaveAttestation
  <2> QED
    BY <1>1, <2>1, <2>2, <2>3 DEF SaveAttestation, Return
<1>8. UNCHANGED <<weeks, sent, included, issuance, answers>>
  BY DEF SaveAttestation, network
<1>9. Knows(place, d, l)'
  BY <1>7, <1>8 DEF Knows, NothingElsePends, Sequence, AskIsOpen, Unspent, IsNext, IsLast,
                    LastIncluded, NamesWeeks, Keeps
<1>10. \A v \in Workers : Knows(at[v], call[v], list[v])'
  BY <1>7, <1>9, KnownSerially
<1> QED
  BY <1>6, <1>8, <1>10 DEF SerialInv, NamesWeeks, LeftOpenIsSaid, OneSecretPerWeek

\* The list to be saved loses nothing of the store, and has the hash as spent.
LEMMA CloseSerially ==
    ASSUME OneAtATime, IInv, SerialInv, NEW w \in Workers, Close(w)
    PROVE  SerialInv'
<1>1. PICK c : c = call[w]
  OBVIOUS
<1>2. Knows("close", c, list[w]) /\ CallOK("close", c, list[w])
  BY <1>1 DEF SerialInv, Close, IInv
<1>3. /\ AskIsOpen(c) /\ IsLast(c) /\ \A place : place # "poll" => NothingElsePends(place, c)
      /\ c.week \in Week /\ ClosesItsAsk(c)
  BY <1>2 DEF Knows, CallOK, Issuing, NothingElsePends
<1>4. ASSUME NEW l, NEW id, DOMAIN l = DOMAIN issuance \cup {id},
             \A k \in DOMAIN issuance : k # id => l[k] = issuance[k],
             id \in DOMAIN issuance => issuance[id].status = "open",
             l[id].status = "issued", l[id].right = c.right,
             l[id].by = c.week.owner, l[id].hash = c.week.hash
      PROVE  Knows("save", c, l)
  <2>1. NamesWeeks(l)
    BY <1>3, <1>4 DEF SerialInv, NamesWeeks, IsLast
  <2>2. Keeps(l)
    BY <1>4 DEF Keeps
  <2>3. Secures(l[id], c.week.hash) /\ id \in DOMAIN l
    BY <1>4 DEF Secures
  <2> QED
    BY <1>3, <2>1, <2>2, <2>3 DEF Knows
<1>5. CASE /\ c.request \in DOMAIN issuance
           /\ Resume(w, "save", c, [issuance EXCEPT ![c.request] = Mark(@, c)])
           /\ UNCHANGED answers
  <2>1. PICK id, l : /\ id = c.request
                     /\ l = [issuance EXCEPT ![id] = Mark(issuance[id], c)]
    OBVIOUS
  <2>2. /\ id \in DOMAIN issuance /\ issuance[id] \in Entry /\ id \in DOMAIN made
        /\ issuance[id].by = made[id].by /\ issuance[id].hash = made[id].hash
    BY <1>5, <2>1 DEF IInv, Honest, EntryList
  <2>3. id # 0
    BY <2>2, SeqElement DEF IInv, Shape
  <2>4. /\ issuance[id].status = "open"
        /\ issuance[id].by = c.week.owner /\ issuance[id].hash = c.week.hash
    BY <1>3, <2>1, <2>2, <2>3 DEF AskIsOpen, ClosesItsAsk
  <2>5. /\ DOMAIN l = DOMAIN issuance \cup {id} /\ l[id] = Mark(issuance[id], c)
        /\ \A k \in DOMAIN issuance : k # id => l[k] = issuance[k]
    BY <2>1, <2>2
  <2>6. /\ l[id].status = "issued" /\ l[id].right = c.right
        /\ l[id].by = issuance[id].by /\ l[id].hash = issuance[id].hash
    BY <2>2, <2>5 DEF Mark, Entry
  <2>7. Knows("save", c, l)
    BY <1>4, <2>4, <2>5, <2>6
  <2> QED
    BY <1>5, <2>1, <2>7, QuietSerially DEF Close
<1>6. CASE c.request # 0 /\ c.request \notin DOMAIN issuance
  BY <1>3, <1>6 DEF AskIsOpen
<1>7. CASE /\ Resume(w, "save", c, Put(issuance, Len(made) + 1,
                                       Mark(Open(c.week.owner, c.week.hash), c)))
           /\ UNCHANGED answers
  <2>1. PICK id, l : /\ id = Len(made) + 1
                     /\ l = Put(issuance, id, Mark(Open(c.week.owner, c.week.hash), c))
    OBVIOUS
  <2>2. id \notin DOMAIN issuance
    BY <2>1 DEF IInv, Shape, Honest, EntryList
  <2>3. /\ DOMAIN l = DOMAIN issuance \cup {id}
        /\ l[id] = Mark(Open(c.week.owner, c.week.hash), c)
        /\ \A k \in DOMAIN issuance : k # id => l[k] = issuance[k]
    BY <2>1 DEF Put
  <2>4. /\ l[id].status = "issued" /\ l[id].right = c.right
        /\ l[id].by = c.week.owner /\ l[id].hash = c.week.hash
    BY <2>3 DEF Mark, Open
  <2>5. Knows("save", c, l)
    BY <1>4, <2>2, <2>3, <2>4
  <2> QED
    BY <1>7, <2>1, <2>5, QuietSerially DEF Close
<1> QED
  BY <1>1, <1>5, <1>6, <1>7, LoadsSerially DEF Close

\* Saving a list that loses nothing keeps what was said of the store.
LEMMA SavesSerially ==
    ASSUME OneAtATime, IInv, SerialInv, NEW w \in Workers, SaveAsk(w) \/ SaveIssuance(w)
    PROVE  SerialInv'
<1>1. PICK c, l : c = call[w] /\ l = list[w]
  OBVIOUS
<1>2. Knows(at[w], c, l) /\ at[w] \in {"save ask", "save"}
  BY <1>1 DEF SerialInv, SaveAsk, SaveIssuance
<1>3. NamesWeeks(l) /\ Keeps(l) /\ NothingElsePends("idle", NoCall)
  BY <1>2 DEF Knows, NothingElsePends
<1>4. UNCHANGED <<weeks, sent, included, attestations>> /\ issuance' \in {l, issuance}
  BY <1>1 DEF SaveAsk, SaveIssuance, network
<1>5. \A v \in Workers : Knows(at[v], call[v], list[v])'
  <2>1. PICK d, k : d = NoCall /\ k = << >>
    OBVIOUS
  <2>2. Knows("idle", d, k)'
    BY <1>3, <1>4, <2>1 DEF Knows, NothingElsePends, Sequence, Issuing
  <2> QED
    BY <2>1, <2>2, KnownSerially DEF SaveAsk, SaveIssuance, Return
<1>6. AttestationIsOfItsWeek' /\ NamesWeeks(issuance)'
  BY <1>3, <1>4 DEF SerialInv, AttestationIsOfItsWeek, NamesWeeks
<1>7. ASSUME NEW h, \E id \in DOMAIN issuance : Secures(issuance[id], h)
      PROVE  \E id \in DOMAIN issuance' : Secures(issuance'[id], h)
  BY <1>3, <1>4, <1>7 DEF Keeps, Secures
<1>8. \A answer \in answers' :
        \/ answer \in answers
        \/ answer.weeks = Len(weeks) /\ answer.hash = c.week.hash
           /\ (~answer.note => at[w] = "save" /\ issuance' = l)
  <2>1. CASE SaveAsk(w)
    BY <2>1 DEF SaveAsk
  <2>2. CASE at[w] = "save" /\ issuance' = l /\ Told(w, FALSE)
    BY <1>1, <2>2 DEF Told
  <2>3. CASE Told(w, TRUE)
    BY <1>1, <2>3 DEF Told
  <2> QED
    BY <1>1, <2>1, <2>2, <2>3 DEF SaveIssuance
<1>9. LeftOpenIsSaid'
  BY <1>2, <1>7, <1>8 DEF SerialInv, LeftOpenIsSaid, Knows
<1>10. OneSecretPerWeek' /\ \A answer \in answers' : answer.weeks <= Len(weeks')
  <2>1. weeks \in Seq(Week)
    BY DEF IInv, Shape
  <2>2. \A i \in DOMAIN weeks : ~(i > Len(weeks))
    BY <2>1
  <2>3. Len(weeks) <= Len(weeks)
    BY <2>1
  <2> QED
    BY <1>4, <1>8, <2>2, <2>3 DEF SerialInv, OneSecretPerWeek
<1>11. \A k \in DOMAIN included' : sent'[included'[k].tx].sequence = k
  BY <1>4 DEF SerialInv
<1> QED
  BY <1>5, <1>6, <1>9, <1>10, <1>11 DEF SerialInv

LEMMA StepSerially ==
    ASSUME OneAtATime, IInv, SerialInv, [Next]_vars
    PROVE  SerialInv'
<1>1. CASE UNCHANGED vars
  <2>1. PICK w \in Workers : Workers = {w}
    BY DEF OneAtATime
  <2>2. PICK place, c, l : place = at[w] /\ c = call[w] /\ l = list[w]
    OBVIOUS
  <2>3. Resume(w, place, c, l) /\ Knows(place, c, l)
    BY <1>1, <2>2 DEF Resume, vars, handlers, SerialInv, IInv, Shape
  <2> QED
    BY <1>1, <2>3, QuietSerially DEF vars
<1>2. ASSUME NEW t \in DOMAIN sent, Include(t) PROVE SerialInv'
  BY <1>2, IncludeSerially
<1>3. ASSUME NEW w \in Workers, NEW a \in Accounts, NEW h \in Hashes, AskIssuance(w, a, h)
      PROVE SerialInv'
  BY <1>3, AskSerially
<1>4. ASSUME NEW w \in Workers, NEW week \in Week, Issue(w, week) PROVE SerialInv'
  BY <1>4, IssueSerially
<1>5. ASSUME NEW w \in Workers,
             CheckSpent(w) \/ ReadNextId(w) \/ BuildIssueTx(w) \/ Submit(w)
      PROVE SerialInv'
  BY <1>5, CheckSpentSerially, ReadNextIdSerially, BuildSerially, SubmitSerially
<1>6. ASSUME NEW w \in Workers, Poll(w) \/ SaveAttestation(w) \/ Close(w) PROVE SerialInv'
  BY <1>6, PollSerially, SaveAttestationSerially, CloseSerially
<1>7. ASSUME NEW w \in Workers, SaveAsk(w) \/ SaveIssuance(w) \/ Abandon(w) PROVE SerialInv'
  BY <1>7, SavesSerially, AbandonSerially
<1> QED
  BY <1>1, <1>2, <1>3, <1>4, <1>5, <1>6, <1>7 DEF Next

LEMMA SerialInvariant == ASSUME OneAtATime PROVE Spec => []SerialInv
<1>1. IInv /\ SerialInv /\ [Next]_vars => SerialInv'
  BY StepSerially
<1> QED
  BY <1>1, InitSerially, Invariant, PTL DEF Spec

\* With one handler at a time, which waits for its transaction, the attestation under an id is
\* about the record of the week with that id (issue/route.ts, 18-19), for any number of weeks.
THEOREM AttestationsAreOfTheirWeeks ==
    ASSUME OneAtATime PROVE Spec => []AttestationIsOfItsWeek
  BY SerialInvImplies, SerialInvariant, PTL

\* With one handler at a time, an issued ask names the week it was issued as
\* (lib/requests.ts, 321-332).
THEOREM IssuedAsksNameTheirWeeks ==
    ASSUME OneAtATime PROVE Spec => []IssuedNamesItsWeek
  BY SerialInvImplies, SerialInvariant, PTL

\* With one handler at a time, an issuer told of nothing left open left the secret on record
\* (issue/route.ts, 217), also when writes fail after they were applied.
THEOREM NothingIsLeftUnsaid ==
    ASSUME OneAtATime PROVE Spec => []LeftOpenIsSaid
  BY SerialInvImplies, SerialInvariant, PTL

\* With one handler at a time, no later week has a secret that was reported as used
\* (issue/route.ts, 159-160).
THEOREM SecretsAreSpent ==
    ASSUME OneAtATime PROVE Spec => []OneSecretPerWeek
  BY SerialInvImplies, SerialInvariant, PTL
=============================================================================
