--------------------------- MODULE RequestsProofs ---------------------------
(***************************************************************************)
(* What holds of the transfer requests for any number of accounts,         *)
(* handlers and asks, however the handlers interleave and whichever reads  *)
(* and writes of the store fail: an acceptance is recorded only after the  *)
(* week came to the asker, and every answer on record is one its giver was *)
(* entitled to.  And what holds besides with one handler at a time: what a *)
(* caller was told stays so.                                               *)
(***************************************************************************)
EXTENDS Requests, TLAPS

-----------------------------------------------------------------------------
(* The inductive invariant *)

\* How possession can have passed from one account to the next.  The last
\* conjunct is what matters: whoever is in possession at j, and was not at an
\* earlier, open-ended possession s, got the week by a transfer after s.
PossessionPasses ==
    /\ \A j \in DOMAIN possession :
          /\ j = 1 => ~OnTerm(possession[j]) /\ possession[j].how # "lapse"
          /\ j > 1 /\ OnTerm(possession[j]) => ~OnTerm(possession[j - 1])
    /\ \A s, j \in DOMAIN possession :
          s < j /\ ~OnTerm(possession[s]) /\ possession[j].holder # possession[s].holder =>
             \E i \in (s + 1)..j :
                possession[i].holder = possession[j].holder /\ possession[i].how \in Kinds

\* What an ask rests on: when the handler looked, somebody else held the week,
\* by title.
AskOf(by, since) ==
    /\ since \in DOMAIN possession
    /\ possession[since].holder # by
    /\ ~OnTerm(possession[since])

AsksWellFounded == \A id \in DOMAIN asked : AskOf(asked[id].by, asked[id].since)

Came(id) ==
    \E i \in (asked[id].since + 1)..Len(possession) :
        possession[i].holder = asked[id].by /\ possession[i].how \in Kinds

\* The account `by` may say `status` of the request, and it is so.
Deserved(by, id, status) ==
    /\ \/ status = "withdrawn" /\ by = asked[id].by
       \/ status = "declined" /\ \E i \in asked[id].since..Len(possession) :
                                    possession[i].holder = by
       \/ status = "accepted" /\ by = possession[asked[id].since].holder
    /\ status = "accepted" => Came(id)

Settled(id, status) ==
    \E r \in writes : r.id = id /\ r.status = status /\ Deserved(r.by, id, status)

\* A request on some list, answered or not, is the ask it was.
Genuine(id, request) ==
    /\ id \in DOMAIN asked
    /\ request \in TransferRequest
    /\ request.by = asked[id].by
    /\ request.to_holder = possession[asked[id].since].holder

ListSettled(requests, own) ==
    /\ requests \in [DOMAIN requests -> TransferRequest]
    /\ \A id \in DOMAIN requests :
          /\ Genuine(id, requests[id])
          /\ requests[id].status # "open" /\ id # own => Settled(id, requests[id].status)

\* What a call has established at the await it is suspended in.
CallOK(place, c, l) ==
    /\ c \in Call /\ c.holding \in 0..Len(possession)
    /\ ListSettled(l, c.id)
    /\ place # "idle" => c.by \in Accounts
    /\ place \in {"row", "consent"} => c.answer = None
    /\ place = "consent" => c.listing \in Kinds /\ AskOf(c.by, c.holding)
    /\ place \in {"find", "holding", "update"} => c.id \in DOMAIN asked /\ c.answer \in Answers
    /\ place = "holding" => c.id \in DOMAIN l /\ c.answer # "withdrawn"
    /\ place = "update" => Deserved(c.by, c.id, c.answer)
    /\ place = "save" =>
          /\ c.id \in DOMAIN l
          /\ \/ c.answer = None /\ l[c.id].status = "open"
             \/ /\ c.answer \in Answers /\ l[c.id].status = c.answer
                /\ Deserved(c.by, c.id, c.answer)

Places == {"idle", "row", "consent", "find", "holding", "update", "save"}
Write == [by : Accounts, id : Nat, status : Statuses, outcome : {"stored", "refused", "gone"}]

Shape ==
    /\ possession \in Seq(Possession) /\ possession # << >>
    /\ offer \in Kinds \cup {None} /\ ended \in BOOLEAN
    /\ prepared \in Transfer \cup {None}
    /\ asked \in Seq([by : Accounts, term : Kinds, since : Nat])
    /\ writes \subseteq Write
    /\ at \in [Workers -> Places]
    /\ DOMAIN call = Workers /\ DOMAIN list = Workers

IInv ==
    /\ Shape
    /\ PossessionPasses
    /\ AsksWellFounded
    /\ ListSettled(store, 0)
    /\ call = [w \in Workers |-> call[w]] /\ list = [w \in Workers |-> list[w]]
    /\ \A w \in Workers : CallOK(at[w], call[w], list[w])

LEMMA IInvImplies == IInv => TypeOK /\ AcceptedMeansMoved /\ AnswersAreTheirsToGive
<1> SUFFICES ASSUME IInv PROVE TypeOK /\ AcceptedMeansMoved /\ AnswersAreTheirsToGive
  OBVIOUS
<1>1. TypeOK
  <2>1. RequestList(store)
    BY DEF IInv, ListSettled, RequestList, Genuine
  <2>2. call \in [Workers -> Call]
    BY DEF IInv, CallOK
  <2>3. ASSUME NEW w \in Workers
        PROVE /\ RequestList(list[w])
              /\ at[w] \in {"holding", "save"} => call[w].id \in DOMAIN list[w]
              /\ at[w] # "idle" => call[w].by \in Accounts
              /\ call[w].holding \in 0..Len(possession)
    BY <2>3 DEF IInv, CallOK, ListSettled, RequestList, Genuine
  <2>4. Shape
    BY DEF IInv
  <2> QED
    BY <2>1, <2>2, <2>3, <2>4 DEF Shape, Places, Write, TypeOK
<1>2. AcceptedMeansMoved
  <2> SUFFICES ASSUME NEW id \in DOMAIN store, store[id].status = "accepted"
               PROVE  Came(id)
    BY DEF AcceptedMeansMoved, Came
  <2>1. 0 # id
    BY DEF IInv, ListSettled, Genuine, Shape
  <2>2. Settled(id, store[id].status)
    BY <2>1 DEF IInv, ListSettled
  <2> QED
    BY <2>2 DEF Settled, Deserved
<1>3. AnswersAreTheirsToGive
  <2> SUFFICES ASSUME NEW id \in DOMAIN store, store[id].status # "open"
               PROVE  \E r \in writes : r.id = id /\ r.status = store[id].status /\ Entitled(r)
    BY DEF AnswersAreTheirsToGive
  <2>1. 0 # id
    BY DEF IInv, ListSettled, Genuine, Shape
  <2>2. Settled(id, store[id].status)
    BY <2>1 DEF IInv, ListSettled
  <2> QED
    BY <2>2 DEF Settled, Deserved, Entitled
<1> QED
  BY <1>1, <1>2, <1>3

-----------------------------------------------------------------------------
(* History only grows, and nothing that was established is ever undone. *)

Grows ==
    /\ possession' \in Seq(Possession) /\ Len(possession) <= Len(possession')
    /\ \A i \in DOMAIN possession : possession'[i] = possession[i]
    /\ asked' \in Seq([by : Accounts, term : Kinds, since : Nat]) /\ Len(asked) <= Len(asked')
    /\ \A i \in DOMAIN asked : asked'[i] = asked[i]
    /\ writes \subseteq writes'

LEMMA DeservedPersists ==
    ASSUME IInv, Grows, NEW by, NEW id \in DOMAIN asked, NEW status,
           Deserved(by, id, status)
    PROVE  Deserved(by, id, status)'
<1> DEFINE since == asked[id].since
<1>0. /\ DOMAIN possession = 1..Len(possession) /\ Len(possession) \in Nat
      /\ Len(possession') \in Nat
  BY DEF IInv, Shape, Grows
<1>5. since \in DOMAIN possession
  BY DEF IInv, AsksWellFounded, AskOf
<1>6. asked'[id] = asked[id]
  BY DEF Grows
<1>1. since \in 1..Len(possession) /\ asked'[id] = asked[id]
  BY <1>0, <1>5, <1>6
<1>2. \A i \in since..Len(possession) :
        i \in since..Len(possession)' /\ possession'[i] = possession[i]
  <2>1. /\ Len(possession) <= Len(possession')
        /\ \A i \in 1..Len(possession) : possession'[i] = possession[i]
    BY <1>0 DEF Grows
  <2>2. since \in Nat /\ since >= 1
    BY <1>1
  <2> QED
    BY <1>0, <2>1, <2>2
<1>3. Came(id) => Came(id)'
  BY <1>1, <1>2 DEF Came
<1>4. possession'[since] = possession[since]
  BY <1>1, <1>2 DEF IInv, Shape
<1> QED
  BY <1>1, <1>2, <1>3, <1>4 DEF Deserved

LEMMA ListPersists ==
    ASSUME IInv, Grows, NEW l, NEW own, ListSettled(l, own)
    PROVE  ListSettled(l, own)'
<1>1. ASSUME NEW id \in DOMAIN l PROVE Genuine(id, l[id])'
  <2>1. Genuine(id, l[id])
    BY <1>1 DEF ListSettled
  <2>2. asked[id].since \in DOMAIN possession
    BY <2>1 DEF IInv, AsksWellFounded, AskOf, Genuine
  <2>3. asked'[id] = asked[id] /\ id \in DOMAIN asked'
    BY <2>1 DEF Genuine, Grows, IInv, Shape
  <2>4. possession'[asked[id].since] = possession[asked[id].since]
    BY <2>2 DEF Grows
  <2> QED
    BY <2>1, <2>3, <2>4 DEF Genuine
<1>2. ASSUME NEW id \in DOMAIN l, l[id].status # "open", id # own
      PROVE Settled(id, l[id].status)'
  <2>1. Settled(id, l[id].status) /\ id \in DOMAIN asked
    BY <1>2 DEF ListSettled, Genuine
  <2>2. PICK r \in writes : r.id = id /\ r.status = l[id].status
                            /\ Deserved(r.by, id, l[id].status)
    BY <2>1 DEF Settled
  <2>3. Deserved(r.by, id, l[id].status)'
    BY <2>1, <2>2, DeservedPersists
  <2> QED
    BY <2>2, <2>3 DEF Settled, Grows
<1> QED
  BY <1>1, <1>2 DEF ListSettled

LEMMA CallPersists ==
    ASSUME IInv, Grows, NEW place, NEW c, NEW l, CallOK(place, c, l)
    PROVE  CallOK(place, c, l)'
<1>1. ListSettled(l, c.id)'
  BY ListPersists DEF CallOK
<1>2. ASSUME AskOf(c.by, c.holding) PROVE AskOf(c.by, c.holding)'
  BY <1>2 DEF AskOf, OnTerm, Grows, IInv, Shape
<1>3. c.id \in DOMAIN asked => c.id \in DOMAIN asked'
  BY DEF Grows, IInv, Shape
<1>4. ASSUME c.id \in DOMAIN asked, Deserved(c.by, c.id, c.answer)
      PROVE Deserved(c.by, c.id, c.answer)'
  BY <1>4, DeservedPersists
<1>5. place = "save" => c.id \in DOMAIN asked
  BY DEF CallOK, ListSettled, Genuine
<1> QED
  BY <1>1, <1>2, <1>3, <1>4, <1>5 DEF CallOK, Grows, IInv, Shape

\* A call that returned has established nothing.
LEMMA IdleOK == possession \in Seq(Possession) => CallOK("idle", NoCall, << >>)
  BY DEF CallOK, NoCall, Called, Call, ListSettled, Genuine, Settled

-----------------------------------------------------------------------------
(* Two ways a step can leave the workers: none moved, or one was resumed. *)

LEMMA StoreAndHistory ==
    ASSUME IInv, Grows, store' = store
    PROVE  ListSettled(store, 0)'
<1>1. PICK l : l = store
  OBVIOUS
<1>2. ListSettled(l, 0)'
  BY <1>1, ListPersists DEF IInv
<1> QED
  BY <1>1, <1>2 DEF ListSettled

LEMMA HandlersStay ==
    ASSUME IInv, Grows, Shape', PossessionPasses', AsksWellFounded',
           ListSettled(store, 0)', UNCHANGED handlers
    PROVE  IInv'
<1>1. ASSUME NEW v \in Workers PROVE CallOK(at[v], call[v], list[v])'
  <2>1. PICK place, c, l : place = at[v] /\ c = call[v] /\ l = list[v]
    OBVIOUS
  <2>2. CallOK(place, c, l)'
    BY <2>1, CallPersists DEF IInv
  <2> QED
    BY <2>1, <2>2 DEF handlers
<1> QED
  BY <1>1 DEF IInv, handlers

LEMMA Resumed ==
    ASSUME IInv, Grows, Shape', PossessionPasses', AsksWellFounded', ListSettled(store, 0)',
           NEW w \in Workers, NEW place, NEW c, NEW l,
           Resume(w, place, c, l), CallOK(place, c, l)'
    PROVE  IInv'
<1>1. ASSUME NEW v \in Workers PROVE CallOK(at[v], call[v], list[v])'
  <2>1. CASE v = w
    BY <2>1 DEF Resume, IInv, Shape
  <2>2. CASE v # w
    <3>1. PICK p, d, k : p = at[v] /\ d = call[v] /\ k = list[v]
      OBVIOUS
    <3>2. CallOK(p, d, k)'
      BY <3>1, CallPersists DEF IInv
    <3> QED
      BY <2>2, <3>1, <3>2 DEF Resume, IInv, Shape
  <2> QED
    BY <2>1, <2>2
<1>2. call' = [v \in Workers |-> call'[v]] /\ list' = [v \in Workers |-> list'[v]]
  BY DEF Resume, IInv, Shape
<1> QED
  BY <1>1, <1>2 DEF IInv

\* A step of one worker that touches neither the contract nor the history.
LEMMA QuietlyResumed ==
    ASSUME IInv, UNCHANGED <<contract, store, asked, writes>>,
           NEW w \in Workers, NEW place \in Places, NEW c, NEW l,
           Resume(w, place, c, l), CallOK(place, c, l)
    PROVE  IInv'
<1>1. Grows
  BY DEF Grows, contract, IInv, Shape
<1>2. Shape'
  BY DEF Shape, IInv, contract, Resume
<1>3. PossessionPasses' /\ AsksWellFounded'
  BY DEF IInv, contract, PossessionPasses, AsksWellFounded, AskOf, OnTerm
<1>4. ListSettled(store, 0)'
  BY <1>1, StoreAndHistory
<1>5. CallOK(place, c, l)'
  BY <1>1, CallPersists
<1> QED
  BY <1>1, <1>2, <1>3, <1>4, <1>5, Resumed

LEMMA Returned ==
    ASSUME IInv, UNCHANGED <<contract, store, asked, writes>>, NEW w \in Workers, Return(w)
    PROVE  IInv'
<1>1. CallOK("idle", NoCall, << >>)
  BY IdleOK DEF IInv, Shape
<1>2. PICK c, l : c = NoCall /\ l = << >>
  OBVIOUS
<1> QED
  BY <1>1, <1>2, QuietlyResumed DEF Return, Places

-----------------------------------------------------------------------------
(* The initial states *)

LEMMA InitIInv == Init => IInv
<1> SUFFICES ASSUME Init PROVE IInv
  OBVIOUS
<1>1. Shape
  <2>1. [holder |-> Owner, how |-> "issue", ask |-> 0] \in Possession
    BY RequestsAssumption DEF Possession
  <2>2. possession \in Seq(Possession) /\ possession # << >>
    BY <2>1 DEF Init
  <2>3. asked \in Seq([by : Accounts, term : Kinds, since : Nat]) /\ writes \subseteq Write
    BY DEF Init
  <2>4. at \in [Workers -> Places] /\ DOMAIN call = Workers /\ DOMAIN list = Workers
    BY DEF Init, Places
  <2>5. offer \in Kinds \cup {None} /\ ended \in BOOLEAN /\ prepared \in Transfer \cup {None}
    BY DEF Init
  <2> QED
    BY <2>2, <2>3, <2>4, <2>5 DEF Shape
<1>2. PossessionPasses /\ AsksWellFounded
  BY DEF Init, PossessionPasses, AsksWellFounded, OnTerm
<1>3. ListSettled(store, 0)
  BY DEF Init, ListSettled, Genuine, Settled
<1>4. CallOK("idle", NoCall, << >>)
  BY <1>1, IdleOK DEF Shape
<1> QED
  BY <1>1, <1>2, <1>3, <1>4 DEF IInv, Init

-----------------------------------------------------------------------------
(* The contract's steps *)

\* The week moves on, by a transfer or a lapse.
LEMMA MovesPass ==
    ASSUME IInv, NEW holder \in Accounts, NEW how, NEW ask \in Nat, Moves(holder, how, ask),
           \/ how \in Kinds /\ ~OnTerm(Current)
           \/ how = "lapse" /\ OnTerm(Current) /\ holder = possession[Len(possession) - 1].holder
    PROVE  PossessionPasses'
<1> DEFINE n == Len(possession)
<1>1. /\ possession \in Seq(Possession) /\ n \in Nat /\ n > 0
      /\ Len(possession') = n + 1
      /\ \A i \in 1..n : possession'[i] = possession[i]
      /\ possession'[n + 1] = [holder |-> holder, how |-> how, ask |-> ask]
  BY DEF IInv, Shape, Moves
<1>0. \A s, j \in 1..n :
          s < j /\ ~OnTerm(possession[s]) /\ possession[j].holder # possession[s].holder =>
             \E i \in (s + 1)..j :
                possession[i].holder = possession[j].holder /\ possession[i].how \in Kinds
  <2>1. DOMAIN possession = 1..n
    BY <1>1
  <2> QED
    BY <2>1 DEF IInv, PossessionPasses
<1>2. \A j \in 1..(n + 1) :
        /\ j = 1 => ~OnTerm(possession'[j]) /\ possession'[j].how # "lapse"
        /\ j > 1 /\ OnTerm(possession'[j]) => ~OnTerm(possession'[j - 1])
  BY <1>1 DEF IInv, PossessionPasses, OnTerm, Current
<1>3. ASSUME NEW s \in 1..(n + 1), NEW j \in 1..(n + 1), s < j, ~OnTerm(possession'[s]),
             possession'[j].holder # possession'[s].holder
      PROVE  \E i \in (s + 1)..j :
                possession'[i].holder = possession'[j].holder /\ possession'[i].how \in Kinds
  <2>1. CASE j <= n
    <3>0. /\ s \in 1..n /\ j \in 1..n
          /\ possession'[s] = possession[s] /\ possession'[j] = possession[j]
      BY <1>1, <1>3, <2>1
    <3>2. ~OnTerm(possession[s]) /\ possession[j].holder # possession[s].holder
      BY <1>3, <3>0 DEF OnTerm
    <3>1. PICK i \in (s + 1)..j :
              possession[i].holder = possession[j].holder /\ possession[i].how \in Kinds
      BY <1>0, <1>3, <3>0, <3>2
    <3> QED
      BY <1>1, <2>1, <3>1
  <2>2. CASE j = n + 1 /\ how \in Kinds
    BY <1>1, <1>3, <2>2
  <2>3. CASE j = n + 1 /\ how \notin Kinds
    <3>1. OnTerm(possession[n]) /\ holder = possession[n - 1].holder
      BY <2>3 DEF Current
    <3>2. n > 1 /\ ~OnTerm(possession[n - 1])
      BY <1>1, <3>1 DEF IInv, PossessionPasses
    <3>3. s < n - 1
      BY <1>1, <1>3, <2>3, <3>1, <3>2
    <3>4. PICK i \in (s + 1)..(n - 1) :
              possession[i].holder = possession[n - 1].holder /\ possession[i].how \in Kinds
      <4>1. s \in 1..n /\ n - 1 \in 1..n /\ possession'[s] = possession[s]
        BY <1>1, <3>2, <3>3
      <4>2. ~OnTerm(possession[s]) /\ possession[n - 1].holder # possession[s].holder
        BY <1>1, <1>3, <2>3, <3>1, <4>1 DEF OnTerm
      <4> QED
        BY <1>0, <3>3, <4>1, <4>2
    <3>5. /\ i \in 1..n /\ i \in (s + 1)..j
          /\ possession'[i] = possession[i] /\ possession'[j].holder = holder
      BY <1>1, <2>3, <3>2, <3>4
    <3> QED
      BY <3>1, <3>4, <3>5
  <2> QED
    BY <1>1, <2>1, <2>2, <2>3
<1>4. DOMAIN possession' = 1..(n + 1)
  BY <1>1 DEF Moves
<1> QED
  BY <1>2, <1>3, <1>4 DEF PossessionPasses

\* Whoever comes into possession, no ask or answer is disturbed.
LEMMA MovesIInv ==
    ASSUME IInv, NEW holder \in Accounts, NEW how, NEW ask \in Nat, Moves(holder, how, ask),
           \/ how \in Kinds /\ ~OnTerm(Current)
           \/ how = "lapse" /\ OnTerm(Current) /\ holder = possession[Len(possession) - 1].holder,
           offer' \in Kinds \cup {None}, prepared' \in Transfer \cup {None},
           UNCHANGED <<ended, store, handlers, asked, writes>>
    PROVE  IInv'
<1>1. possession' \in Seq(Possession) /\ possession' # << >>
  <2>1. [holder |-> holder, how |-> how, ask |-> ask] \in Possession
    BY DEF Possession
  <2> QED
    BY <2>1 DEF IInv, Shape, Moves
<1>2. Grows
  BY <1>1 DEF IInv, Shape, Moves, Grows
<1>3. Shape'
  BY <1>1 DEF IInv, Shape, handlers
<1>4. PossessionPasses'
  BY MovesPass
<1>5. AsksWellFounded'
  BY <1>2 DEF IInv, Shape, AsksWellFounded, AskOf, OnTerm, Grows
<1>6. ListSettled(store, 0)'
  BY <1>2, StoreAndHistory
<1> QED
  BY <1>2, <1>3, <1>4, <1>5, <1>6, HandlersStay

LEMMA SubmitIInv == IInv /\ Submit => IInv'
<1> SUFFICES ASSUME IInv, Submit PROVE IInv'
  OBVIOUS
<1>1. prepared \in Transfer
  BY DEF IInv, Shape, Submit
<1> QED
  BY <1>1, MovesIInv DEF Submit, Transfer

LEMMA LapseIInv == IInv /\ Lapse => IInv'
<1> SUFFICES ASSUME IInv, Lapse PROVE IInv'
  OBVIOUS
<1>1. possession[Len(possession) - 1].holder \in Accounts
  <2>1. /\ Len(possession) \in DOMAIN possession /\ OnTerm(possession[Len(possession)])
        /\ DOMAIN possession = 1..Len(possession) /\ Len(possession) \in Nat
    BY DEF IInv, Shape, Lapse, Current
  <2>4. \A j \in DOMAIN possession : j = 1 => ~OnTerm(possession[j])
    BY DEF IInv, PossessionPasses
  <2>2. Len(possession) # 1
    BY <2>1, <2>4
  <2>3. Len(possession) - 1 \in DOMAIN possession
    BY <2>1, <2>2
  <2>5. \A k \in DOMAIN possession : possession[k] \in Possession
    BY DEF IInv, Shape
  <2>6. possession[Len(possession) - 1] \in Possession
    BY <2>3, <2>5
  <2> QED
    BY <2>6 DEF Possession
<1>2. offer' \in Kinds \cup {None} /\ prepared' \in Transfer \cup {None}
  BY DEF IInv, Shape, Lapse
<1> QED
  BY <1>1, <1>2, MovesIInv DEF Lapse

\* Listing, the end of the week and building a transfer.
LEMMA OffersIInv ==
    ASSUME IInv, UNCHANGED <<possession, store, handlers, asked, writes>>,
           offer' \in Kinds \cup {None}, ended' \in BOOLEAN, prepared' \in Transfer \cup {None}
    PROVE  IInv'
<1>1. Grows
  BY DEF Grows, IInv, Shape
<1>2. Shape'
  BY DEF Shape, IInv, handlers
<1>3. PossessionPasses' /\ AsksWellFounded'
  BY DEF IInv, PossessionPasses, AsksWellFounded, AskOf, OnTerm
<1>4. ListSettled(store, 0)'
  BY <1>1, StoreAndHistory
<1> QED
  BY <1>1, <1>2, <1>3, <1>4, HandlersStay

LEMMA PrepareIInv ==
    ASSUME IInv, NEW a \in Accounts, NEW to \in Accounts, PrepareSale(a, to) \/ PrepareRental(a, to)
    PROVE  IInv'
<1>1. CASE PrepareSale(a, to)
  <2>0. PICK loaded \in Loads : \E ask \in DOMAIN loaded :
            prepared' = [from |-> a, to |-> to, how |-> "sale", ask |-> ask]
    BY <1>1 DEF PrepareSale
  <2>1. PICK ask \in DOMAIN loaded :
            prepared' = [from |-> a, to |-> to, how |-> "sale", ask |-> ask]
    BY <2>0
  <2>2. ask \in Nat
    BY <2>1 DEF Loads, IInv, ListSettled, Genuine, Shape
  <2>3. prepared' \in Transfer
    BY <2>1, <2>2 DEF Transfer, Kinds
  <2> QED
    BY <1>1, <2>3, OffersIInv DEF PrepareSale, IInv, Shape
<1>2. CASE PrepareRental(a, to)
  <2>1. prepared' \in Transfer
    BY <1>2 DEF Transfer, Kinds, PrepareRental
  <2> QED
    BY <1>2, <2>1, OffersIInv DEF PrepareRental, IInv, Shape
<1> QED
  BY <1>1, <1>2

-----------------------------------------------------------------------------
(* The handlers' steps *)

\* A list a handler loads holds genuine requests, whether the store answered or
\* not, and whichever request the handler is about to answer.
LEMMA LoadedSettled ==
    ASSUME IInv, NEW loaded \in Loads, NEW own
    PROVE  ListSettled(loaded, own)
<1>1. CASE loaded = store
  <2>1. 0 \notin DOMAIN store
    BY DEF IInv, ListSettled, Genuine, Shape
  <2> QED
    BY <1>1, <2>1 DEF IInv, ListSettled
<1>2. CASE loaded = << >>
  BY <1>2 DEF ListSettled
<1> QED
  BY <1>1, <1>2 DEF Loads

LEMMA AskIInv ==
    ASSUME IInv, NEW w \in Workers, NEW a \in Accounts, Ask(w, a)
    PROVE  IInv'
<1>1. PICK c, l : c = Called(a, 0, None) /\ l = << >>
  OBVIOUS
<1>2. CallOK("row", c, l)
  BY <1>1 DEF CallOK, Called, Call, ListSettled, IInv, Shape
<1> QED
  BY <1>1, <1>2, QuietlyResumed DEF Ask, Places

LEMMA ReadRowIInv ==
    ASSUME IInv, NEW w \in Workers, ReadListing(w) \/ ReadHolding(w)
    PROVE  IInv'
<1>0. CallOK("row", call[w], list[w])
  BY DEF IInv, ReadListing, ReadHolding
<1>3. call[w] \in Call /\ call[w].by \in Accounts /\ call[w].answer = None
  BY <1>0 DEF CallOK
<1>1. CASE ReadListing(w)
  <2>1. PICK c, l : c = [call[w] EXCEPT !.listed = TRUE, !.listing = offer] /\ l = << >>
    OBVIOUS
  <2>2. c \in Call /\ c.holding \in 0..Len(possession)
    BY <1>0, <1>3, <2>1 DEF CallOK, Call, IInv, Shape
  <2>3. c.by = call[w].by /\ c.answer = call[w].answer
    BY <1>3, <2>1 DEF Call
  <2>4. CallOK("row", c, l)
    BY <1>3, <2>1, <2>2, <2>3 DEF CallOK, ListSettled
  <2> QED
    BY <1>1, <2>1, <2>4, QuietlyResumed DEF ReadListing, Places
<1>2. CASE ReadHolding(w)
  <2>1. PICK c, l : c = [call[w] EXCEPT !.holding = Len(possession)] /\ l = << >>
    OBVIOUS
  <2>0. Len(possession) \in 0..Len(possession)
    BY DEF IInv, Shape
  <2>2. c \in Call /\ c.holding \in 0..Len(possession)
    BY <1>3, <2>0, <2>1 DEF Call
  <2>3. c.by = call[w].by /\ c.answer = call[w].answer
    BY <1>3, <2>1 DEF Call
  <2>4. CallOK("row", c, l)
    BY <1>3, <2>1, <2>2, <2>3 DEF CallOK, ListSettled
  <2> QED
    BY <1>2, <2>1, <2>4, QuietlyResumed DEF ReadHolding, Places
<1> QED
  BY <1>1, <1>2

LEMMA AskCheckIInv ==
    ASSUME IInv, NEW w \in Workers, AskCheck(w)
    PROVE  IInv'
<1>1. CASE Return(w)
  BY <1>1, Returned DEF AskCheck
<1>2. CASE ~Return(w)
  <2>1. Resume(w, "consent", call[w], << >>) /\ ~RowRefused(call[w])
    BY <1>2 DEF AskCheck
  <2>2. CallOK("row", call[w], list[w])
    BY DEF IInv, AskCheck
  <2>3. PICK c, l : c = call[w] /\ l = << >>
    OBVIOUS
  <2>4. CallOK("consent", c, l)
    BY <2>1, <2>2, <2>3 DEF AskCheck, CallOK, Call, ListSettled, IInv, Shape, AskOf, RowRefused
  <2> QED
    BY <2>1, <2>3, <2>4, QuietlyResumed DEF AskCheck, Places
<1> QED
  BY <1>1, <1>2

LEMMA AnswerIInv ==
    ASSUME IInv, NEW w \in Workers, NEW a \in Accounts, NEW id \in DOMAIN asked,
           NEW answer \in Answers, Answer(w, a, id, answer)
    PROVE  IInv'
<1>1. PICK c, l : c = Called(a, id, answer) /\ l = << >>
  OBVIOUS
<1>2. CallOK("find", c, l)
  BY <1>1 DEF CallOK, Called, Call, ListSettled, IInv, Shape
<1> QED
  BY <1>1, <1>2, QuietlyResumed DEF Answer, Places

LEMMA FindIInv ==
    ASSUME IInv, NEW w \in Workers, Find(w)
    PROVE  IInv'
<1>1. CASE Return(w)
  BY <1>1, Returned DEF Find
<1>2. CASE ~Return(w)
  <2>1. PICK c : c = call[w]
    OBVIOUS
  <2>2. PICK l \in Loads :
          /\ c.id \in DOMAIN l
          /\ c.answer = "withdrawn" => l[c.id].by = c.by
          /\ Resume(w, IF c.answer = "withdrawn" THEN "update" ELSE "holding", c, l)
    BY <1>2, <2>1 DEF Find
  <2>3. ListSettled(l, c.id)
    BY LoadedSettled
  <2>4. CallOK("find", c, list[w])
    BY <2>1 DEF IInv, Find
  <2>5. CASE c.answer = "withdrawn"
    <3>1. Deserved(c.by, c.id, c.answer)
      BY <2>2, <2>3, <2>5 DEF Deserved, ListSettled, Genuine
    <3>2. CallOK("update", c, l)
      BY <2>2, <2>3, <2>4, <3>1 DEF CallOK
    <3> QED
      BY <2>2, <2>5, <3>2, QuietlyResumed DEF Find, Places
  <2>6. CASE c.answer # "withdrawn"
    <3>1. CallOK("holding", c, l)
      BY <2>2, <2>3, <2>4, <2>6 DEF CallOK
    <3> QED
      BY <2>2, <2>6, <3>1, QuietlyResumed DEF Find, Places
  <2> QED
    BY <2>5, <2>6
<1> QED
  BY <1>1, <1>2

LEMMA CheckHoldingIInv ==
    ASSUME IInv, NEW w \in Workers, CheckHolding(w)
    PROVE  IInv'
<1>1. CASE Return(w)
  BY <1>1, Returned DEF CheckHolding
<1>2. CASE ~Return(w)
  <2>1. PICK c, l : c = call[w] /\ l = list[w]
    OBVIOUS
  <2>2. MayAnswer(c, l[c.id], Current.holder) /\ Resume(w, "update", c, l)
    BY <1>2, <2>1 DEF CheckHolding
  <2>3. CallOK("holding", c, l)
    BY <2>1 DEF IInv, CheckHolding
  <2>4. Genuine(c.id, l[c.id]) /\ AskOf(asked[c.id].by, asked[c.id].since)
    BY <2>3 DEF CallOK, ListSettled, Genuine, IInv, AsksWellFounded
  <2>5. /\ Len(possession) \in DOMAIN possession /\ Len(possession) \in Nat
        /\ DOMAIN possession = 1..Len(possession)
        /\ asked[c.id].since \in DOMAIN possession
    BY <2>4 DEF IInv, Shape, AskOf
  <2>6. Deserved(c.by, c.id, c.answer)
    <3>1. CASE c.answer = "declined" /\ Current.holder = c.by
      BY <2>5, <3>1 DEF Deserved, Current
    <3>2. CASE c.answer = "accepted" /\ Current.holder = l[c.id].by /\ l[c.id].to_holder = c.by
      <4>1. /\ c.by = possession[asked[c.id].since].holder
            /\ possession[Len(possession)].holder = asked[c.id].by
        BY <2>4, <3>2 DEF Genuine, Current
      <4>2. asked[c.id].since < Len(possession)
        BY <2>4, <2>5, <4>1 DEF AskOf
      <4>3. Came(c.id)
        BY <2>4, <2>5, <4>1, <4>2 DEF Came, IInv, PossessionPasses, AskOf
      <4> QED
        BY <3>2, <4>1, <4>3 DEF Deserved
    <3> QED
      BY <2>2, <3>1, <3>2 DEF MayAnswer
  <2>7. CallOK("update", c, l)
    BY <2>3, <2>6 DEF CallOK
  <2> QED
    BY <2>2, <2>7, QuietlyResumed DEF CheckHolding, Places
<1> QED
  BY <1>1, <1>2

\* The record is made and put on the list that was loaded.
LEMMA AskRecordIInv ==
    ASSUME IInv, NEW w \in Workers, AskRecord(w)
    PROVE  IInv'
<1>0. PICK id, request :
        /\ id = Len(asked) + 1
        /\ request = [by |-> call[w].by, term |-> call[w].listing, status |-> "open",
                      to_holder |-> possession[call[w].holding].holder]
  OBVIOUS
<1>1. PICK loaded \in Loads :
        Resume(w, "save", [call[w] EXCEPT !.id = id], Put(loaded, id, request))
  BY <1>0 DEF AskRecord
<1>2. /\ CallOK("consent", call[w], list[w])
      /\ call[w] \in Call /\ call[w].by \in Accounts /\ call[w].answer = None
      /\ call[w].listing \in Kinds /\ AskOf(call[w].by, call[w].holding)
  BY DEF IInv, AskRecord, CallOK
<1>3. /\ asked' = Append(asked, [by |-> call[w].by, term |-> call[w].listing,
                                 since |-> call[w].holding])
      /\ UNCHANGED <<contract, store, writes>>
  BY DEF AskRecord
<1>4. [by |-> call[w].by, term |-> call[w].listing, since |-> call[w].holding]
          \in [by : Accounts, term : Kinds, since : Nat]
  BY <1>2 DEF Call
<1>5. /\ asked' \in Seq([by : Accounts, term : Kinds, since : Nat])
      /\ Len(asked') = id /\ Len(asked) \in Nat
      /\ \A i \in DOMAIN asked : asked'[i] = asked[i]
      /\ asked'[id].by = call[w].by /\ asked'[id].since = call[w].holding
      /\ DOMAIN asked' = DOMAIN asked \cup {id} /\ id \notin DOMAIN asked
  BY <1>0, <1>3, <1>4 DEF IInv, Shape
<1>6. Grows
  BY <1>3, <1>5 DEF Grows, contract, IInv, Shape
<1>7. Shape'
  BY <1>1, <1>3, <1>5 DEF Shape, IInv, contract, Resume, Places
<1>8. PossessionPasses'
  BY <1>3 DEF IInv, contract, PossessionPasses, OnTerm
<1>9. AsksWellFounded'
  BY <1>2, <1>3, <1>5 DEF IInv, contract, AsksWellFounded, AskOf, OnTerm
<1>10. ListSettled(store, 0)'
  BY <1>3, <1>6, StoreAndHistory
<1>11. PICK c, l : c = [call[w] EXCEPT !.id = id] /\ l = Put(loaded, id, request)
  OBVIOUS
<1>12. /\ c \in Call /\ c.id = id /\ c.by = call[w].by /\ c.answer = None
       /\ c.holding \in 0..Len(possession)'
  <2>1. id \in Nat
    BY <1>0, <1>5
  <2>2. call[w].holding \in 0..Len(possession)'
    BY <1>2, <1>3 DEF CallOK, contract
  <2> QED
    BY <1>2, <1>11, <2>1, <2>2 DEF Call
<1>13. ListSettled(loaded, id)'
  BY <1>6, LoadedSettled, ListPersists
<1>14. request \in TransferRequest
  <2>1. possession[call[w].holding] \in Possession
    BY <1>2 DEF AskOf, IInv, Shape
  <2> QED
    BY <1>0, <1>2, <2>1 DEF TransferRequest, Possession, Statuses
<1>15. ListSettled(l, c.id)'
  <2>1. /\ l \in [DOMAIN l -> TransferRequest]
        /\ DOMAIN l = DOMAIN loaded \cup {id} /\ l[id] = request
        /\ \A k \in DOMAIN loaded \ {id} : l[k] = loaded[k]
    BY <1>11, <1>13, <1>14 DEF Put, ListSettled
  <2>2. Genuine(id, l[id])'
    BY <1>0, <1>3, <1>5, <1>14, <2>1 DEF Genuine, contract
  <2>3. \A k \in DOMAIN loaded \ {id} : Genuine(k, l[k])'
    BY <1>13, <2>1 DEF ListSettled
  <2>4. ASSUME NEW k \in DOMAIN l, l[k].status # "open", k # id
        PROVE  Settled(k, l[k].status)'
    BY <1>13, <2>1, <2>4 DEF ListSettled
  <2> QED
    BY <1>12, <2>1, <2>2, <2>3, <2>4 DEF ListSettled
<1>16. CallOK("save", c, l)'
  <2>1. c.id \in DOMAIN l /\ l[c.id].status = "open"
    BY <1>0, <1>11, <1>12 DEF Put
  <2> QED
    BY <1>2, <1>12, <1>15, <2>1 DEF CallOK
<1> QED
  BY <1>1, <1>6, <1>7, <1>8, <1>9, <1>10, <1>11, <1>16, Resumed

\* What a write adds to the history is typed.
LEMMA WriteTyped ==
    ASSUME IInv, NEW w \in Workers, at[w] \in {"save", "update"},
           NEW outcome \in {"stored", "refused", "gone"}, Record(w, outcome)
    PROVE  /\ writes' \subseteq Write /\ writes \subseteq writes'
           /\ \E r \in writes' : /\ r.by = call[w].by /\ r.id = call[w].id
                                 /\ call[w].answer # None => r.status = call[w].answer
<1>1. CallOK(at[w], call[w], list[w])
  BY DEF IInv
<1>2. call[w] \in Call /\ call[w].by \in Accounts
  BY <1>1 DEF CallOK
<1> DEFINE r == [by |-> call[w].by, id |-> call[w].id, outcome |-> outcome,
                 status |-> IF call[w].answer = None THEN "open" ELSE call[w].answer]
<1>3. r \in Write
  BY <1>2 DEF Write, Call, Statuses
<1>4. writes' = writes \cup {r}
  BY DEF Record
<1>5. r \in writes' /\ r.by = call[w].by /\ r.id = call[w].id
      /\ (call[w].answer # None => r.status = call[w].answer)
  BY <1>4
<1> QED
  BY <1>3, <1>4, <1>5 DEF IInv, Shape

LEMMA UpdateIInv ==
    ASSUME IInv, NEW w \in Workers, Update(w)
    PROVE  IInv'
<1>1. PICK c : c = call[w]
  OBVIOUS
<1>2. CallOK("update", c, list[w])
  BY <1>1 DEF IInv, Update
<1>3. PICK loaded \in Loads :
        IF c.id \in DOMAIN loaded
        THEN /\ Resume(w, "save", c, [loaded EXCEPT ![c.id].status = c.answer])
             /\ UNCHANGED writes
        ELSE Return(w) /\ Record(w, "gone")
  BY <1>1 DEF Update
<1>4. CASE c.id \in DOMAIN loaded
  <2>1. PICK l : l = [loaded EXCEPT ![c.id].status = c.answer]
    OBVIOUS
  <2>2. ListSettled(loaded, c.id)
    BY LoadedSettled
  <2>3. /\ DOMAIN l = DOMAIN loaded /\ l = [id \in DOMAIN l |-> l[id]]
        /\ l[c.id] = [loaded[c.id] EXCEPT !.status = c.answer]
        /\ \A id \in DOMAIN loaded \ {c.id} : l[id] = loaded[id]
    BY <1>4, <2>1, <2>2 DEF ListSettled
  <2>4. /\ l[c.id] \in TransferRequest /\ l[c.id].status = c.answer
        /\ l[c.id].by = loaded[c.id].by /\ l[c.id].to_holder = loaded[c.id].to_holder
    BY <1>2, <1>4, <2>2, <2>3 DEF ListSettled, TransferRequest, CallOK, Statuses
  <2>5. l \in [DOMAIN l -> TransferRequest]
    BY <2>2, <2>3, <2>4 DEF ListSettled
  <2>6. \A id \in DOMAIN l : Genuine(id, l[id])
    <3>1. ASSUME NEW id \in DOMAIN l PROVE Genuine(id, loaded[id])
      BY <2>2, <2>3, <3>1 DEF ListSettled
    <3>2. Genuine(c.id, l[c.id])
      BY <1>4, <2>3, <2>4, <3>1 DEF Genuine
    <3> QED
      BY <2>3, <3>1, <3>2
  <2>7. ListSettled(l, c.id)
    BY <2>2, <2>3, <2>5, <2>6 DEF ListSettled
  <2>8. CallOK("save", c, l)
    BY <1>2, <1>4, <2>3, <2>4, <2>7 DEF CallOK
  <2> QED
    BY <1>3, <1>4, <2>1, <2>8, QuietlyResumed DEF Update, Places
<1>5. CASE c.id \notin DOMAIN loaded
  <2>1. writes' \subseteq Write /\ writes \subseteq writes'
    BY <1>3, <1>5, WriteTyped DEF Update
  <2>2. Grows
    BY <2>1 DEF Grows, contract, IInv, Shape, Update
  <2>3. Shape'
    BY <1>3, <1>5, <2>1 DEF Shape, IInv, contract, Resume, Return, Update, Places
  <2>4. PossessionPasses' /\ AsksWellFounded'
    BY DEF IInv, Update, contract, PossessionPasses, AsksWellFounded, AskOf, OnTerm
  <2>5. ListSettled(store, 0)'
    BY <2>2, StoreAndHistory DEF Update
  <2>6. CallOK("idle", NoCall, << >>)'
    BY <2>3, IdleOK, CallPersists, <2>2 DEF IInv, Shape
  <2> QED
    BY <1>3, <1>5, <2>2, <2>3, <2>4, <2>5, <2>6, Resumed DEF Return
<1> QED
  BY <1>4, <1>5

\* A write that was applied: the list becomes the store, and what it says of the
\* handler's own request is on record.
LEMMA WrittenIInv ==
    ASSUME IInv, NEW w \in Workers, at[w] = "save", store' = list[w],
           NEW outcome \in {"stored", "refused", "gone"}, Record(w, outcome),
           Return(w), UNCHANGED <<contract, asked>>
    PROVE  IInv'
<1>1. PICK c, l : c = call[w] /\ l = list[w]
  OBVIOUS
<1>2. CallOK("save", c, l)
  BY <1>1 DEF IInv
<1>3. /\ writes' \subseteq Write /\ writes \subseteq writes'
      /\ \E r \in writes' : r.by = c.by /\ r.id = c.id /\ (c.answer # None => r.status = c.answer)
  BY <1>1, WriteTyped
<1>4. Grows
  BY <1>3 DEF Grows, contract, IInv, Shape
<1>5. Shape'
  BY <1>3 DEF Shape, IInv, contract, Resume, Return, Places
<1>6. PossessionPasses' /\ AsksWellFounded'
  BY DEF IInv, contract, PossessionPasses, AsksWellFounded, AskOf, OnTerm
<1>7. CallOK("save", c, l)'
  BY <1>2, <1>4, CallPersists
<1>8. ListSettled(l, 0)'
  <2>1. ListSettled(l, c.id)'
    BY <1>7 DEF CallOK
  <2>2. ASSUME l[c.id].status # "open" PROVE Settled(c.id, l[c.id].status)'
    <3>1. c.answer \in Answers /\ l[c.id].status = c.answer /\ Deserved(c.by, c.id, c.answer)'
      BY <1>7, <2>2 DEF CallOK
    <3>2. PICK r \in writes' : r.by = c.by /\ r.id = c.id /\ (c.answer # None => r.status = c.answer)
      BY <1>3
    <3>3. c.answer # None
      BY <3>1, RequestsAssumption DEF Answers
    <3> QED
      BY <3>1, <3>2, <3>3 DEF Settled
  <2> QED
    BY <2>1, <2>2 DEF ListSettled
<1>9. ListSettled(store, 0)'
  BY <1>1, <1>8 DEF ListSettled
<1>10. CallOK("idle", NoCall, << >>)'
  BY <1>4, IdleOK, CallPersists DEF IInv, Shape
<1> QED
  BY <1>4, <1>5, <1>6, <1>9, <1>10, Resumed DEF Return

LEMMA SaveIInv ==
    ASSUME IInv, NEW w \in Workers, Save(w)
    PROVE  IInv'
<1>1. CASE store' = list[w] /\ Record(w, "stored")
  BY <1>1, WrittenIInv DEF Save
<1>2. CASE store' = list[w] /\ Record(w, "refused")
  BY <1>2, WrittenIInv DEF Save
<1>3. CASE UNCHANGED <<store, writes>>
  BY <1>3, Returned DEF Save
<1> QED
  BY <1>1, <1>2, <1>3 DEF Save

-----------------------------------------------------------------------------
(* Theorems *)

\* Every step of the contract and of any handler keeps the invariant.
THEOREM RequestsInductive == IInv /\ [Next]_vars => IInv'
<1> SUFFICES ASSUME IInv, [Next]_vars PROVE IInv'
  OBVIOUS
<1>1. CASE UNCHANGED vars
  BY <1>1, OffersIInv DEF vars, contract, IInv, Shape
<1>2. ASSUME NEW kind \in Kinds, List(kind) PROVE IInv'
  BY <1>2, OffersIInv DEF List, IInv, Shape
<1>3. CASE Unlist \/ WeekEnds
  BY <1>3, OffersIInv DEF Unlist, WeekEnds, IInv, Shape
<1>4. CASE Lapse
  BY <1>4, LapseIInv
<1>5. CASE Submit
  BY <1>5, SubmitIInv
<1>6. ASSUME NEW a \in Accounts, NEW to \in Accounts, PrepareSale(a, to) \/ PrepareRental(a, to)
      PROVE IInv'
  BY <1>6, PrepareIInv
<1>7. ASSUME NEW w \in Workers, NEW a \in Accounts, Ask(w, a) PROVE IInv'
  BY <1>7, AskIInv
<1>8. ASSUME NEW w \in Workers, NEW a \in Accounts, NEW id \in DOMAIN asked,
             NEW answer \in Answers, Answer(w, a, id, answer)
      PROVE IInv'
  BY <1>8, AnswerIInv
<1>9. ASSUME NEW w \in Workers,
             ReadListing(w) \/ ReadHolding(w) \/ AskCheck(w) \/ AskRecord(w)
      PROVE IInv'
  BY <1>9, ReadRowIInv, AskCheckIInv, AskRecordIInv
<1>10. ASSUME NEW w \in Workers,
              Find(w) \/ CheckHolding(w) \/ Update(w) \/ Save(w) \/ Abandon(w)
       PROVE IInv'
  BY <1>10, FindIInv, CheckHoldingIInv, UpdateIInv, SaveIInv, Returned DEF Abandon
<1> QED
  BY <1>1, <1>2, <1>3, <1>4, <1>5, <1>6, <1>7, <1>8, <1>9, <1>10 DEF Next

THEOREM Invariant == Spec => []IInv
  BY InitIInv, RequestsInductive, PTL DEF Spec

\* The types of the contract's part, of the store and of every suspended call.
THEOREM TypeCorrect == Spec => []TypeOK
  BY Invariant, IInvImplies, PTL

\* However handlers interleave and whatever the store loses, a request is
\* recorded accepted only if a transfer made after the ask brought the week to
\* the asker (requests/[id]/route.ts, 97-114).
THEOREM AcceptancesHappened == Spec => []AcceptedMeansMoved
  BY Invariant, IInvImplies, PTL

\* However handlers interleave, every answer on record was given by the party
\* entitled to it (requests/[id]/route.ts, 76-123).
THEOREM AnswersAreEntitled == Spec => []AnswersAreTheirsToGive
  BY Invariant, IInvImplies, PTL

-----------------------------------------------------------------------------
(* One handler at a time, and reads that do not fail                        *)

OneAtATime == ~GetFails /\ \A v, w \in Workers : v = w

OneOpenOn(requests) ==
    \A i, j \in DOMAIN requests :
        requests[i].by = requests[j].by
        /\ requests[i].status = "open" /\ requests[j].status = "open" => i = j

\* What a call is about to write: one ask entered, or one answered.
OwnChange(c, l) ==
    \/ /\ c.answer = None /\ c.id \notin DOMAIN store
       /\ DOMAIN l = DOMAIN store \cup {c.id}
       /\ ~HasOpenRequest(store, l[c.id].by)
    \/ /\ c.answer \in Answers /\ c.id \in DOMAIN store
       /\ l = [store EXCEPT ![c.id].status = c.answer]

\* What a call has read still stands: nobody else writes.  Between the check and the
\* record the asker has no open ask; an ask to be answered is open; and what is to be
\* written differs from the store in the request the call is about, alone.
StillStands(w) ==
    LET c == call[w]
        l == list[w]
    IN /\ at[w] = "consent" => ~HasOpenRequest(store, c.by)
       /\ at[w] \in {"holding", "update"} =>
             c.id \in DOMAIN store /\ store[c.id].status = "open"
       /\ at[w] = "save" =>
             /\ DOMAIN store \subseteq DOMAIN l
             /\ \A id \in DOMAIN store : IF id = c.id THEN store[id].status = "open"
                                         ELSE l[id] = store[id]
             /\ OneOpenOn(l)
             /\ OwnChange(c, l)

SerialInv ==
    /\ AcknowledgedStays
    /\ OneOpenOn(store)
    /\ \A w \in Workers : StillStands(w)

LEMMA OnlyHandler ==
    ASSUME OneAtATime, SerialInv, NEW w \in Workers, StillStands(w)', UNCHANGED <<store, writes>>
    PROVE  SerialInv'
BY DEF OneAtATime, SerialInv, AcknowledgedStays, OneOpenOn

LEMMA ResumedAt ==
    ASSUME IInv, NEW w \in Workers, NEW place, NEW c, NEW l, Resume(w, place, c, l)
    PROVE  at'[w] = place /\ call'[w] = c /\ list'[w] = l
BY DEF Resume, IInv, Shape

LEMMA ReturnedSerially ==
    ASSUME IInv, NEW w \in Workers, Return(w) PROVE StillStands(w)'
<1>1. at'[w] = "idle"
  BY ResumedAt DEF Return
<1> QED
  BY <1>1 DEF StillStands

LEMMA AskSerially ==
    ASSUME OneAtATime, IInv, SerialInv, NEW w \in Workers, AskCheck(w) \/ AskRecord(w)
    PROVE  SerialInv'
<1>1. CASE AskCheck(w)
  <2>1. UNCHANGED <<store, writes>>
    BY <1>1 DEF AskCheck
  <2>2. CASE Return(w)
    BY <2>1, <2>2, ReturnedSerially, OnlyHandler
  <2>3. CASE ~HasOpenRequest(store, call[w].by) /\ Resume(w, "consent", call[w], << >>)
    <3>1. at'[w] = "consent" /\ call'[w] = call[w]
      BY <2>3, ResumedAt
    <3>2. StillStands(w)'
      BY <2>1, <2>3, <3>1 DEF StillStands, HasOpenRequest
    <3> QED
      BY <2>1, <3>2, OnlyHandler
  <2> QED
    BY <1>1, <2>2, <2>3 DEF AskCheck, Loads, OneAtATime
<1>2. CASE AskRecord(w)
  <2> DEFINE c == call[w]
             id == Len(asked) + 1
             new == [by |-> c.by, term |-> c.listing, status |-> "open",
                     to_holder |-> possession[c.holding].holder]
             l == Put(store, id, new)
  <2>1. Resume(w, "save", [c EXCEPT !.id = id], l) /\ UNCHANGED <<store, writes>>
    BY <1>2 DEF AskRecord, Loads, OneAtATime
  <2>2. at[w] = "consent" /\ c \in Call /\ c.answer = None
    BY <1>2 DEF AskRecord, IInv, CallOK
  <2>3. id \notin DOMAIN store
    BY DEF IInv, ListSettled, Genuine, Shape
  <2>4. ~HasOpenRequest(store, c.by)
    BY <2>2 DEF SerialInv, StillStands
  <2>5. /\ DOMAIN l = DOMAIN store \cup {id}
        /\ l[id] = new /\ \A k \in DOMAIN store : l[k] = store[k]
    BY <2>3 DEF Put
  <2> HIDE DEF l
  <2>6. OneOpenOn(l)
    BY <2>4, <2>5 DEF OneOpenOn, HasOpenRequest, SerialInv
  <2>7. /\ at'[w] = "save" /\ list'[w] = l
        /\ call'[w].id = id /\ call'[w].answer = None
    BY <2>1, <2>2, ResumedAt DEF Call
  <2>8. ~HasOpenRequest(store, l[id].by)
    BY <2>4, <2>5
  <2> HIDE DEF c, id, new
  <2>9. OwnChange(call[w], list[w])'
    BY <2>1, <2>3, <2>5, <2>7, <2>8 DEF OwnChange, HasOpenRequest
  <2>10. StillStands(w)'
    BY <2>1, <2>3, <2>5, <2>6, <2>7, <2>9 DEF StillStands, OneOpenOn
  <2> QED
    BY <2>1, <2>10, OnlyHandler
<1> QED
  BY <1>1, <1>2

LEMMA AnswerSerially ==
    ASSUME OneAtATime, IInv, SerialInv, NEW w \in Workers,
           Find(w) \/ CheckHolding(w) \/ Update(w)
    PROVE  SerialInv'
<1>1. CASE Find(w)
  <2>1. UNCHANGED <<store, writes>>
    BY <1>1 DEF Find
  <2>2. CASE Return(w)
    BY <2>1, <2>2, ReturnedSerially, OnlyHandler
  <2>3. ASSUME NEW place \in {"update", "holding"}, Resume(w, place, call[w], store),
               call[w].id \in DOMAIN store, store[call[w].id].status = "open"
        PROVE  SerialInv'
    <3>1. at'[w] = place /\ call'[w] = call[w]
      BY <2>3, ResumedAt
    <3>2. StillStands(w)'
      BY <2>1, <2>3, <3>1 DEF StillStands
    <3> QED
      BY <2>1, <3>2, OnlyHandler
  <2> QED
    BY <1>1, <2>2, <2>3 DEF Find, Loads, OneAtATime
<1>2. CASE CheckHolding(w)
  <2>1. at[w] = "holding" /\ UNCHANGED <<store, writes>>
    BY <1>2 DEF CheckHolding
  <2>2. CASE Return(w)
    BY <2>1, <2>2, ReturnedSerially, OnlyHandler
  <2>3. CASE Resume(w, "update", call[w], list[w])
    <3>1. at'[w] = "update" /\ call'[w] = call[w]
      BY <2>3, ResumedAt
    <3>2. StillStands(w)'
      BY <2>1, <3>1 DEF StillStands, SerialInv
    <3> QED
      BY <2>1, <3>2, OnlyHandler
  <2> QED
    BY <1>2, <2>2, <2>3 DEF CheckHolding
<1>3. CASE Update(w)
  <2> DEFINE c == call[w]
             l == [store EXCEPT ![c.id].status = c.answer]
  <2>1. /\ at[w] = "update" /\ c.answer \in Answers
        /\ c.id \in DOMAIN store /\ store[c.id].status = "open"
        /\ store \in [DOMAIN store -> TransferRequest]
    BY <1>3 DEF Update, IInv, CallOK, ListSettled, SerialInv, StillStands
  <2>2. Resume(w, "save", c, l) /\ UNCHANGED <<store, writes>>
    BY <1>3, <2>1 DEF Update, Loads, OneAtATime
  <2>3. /\ DOMAIN l = DOMAIN store
        /\ \A k \in DOMAIN store : k # c.id => l[k] = store[k]
        /\ l[c.id].status = c.answer /\ c.answer # "open"
    BY <2>1 DEF Answers, TransferRequest
  <2>4. at'[w] = "save" /\ call'[w] = c /\ list'[w] = l
    BY <2>2, ResumedAt
  <2>5. OwnChange(call[w], list[w])'
    BY <2>1, <2>2, <2>4 DEF OwnChange
  <2> HIDE DEF l
  <2>6. OneOpenOn(l)
    BY <2>3 DEF OneOpenOn, SerialInv
  <2>7. StillStands(w)'
    BY <2>1, <2>2, <2>3, <2>4, <2>5, <2>6 DEF StillStands, OneOpenOn
  <2> QED
    BY <2>2, <2>7, OnlyHandler
<1> QED
  BY <1>1, <1>2, <1>3

LEMMA SaveSerially ==
    ASSUME OneAtATime, IInv, SerialInv, NEW w \in Workers, Save(w)
    PROVE  SerialInv'
<1> DEFINE c == call[w]
           l == list[w]
<1>1. /\ at[w] = "save" /\ Return(w)
      /\ store' = l \/ UNCHANGED <<store, writes>>
  BY DEF Save
<1>2. /\ DOMAIN store \subseteq DOMAIN l /\ OneOpenOn(l)
      /\ \A id \in DOMAIN store : IF id = c.id THEN store[id].status = "open" ELSE l[id] = store[id]
  BY <1>1 DEF SerialInv, StillStands
<1>3. /\ c.id \in DOMAIN l
      /\ l[c.id].status = IF c.answer = None THEN "open" ELSE c.answer
  BY <1>1, RequestsAssumption DEF IInv, CallOK, Answers
<1>4. \A v \in Workers : StillStands(v)'
  BY <1>1, ReturnedSerially DEF OneAtATime
<1>5. CASE store' = l /\ writes' # writes
  <2>1. PICK new : /\ writes' = writes \cup {new}
                   /\ new.id = c.id /\ new.status = IF c.answer = None THEN "open" ELSE c.answer
    BY <1>5 DEF Save, Record
  <2>2. AcknowledgedStays'
    <3> SUFFICES ASSUME NEW r \in writes', r.outcome = "stored"
                 PROVE  /\ r.id \in DOMAIN l
                        /\ r.status # "open" => l[r.id].status = r.status
      BY <1>5 DEF AcknowledgedStays
    <3>1. CASE r = new
      BY <1>3, <2>1, <3>1
    <3>2. CASE r \in writes
      BY <1>2, <3>2 DEF SerialInv, AcknowledgedStays
    <3> QED
      BY <2>1, <3>1, <3>2
  <2> QED
    BY <1>2, <1>4, <1>5, <2>2 DEF SerialInv, OneOpenOn
<1>6. CASE store' = l /\ writes' = writes
  BY <1>2, <1>4, <1>6 DEF SerialInv, AcknowledgedStays, OneOpenOn
<1>7. CASE UNCHANGED <<store, writes>>
  BY <1>1, <1>7, ReturnedSerially, OnlyHandler
<1> QED
  BY <1>1, <1>5, <1>6, <1>7

\* Nobody but a handler that saves changes the store.
LEMMA StepSerially ==
    ASSUME OneAtATime, IInv, SerialInv, [Next]_vars
    PROVE  /\ SerialInv'
           /\ store' = store \/ \E w \in Workers : Save(w)
<1>1. ASSUME UNCHANGED <<store, handlers, writes>> PROVE SerialInv'
  <2>1. ASSUME NEW w \in Workers PROVE StillStands(w)'
    <3>1. StillStands(w) /\ UNCHANGED <<store, at, call, list>>
      BY <1>1 DEF SerialInv, handlers
    <3>2. OwnChange(call[w], list[w])' <=> OwnChange(call[w], list[w])
      BY <3>1 DEF OwnChange, HasOpenRequest
    <3> QED
      BY <3>1, <3>2 DEF StillStands, HasOpenRequest, OneOpenOn
  <2> QED
    BY <1>1, <2>1 DEF SerialInv, AcknowledgedStays, OneOpenOn
<1>2. CASE UNCHANGED vars
  BY <1>1, <1>2 DEF vars
<1>3. ASSUME \/ \E kind \in Kinds : List(kind)
             \/ Unlist \/ Lapse \/ WeekEnds \/ Submit
             \/ \E a \in Accounts : \E to \in Accounts \ {a} :
                   PrepareSale(a, to) \/ PrepareRental(a, to)
      PROVE  SerialInv' /\ store' = store
  BY <1>1, <1>3 DEF List, Unlist, Lapse, WeekEnds, Submit, PrepareSale, PrepareRental
<1>4. ASSUME NEW w \in Workers, NEW place \in {"row", "find"}, NEW c, NEW l,
             Resume(w, place, c, l), UNCHANGED <<store, writes>>
      PROVE  SerialInv'
  <2>1. at'[w] = place
    BY <1>4, ResumedAt
  <2>2. StillStands(w)'
    BY <2>1 DEF StillStands
  <2> QED
    BY <1>4, <2>2, OnlyHandler
<1>5. ASSUME NEW w \in Workers,
             \/ \E a \in Accounts : \/ Ask(w, a)
                                    \/ \E id \in DOMAIN asked, answer \in Answers :
                                          Answer(w, a, id, answer)
             \/ ReadListing(w) \/ ReadHolding(w)
      PROVE  SerialInv' /\ store' = store
  BY <1>4, <1>5 DEF Ask, Answer, ReadListing, ReadHolding
<1>6. ASSUME NEW w \in Workers,
             AskCheck(w) \/ AskRecord(w) \/ Find(w) \/ CheckHolding(w) \/ Update(w)
      PROVE  SerialInv' /\ store' = store
  BY <1>6, AskSerially, AnswerSerially DEF AskCheck, AskRecord, Find, CheckHolding, Update
<1>7. ASSUME NEW w \in Workers, Abandon(w) PROVE SerialInv' /\ store' = store
  BY <1>7, ReturnedSerially, OnlyHandler DEF Abandon
<1> QED
  BY <1>2, <1>3, <1>5, <1>6, <1>7, SaveSerially DEF Next, vars

LEMMA SerialInvariant == ASSUME OneAtATime PROVE Spec => []SerialInv
<1>1. Init => SerialInv
  BY DEF Init, SerialInv, AcknowledgedStays, OneOpenOn, StillStands
<1>2. IInv /\ SerialInv /\ [Next]_vars => SerialInv'
  BY StepSerially
<1> QED
  BY <1>1, <1>2, Invariant, PTL DEF Spec

\* With one handler at a time, what a caller was told is recorded stays recorded, also when
\* writes fail after they were applied (requests/route.ts and requests/[id]/route.ts).
THEOREM WhatWasToldStays == ASSUME OneAtATime PROVE Spec => []AcknowledgedStays
<1>1. SerialInv => AcknowledgedStays
  BY DEF SerialInv
<1> QED
  BY <1>1, SerialInvariant, PTL

\* With one handler at a time, an account has one open ask for the week at most, also when
\* it was told that an earlier one could not be recorded (openRequestBy).
THEOREM OneAskEach == ASSUME OneAtATime PROVE Spec => []OneOpenAskEach
<1>1. SerialInv => OneOpenAskEach
  BY DEF SerialInv, OneOpenOn, OneOpenAskEach
<1> QED
  BY <1>1, SerialInvariant, PTL

\* With one handler at a time, an answered request is never changed or lost
\* (requests/[id]/route.ts, 69).
THEOREM AnswersStand == ASSUME OneAtATime PROVE Spec => AnswersAreFinal
<1> DEFINE Final == \A id \in DOMAIN store : store[id].status # "open" =>
                       id \in DOMAIN store' /\ store'[id] = store[id]
<1>1. IInv /\ SerialInv /\ [Next]_vars => Final
  <2> SUFFICES ASSUME IInv, SerialInv, [Next]_vars PROVE Final
    OBVIOUS
  <2>1. ASSUME NEW w \in Workers, Save(w) PROVE Final
    <3>1. StillStands(w) /\ at[w] = "save" /\ (store' = list[w] \/ store' = store)
      BY <2>1 DEF SerialInv, Save
    <3> QED
      BY <3>1 DEF StillStands
  <2> QED
    BY <2>1, StepSerially
<1>2. IInv /\ SerialInv /\ [Next]_vars => [Final]_vars
  BY <1>1
<1> QED
  BY <1>2, Invariant, SerialInvariant, PTL DEF Spec, AnswersAreFinal

\* A write enters one ask or answers one.
LEMMA SavesKeepTheBook ==
    ASSUME OneAtATime, IInv, SerialInv, NEW w \in Workers, Save(w), store' = list[w]
    PROVE  Book!Next
<1> DEFINE c == call[w]
           l == list[w]
<1>1. /\ OwnChange(c, l) /\ at[w] = "save"
      /\ \A id \in DOMAIN store : IF id = c.id THEN store[id].status = "open"
                                  ELSE l[id] = store[id]
  BY DEF Save, SerialInv, StillStands
<1>2. /\ c.id \in DOMAIN l /\ (c.answer = None => l[c.id].status = "open")
      /\ l \in [DOMAIN l -> TransferRequest] /\ Genuine(c.id, l[c.id])
  BY <1>1, RequestsAssumption DEF IInv, CallOK, ListSettled, Answers
<1>3. /\ l[c.id] = [by |-> l[c.id].by, to_holder |-> l[c.id].to_holder,
                    term |-> l[c.id].term, status |-> l[c.id].status]
      /\ l[c.id].by \in Accounts /\ l[c.id].to_holder \in Accounts /\ l[c.id].term \in Kinds
  <2>1. l[c.id] \in TransferRequest
    BY <1>2
  <2>. HIDE DEF c, l
  <2> QED
    BY <2>1 DEF TransferRequest
<1>4. l[c.id].to_holder # l[c.id].by
  BY <1>2 DEF Genuine, IInv, AsksWellFounded, AskOf
<1>5. CASE /\ c.answer = None /\ c.id \notin DOMAIN store
           /\ DOMAIN l = DOMAIN store \cup {c.id} /\ ~HasOpenRequest(store, l[c.id].by)
  <2>1. /\ DOMAIN store' = DOMAIN store \cup {c.id}
        /\ \A other \in DOMAIN store : store'[other] = store[other]
        /\ store'[c.id] = [by |-> l[c.id].by, to_holder |-> l[c.id].to_holder,
                           term |-> l[c.id].term, status |-> "open"]
    BY <1>1, <1>2, <1>3, <1>5
  <2>2. Book!Enter(c.id)
    BY <1>3, <1>4, <1>5, <2>1 DEF Book!Enter, Book!HasOpenAsk, HasOpenRequest
  <2> QED
    BY <1>5, <2>1, <2>2 DEF Book!Next
<1>6. CASE /\ c.answer \in Answers /\ c.id \in DOMAIN store
           /\ l = [store EXCEPT ![c.id].status = c.answer]
  <2>1. Book!Give(c.id, c.answer)
    BY <1>1, <1>6 DEF Book!Give
  <2> QED
    BY <1>6, <2>1 DEF Book!Next
<1> QED
  BY <1>1, <1>5, <1>6 DEF OwnChange

\* With one handler at a time, what is stored is a book of asks: entered by who has none
\* open, answered once, and none lost, whichever writes fail (lib/requests.ts, 182-244).
THEOREM TheStoreIsABook == ASSUME OneAtATime PROVE Spec => ImplementsAskBook
<1>1. Init => Book!Init
  BY DEF Init, Book!Init
<1>2. IInv /\ SerialInv /\ [Next]_vars => [Book!Next]_store
  <2> SUFFICES ASSUME IInv, SerialInv, [Next]_vars
               PROVE  Book!Next \/ store' = store
    OBVIOUS
  <2>1. CASE store' = store
    BY <2>1
  <2>2. ASSUME NEW w \in Workers, Save(w) PROVE Book!Next \/ store' = store
    BY <2>2, SavesKeepTheBook DEF Save
  <2> QED
    BY <2>1, <2>2, StepSerially
<1> QED
  BY <1>1, <1>2, Invariant, SerialInvariant, PTL
     DEF Spec, ImplementsAskBook, Book!Spec
=============================================================================
