------------------------------ MODULE AskBook ------------------------------
(***************************************************************************)
(* What the stored list of transfer requests promises the people it is     *)
(* kept for: a book of asks.  Who has no open ask enters one, made to      *)
(* somebody else; an open ask is answered, once; nothing is struck out,    *)
(* and nothing else in an entry ever changes.                              *)
(***************************************************************************)
CONSTANTS
    Accounts,
    Kinds,         \* what can be asked for
    Answers        \* what an ask can be told

VARIABLE book      \* the entries, by id

Init == book = << >>

HasOpenAsk(a) == \E id \in DOMAIN book : book[id].by = a /\ book[id].status = "open"

Enter(id) ==
    /\ DOMAIN book' = DOMAIN book \cup {id}
    /\ \A other \in DOMAIN book : book'[other] = book[other]
    /\ \E a \in Accounts, kind \in Kinds : \E holder \in Accounts \ {a} :
          /\ ~HasOpenAsk(a)
          /\ book'[id] = [by |-> a, to_holder |-> holder, term |-> kind, status |-> "open"]

Give(id, answer) ==
    /\ book[id].status = "open"
    /\ book' = [book EXCEPT ![id].status = answer]

Next ==
    \/ \E id \in DOMAIN book' \ DOMAIN book : Enter(id)
    \/ \E id \in DOMAIN book, answer \in Answers : Give(id, answer)

Spec == Init /\ [][Next]_book
=============================================================================
