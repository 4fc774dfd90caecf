------------------------------ MODULE MC_Pages ------------------------------
(***************************************************************************)
(* Small instances of the registry's reading, of signing in, the screens   *)
(* and paging through events: two accounts and two weeks.                  *)
(***************************************************************************)
EXTENDS Pages

CONSTANTS
    a, b,           \* accounts
    h,              \* a secret's hash
    d               \* a record's digest

\* a's account takes both keys, b's its own
TwoKeysForOne == [n \in {a, b} |-> IF n = a THEN {a, b} ELSE {b}]

\* Two weeks of one seller; the second is rented out, and has no attestation on file.
Attested(right_id, sound) == [right |-> right_id, digest |-> d, sound |-> sound, clear |-> TRUE]
OneRented == [n \in {1, 2} |-> {[id |-> n, holder |-> a, active |-> TRUE, rented |-> n = 2]}]
OneOnFile == [n \in {1, 2} |-> IF n = 1 THEN {Attested(1, TRUE)} ELSE {}]
OneForged == {Attested(1, TRUE), Attested(2, FALSE)}

\* The issuer holds one week with fees due, for sale or not, and offers the other for
\* rent.  b may have asked for the first.
Shows(listing, fees) ==
    [title |-> a, holder |-> a, rented |-> FALSE, listing |-> listing, over |-> FALSE,
     active |-> TRUE, fees |-> fees]
OneForRent ==
    [n \in {1, 2} |->
        IF n = 1 THEN {Shows(None, "due"), Shows("sale", "due")} ELSE {Shows("rent", "current")}]
OneAsk ==
    [n \in {a, b} |->
        {[incoming |-> {}, outgoing |-> {}],
         IF n = a THEN [incoming |-> {1}, outgoing |-> {}] ELSE [incoming |-> {}, outgoing |-> {1}]}]

\* A file that sells a's week to b, and one that rents it to b
OneOfEach ==
    {[from |-> a, to |-> b, sale |-> TRUE, hash |-> h],
     [from |-> a, to |-> b, sale |-> FALSE, hash |-> None]}
=============================================================================
