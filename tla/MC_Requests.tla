---------------------------- MODULE MC_Requests ----------------------------
(***************************************************************************)
(* Small instances of the transfer requests: two handlers interleaved over *)
(* one ask, or one handler at a time over two asks.                        *)
(***************************************************************************)
EXTENDS RequestsScenes, TLC

CONSTANTS al, bo, h1, h2, h3

\* The interleaved handlers are interchangeable, and so are the accounts that do
\* not hold the week at first.
Alike == {p @@ q : p \in Permutations(Accounts \ {Owner}), q \in Permutations({h1, h2})}

\* One setting alone
Alone == scene = "alone" /\ Init /\ [][Next /\ UNCHANGED scene]_<<scene, vars>>
=============================================================================
