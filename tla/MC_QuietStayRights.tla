-------------------------- MODULE MC_QuietStayRights --------------------------
(***************************************************************************)
(* Small instances of the rights contract.                                 *)
(***************************************************************************)
EXTENDS Shop

CONSTANTS a, b, c, contract, s_a, s_b

\* Each account keeps one secret of its own; c has none yet.
MCKeeps == [x \in Accounts |-> IF x = a THEN {s_a} ELSE IF x = b THEN {s_b} ELSE {}]

\* What an honest issuer asks for: the owner's account and secret hash.
HonestWraps == {w \in Commitments : \E s \in MCKeeps[w.account] : w.hash = SecretHash(s)}
AnyWraps == Commitments

Window(start, end, from, until) ==
    [period |-> [start |-> start, end |-> end],
     validity |-> [from |-> from, until |-> until]]

\* A window that opens after the chain starts and closes before it ends, and
\* requests the contract must refuse: a stay that ends before it starts, a
\* window that closes before check-out, one that opens after check-in.
MCWindows == {Window(2, 3, 1, 3), Window(3, 2, 1, 3), Window(2, 4, 1, 3), Window(1, 3, 2, 3)}
OneWindow == {Window(2, 3, 1, 3)}
=============================================================================
