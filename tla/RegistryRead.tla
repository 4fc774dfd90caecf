---------------------------- MODULE RegistryRead ----------------------------
(***************************************************************************)
(* What reading the registry promises: every week or an error.             *)
(*                                                                         *)
(* Weeks are issued and burned while the read goes on.  Its answer may omit *)
(* a week only if the week was issued after the question or is burned by   *)
(* the time of the answer, and never names one that did not exist.         *)
(***************************************************************************)
EXTENDS Naturals

VARIABLES
    issued,    \* how many weeks there have been: their ids are 1..issued
    live,      \* those not burned
    step,      \* "idle", "reading" once the question is asked, "done" or "failed"
    asked,     \* the weeks that were live when it was asked
    shown      \* the weeks in the answer

vars == <<issued, live, step, asked, shown>>

Init ==
    /\ issued \in Nat
    /\ live = 1..issued
    /\ step = "idle"
    /\ asked = {} /\ shown = {}

Issue ==
    /\ issued' = issued + 1
    /\ live' = live \cup {issued + 1}
    /\ UNCHANGED <<step, asked, shown>>

Burn(id) ==
    /\ id \in live
    /\ live' = live \ {id}
    /\ UNCHANGED <<issued, step, asked, shown>>

Ask ==
    /\ step = "idle"
    /\ step' = "reading"
    /\ asked' = live
    /\ UNCHANGED <<issued, live, shown>>

Answer ==
    /\ step = "reading"
    /\ step' = "done"
    /\ shown' \in {s \in SUBSET asked : asked \cap live \subseteq s}
    /\ UNCHANGED <<issued, live, asked>>

Fail ==
    /\ step \in {"idle", "reading"}
    /\ step' = "failed"
    /\ UNCHANGED <<issued, live, asked, shown>>

Next == Issue \/ (\E id \in live : Burn(id)) \/ Ask \/ Answer \/ Fail

Spec == Init /\ [][Next]_vars
=============================================================================
