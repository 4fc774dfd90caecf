--------------------------- MODULE RequestsScenes ---------------------------
(***************************************************************************)
(* The transfer requests in two settings, as scenes of one specification:  *)
(* handlers interleaved, or one handler at a time in a store whose writes  *)
(* may fail before or after they are applied.                              *)
(***************************************************************************)
EXTENDS Requests

CONSTANTS
    Handler,       \* the handler that is alone
    \* Bounds of its scene
    SerialAsks, SerialPossessions

ASSUME RequestsScenesAssumption == SerialAsks \in Nat /\ SerialPossessions \in Nat

VARIABLE scene

Serial == INSTANCE Requests WITH
    Workers <- {Handler}, GetFails <- FALSE, SetFails <- TRUE,
    MaxAsks <- SerialAsks, MaxPossessions <- SerialPossessions

ScenesInit ==
    \/ scene = "interleaved" /\ Init
    \/ scene = "serial" /\ Serial!Init

ScenesNext ==
    \/ scene = "interleaved" /\ Next /\ UNCHANGED scene
    \/ scene = "serial" /\ Serial!Next /\ UNCHANGED scene

Scenes == ScenesInit /\ [][ScenesNext]_<<scene, vars>>

\* With one handler at a time, what a caller was told is recorded stays recorded
\* (requests/[id]/route.ts and requests/route.ts answer 503 otherwise).
SeriallyAcknowledgedStays == scene = "serial" => AcknowledgedStays

\* With one handler at a time, an account has at most one open ask for the week,
\* also when it was told that an earlier one could not be recorded (openRequestBy).
SeriallyOneOpenAskEach == scene = "serial" => OneOpenAskEach

\* With one handler at a time, the list that is read whole, changed and written back is
\* a book of asks (AskBook): an account enters one while it has none open, an open one is
\* answered once (requests/[id]/route.ts, line 69), and none is lost or changed otherwise.
SerialBook == INSTANCE AskBook WITH book <- IF scene = "serial" THEN store ELSE << >>
SeriallyABook == SerialBook!Spec
=============================================================================
