------------------------ MODULE RequestsScenesProofs ------------------------
(***************************************************************************)
(* What RequestsProofs establishes of any number of handlers, and of one,  *)
(* said of the two scenes: each is an instance of Requests, of which its   *)
(* theorems hold.                                                          *)
(***************************************************************************)
EXTENDS RequestsScenes, RequestsProofs

\* The scene of one handler, with what is proved about Requests
Lone == INSTANCE RequestsProofs WITH
    Workers <- {Handler}, GetFails <- FALSE, SetFails <- TRUE,
    MaxAsks <- SerialAsks, MaxPossessions <- SerialPossessions

\* What Requests assumes of its constants holds of that scene's as well.
LEMMA LoneAssumption ==
    /\ Owner \in Accounts
    /\ None \notin Accounts \cup {"sale", "rental", "accepted", "declined", "withdrawn"}
    /\ FALSE \in BOOLEAN /\ TRUE \in BOOLEAN
    /\ SerialAsks \in Nat /\ SerialPossessions \in Nat
BY RequestsAssumption, RequestsScenesAssumption

LEMMA LoneIsAlone == Lone!OneAtATime
BY DEF Lone!OneAtATime

\* Two instances of Requests with the same constants are the same.
LEMMA SameInit == Serial!Init => Lone!Init
BY DEF Serial!Init, Lone!Init, Serial!NoCall, Lone!NoCall, Serial!Called, Lone!Called

LEMMA SameNext == Serial!Next => Lone!Next
BY DEF Serial!Next, Serial!List, Serial!Unlist, Serial!Lapse, Serial!WeekEnds,
       Serial!Submit, Serial!PrepareSale, Serial!PrepareRental, Serial!Ask,
       Serial!ReadListing, Serial!ReadHolding, Serial!AskCheck,
       Serial!AskRecord, Serial!Answer, Serial!Find, Serial!CheckHolding,
       Serial!Update, Serial!Save, Serial!Abandon, Serial!Kinds,
       Serial!Answers, Serial!Current, Serial!OnTerm, Serial!Moves,
       Serial!Loads, Serial!Resume, Serial!Return, Serial!Record,
       Serial!RowRefused, Serial!HasOpenRequest, Serial!MayAnswer, Serial!Put,
       Serial!Called, Serial!NoCall, Serial!contract, Serial!handlers,
       Lone!Next, Lone!List, Lone!Unlist, Lone!Lapse, Lone!WeekEnds,
       Lone!Submit, Lone!PrepareSale, Lone!PrepareRental, Lone!Ask,
       Lone!ReadListing, Lone!ReadHolding, Lone!AskCheck, Lone!AskRecord,
       Lone!Answer, Lone!Find, Lone!CheckHolding, Lone!Update, Lone!Save,
       Lone!Abandon, Lone!Kinds, Lone!Answers, Lone!Current, Lone!OnTerm,
       Lone!Moves, Lone!Loads, Lone!Resume, Lone!Return, Lone!Record,
       Lone!RowRefused, Lone!HasOpenRequest, Lone!MayAnswer, Lone!Put,
       Lone!Called, Lone!NoCall, Lone!contract, Lone!handlers

\* A scene stays the same, and in it only its own handlers move.
LEMMA SceneMoves ==
    ASSUME [ScenesNext]_<<scene, vars>>
    PROVE  /\ scene' = scene
           /\ scene = "interleaved" => [Next]_vars
           /\ scene = "serial" => [Lone!Next]_(Lone!vars)
<1>1. CASE ScenesNext
    BY <1>1, SameNext DEF ScenesNext
<1>2. CASE UNCHANGED <<scene, vars>>
    BY <1>2 DEF vars, contract, handlers, Lone!vars, Lone!contract, Lone!handlers
<1>. QED
    BY <1>1, <1>2

\* A behaviour of the scenes is one of the two specifications.
LEMMA OneScene ==
    Scenes => \/ Spec /\ [](scene = "interleaved")
              \/ Lone!Spec /\ [](scene = "serial")
<1>1. ScenesInit => \/ scene = "interleaved" /\ Init
                    \/ scene = "serial" /\ Lone!Init
    BY SameInit DEF ScenesInit
<1>2. scene = "interleaved" /\ [ScenesNext]_<<scene, vars>>
        => [Next]_vars /\ (scene = "interleaved")'
    BY SceneMoves
<1>3. scene = "serial" /\ [ScenesNext]_<<scene, vars>>
        => [Lone!Next]_(Lone!vars) /\ (scene = "serial")'
    BY SceneMoves
<1>. QED
    BY <1>1, <1>2, <1>3, PTL DEF Scenes, Spec, Lone!Spec

-----------------------------------------------------------------------------
(* Theorems about both scenes                                               *)

\* In either scene, a request is recorded accepted only if a transfer made after the
\* ask brought the week to the asker (requests/[id]/route.ts, 97-114).
THEOREM AcceptancesHappenInScenes == Scenes => []AcceptedMeansMoved
<1>1. Lone!AcceptedMeansMoved => AcceptedMeansMoved
    BY DEF Lone!AcceptedMeansMoved, AcceptedMeansMoved, Lone!Kinds, Kinds
<1>2. Lone!Spec => []Lone!AcceptedMeansMoved
    BY LoneAssumption, Lone!AcceptancesHappened
<1>. QED
    BY <1>1, <1>2, OneScene, AcceptancesHappened, PTL

\* In either scene, every answer on record was given by the party entitled to it
\* (requests/[id]/route.ts, 76-123).
THEOREM AnswersAreEntitledInScenes == Scenes => []AnswersAreTheirsToGive
<1>1. Lone!AnswersAreTheirsToGive => AnswersAreTheirsToGive
    BY DEF Lone!AnswersAreTheirsToGive, AnswersAreTheirsToGive, Lone!Entitled, Entitled
<1>2. Lone!Spec => []Lone!AnswersAreTheirsToGive
    BY LoneAssumption, Lone!AnswersAreEntitled
<1>. QED
    BY <1>1, <1>2, OneScene, AnswersAreEntitled, PTL

\* With one handler at a time, what a caller was told is recorded stays recorded, also
\* when writes fail after they were applied (requests/route.ts, requests/[id]/route.ts).
THEOREM SeriallyToldStays == Scenes => []SeriallyAcknowledgedStays
<1>1. Lone!AcknowledgedStays => AcknowledgedStays
    BY DEF Lone!AcknowledgedStays, AcknowledgedStays
<1>2. Lone!Spec => []Lone!AcknowledgedStays
    BY LoneAssumption, LoneIsAlone, Lone!WhatWasToldStays
<1>3. /\ scene = "interleaved" => SeriallyAcknowledgedStays
      /\ AcknowledgedStays => SeriallyAcknowledgedStays
    BY DEF SeriallyAcknowledgedStays
<1>. QED
    BY <1>1, <1>2, <1>3, OneScene, PTL

\* With one handler at a time, an account has one open ask for the week at most, also
\* when it was told that an earlier one could not be recorded (openRequestBy).
THEOREM SeriallyOneAskEach == Scenes => []SeriallyOneOpenAskEach
<1>1. Lone!OneOpenAskEach => OneOpenAskEach
    BY DEF Lone!OneOpenAskEach, OneOpenAskEach
<1>2. Lone!Spec => []Lone!OneOpenAskEach
    BY LoneAssumption, LoneIsAlone, Lone!OneAskEach
<1>3. /\ scene = "interleaved" => SeriallyOneOpenAskEach
      /\ OneOpenAskEach => SeriallyOneOpenAskEach
    BY DEF SeriallyOneOpenAskEach
<1>. QED
    BY <1>1, <1>2, <1>3, OneScene, PTL

\* With one handler at a time, what is stored is a book of asks: entered by who has none
\* open, answered once, and none lost (lib/requests.ts, 182-244; requests/[id]/route.ts, 69).
THEOREM SeriallyTheStoreIsABook == Scenes => SeriallyABook
<1>. DEFINE shown == IF scene = "serial" THEN store ELSE << >>
<1>1. Lone!Spec => Lone!Book!Init /\ [][Lone!Book!Next]_store
    BY LoneAssumption, LoneIsAlone, Lone!TheStoreIsABook DEF Lone!ImplementsAskBook, Lone!Book!Spec
<1>2. scene = "serial" /\ Lone!Book!Init => SerialBook!Init
    BY DEF Lone!Book!Init, SerialBook!Init
<1>3. scene = "serial" /\ (scene = "serial")' /\ [Lone!Book!Next]_store
        => [SerialBook!Next]_shown
    <2>. SUFFICES ASSUME scene = "serial", (scene = "serial")', [Lone!Book!Next]_store
                  PROVE  [SerialBook!Next]_shown
        OBVIOUS
    <2>1. shown = store /\ shown' = store'
        OBVIOUS
    <2>2. ASSUME NEW id \in DOMAIN store' \ DOMAIN store, Lone!Book!Enter(id)
          PROVE  SerialBook!Next
        <3>1. SerialBook!Enter(id)
            BY <2>2 DEF Lone!Book!Enter, Lone!Book!HasOpenAsk, Lone!Kinds,
                        SerialBook!Enter, SerialBook!HasOpenAsk, Kinds
        <3>. QED
            BY <2>2, <3>1 DEF SerialBook!Next
    <2>3. ASSUME NEW id \in DOMAIN store, NEW answer \in Answers, Lone!Book!Give(id, answer)
          PROVE  SerialBook!Next
        <3>1. SerialBook!Give(id, answer)
            BY <2>3 DEF Lone!Book!Give, SerialBook!Give
        <3>. QED
            BY <2>3, <3>1 DEF SerialBook!Next
    <2>. QED
        BY <2>1, <2>2, <2>3 DEF Lone!Book!Next, Lone!Answers, Answers
<1>4. scene = "interleaved" => SerialBook!Init
    BY DEF SerialBook!Init
<1>5. scene = "interleaved" /\ (scene = "interleaved")' => [SerialBook!Next]_shown
    OBVIOUS
<1>. HIDE DEF shown
<1>6. Scenes => SerialBook!Init /\ [][SerialBook!Next]_shown
    BY <1>1, <1>2, <1>3, <1>4, <1>5, OneScene, PTL
<1>. QED
    BY <1>6 DEF SeriallyABook, SerialBook!Spec, shown
=============================================================================
