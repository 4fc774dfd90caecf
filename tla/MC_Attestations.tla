--------------------------- MODULE MC_Attestations ---------------------------
(* Instances of Attestations for TLC.                                      *)
EXTENDS Attestations, TLC

CONSTANTS r1, r2, d1, d2, t1, t2

MCRecordOf == r1 :> d1 @@ r2 :> d2

\* The two rights may be exchanged with their records, and the two texts.
Alike == {r1 :> r2 @@ r2 :> r1 @@ d1 :> d2 @@ d2 :> d1, t1 :> t2 @@ t2 :> t1}
==============================================================================
