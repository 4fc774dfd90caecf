---------------------------- MODULE MC_Issuance ----------------------------
(***************************************************************************)
(* Small instances of issuing: two handlers interleaved over one record    *)
(* and one secret, or one handler at a time over two of each.              *)
(***************************************************************************)
EXTENDS IssuanceScenes, TLC

CONSTANTS al, bo, r1, r2, r3, s1, s2, s3, h1, h2, h3

\* Nothing tells two accounts, two records, two secrets or two handlers apart.
Alike ==
    UNION {Permutations(Accounts), Permutations({r1, r2}),
           Permutations({s1, s2}), Permutations({h1, h2})}

\* One setting alone
Alone == scene = "alone" /\ Init /\ [][Next /\ UNCHANGED scene]_<<scene, vars>>
=============================================================================
