--------------------------- MODULE OwnershipProof ---------------------------
(***************************************************************************)
(* The ownership proof: what circuits/gpl/transfer.circom constrains and   *)
(* what the prover (scripts/lib/zk.ts) computes.                           *)
(*                                                                         *)
(* Poseidon is taken to be collision-free: a hash of given inputs is the   *)
(* record of those inputs, so two hashes are equal exactly when the inputs *)
(* are.  Groth16 is taken to be sound: the pairing check passes for a list *)
(* of signals exactly when private inputs exist that satisfy the circuit.  *)
(* An account stands for both halves of its key (from_hi, from_lo).        *)
(***************************************************************************)
EXTENDS HoldingChain

CONSTANTS
    Secrets,     \* the secrets s that holders draw
    Digests,     \* d: SHA-256 digests of off-chain ownership records
    ZeroHash     \* the field element 0: no next secret hash, on a rental

ASSUME OwnershipProofAssumption == ZeroHash \notin [secret : Secrets]

SecretHash(s) == [secret |-> s]
Hashes == [secret : Secrets]

\* C = Poseidon_5(d_hi, d_lo, a_hi, a_lo, h)
Commit(d, account, h) == [digest |-> d, account |-> account, hash |-> h]
Commitments == [digest : Digests, account : Accounts, hash : Hashes \cup {ZeroHash}]

\* N = Poseidon_6(s, right_id, to_hi, to_lo, mode, expiry_ledger)
Nullify(s, right_id, to, mode, expiry_ledger) ==
    [secret |-> s, right_id |-> right_id, to |-> to,
     mode |-> mode, expiry_ledger |-> expiry_ledger]
Nullifiers == [secret : Secrets, right_id : Nat, to : Accounts,
               mode : Nat, expiry_ledger : Nat]

\* 0 for a sale, the rental's end time otherwise (expires_at.unwrap_or(0)).
ModeOf(expires_at) == IF expires_at = None THEN 0 ELSE expires_at

\* The public signals, in the order the verifier receives them.
Signals ==
    [commitment : Commitments, nullifier : Nullifiers, right_id : Nat,
     from : Accounts, to : Accounts, mode : Nat, expiry_ledger : Nat,
     next_secret_hash : Hashes \cup {ZeroHash}, next_commitment : Commitments]

\* Mutant: the next commitment may wrap any record.
SatisfiesForAnyRecord(p, d, s) ==
    /\ p.commitment = Commit(d, p.from, SecretHash(s))
    /\ p.nullifier = Nullify(s, p.right_id, p.to, p.mode, p.expiry_ledger)
    /\ \E e \in Digests : p.next_commitment = Commit(e, p.to, p.next_secret_hash)

\* The constraints of the circuit, on public signals p and private inputs
\* (d, s): the prover knows the secret behind the commitment, which names the
\* sender; the nullifier is the one this transfer draws from that secret; the
\* next commitment wraps the same record for the recipient.
Satisfies(p, d, s) ==
    /\ p.commitment = Commit(d, p.from, SecretHash(s))
    /\ p.nullifier = Nullify(s, p.right_id, p.to, p.mode, p.expiry_ledger)
    /\ p.next_commitment = Commit(d, p.to, p.next_secret_hash)

\* verifier::verify, by soundness.
Verifies(p) == \E d \in Digests, s \in Secrets : Satisfies(p, d, s)

\* The signals an honest prover computes from the record, the secret and the
\* transfer (circuitInput in scripts/lib/zk.ts).
CircuitInput(d, s, right_id, from, to, expires_at, expiry_ledger, h) ==
    LET mode == ModeOf(expires_at) IN
    [commitment |-> Commit(d, from, SecretHash(s)),
     nullifier |-> Nullify(s, right_id, to, mode, expiry_ledger),
     right_id |-> right_id, from |-> from, to |-> to, mode |-> mode,
     expiry_ledger |-> expiry_ledger, next_secret_hash |-> h,
     next_commitment |-> Commit(d, to, h)]
=============================================================================
