----------------------------- MODULE MCIssuance -----------------------------
(***************************************************************************)
(* Two workloads and two snapshots.  Under the first, one workload is      *)
(* mapped and the other is not; under the second the first is mapped to    *)
(* another account and the second's entry carries no account name.         *)
(***************************************************************************)
EXTENDS Issuance, TLC

CONSTANTS c1, c2, v1, v2, a1, a2

MCRegistry ==
    v1 :> (c1 :> a1 @@ c2 :> NoAccount) @@ v2 :> (c1 :> a2 @@ c2 :> a1)

MCNamed == v1 :> {c1} @@ v2 :> {c1}

Symmetry == Permutations(Requests)
=============================================================================
