---------------------------- MODULE MCRecordFile ----------------------------
(***************************************************************************)
(* Three issuances, so that a row is torn, one is glued to it and one      *)
(* comes after; two outages, so that a restarted process ends again.       *)
(***************************************************************************)
EXTENDS RecordFile, TLC

Symmetry == Permutations(Rows)
=============================================================================
