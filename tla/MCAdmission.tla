---------------------------- MODULE MCAdmission ----------------------------
(***************************************************************************)
(* Two connections of one caller and one of another.  The caller's own     *)
(* limit earns a token more slowly than the shared one, as it does by      *)
(* default, and neither earns one in whole seconds.                        *)
(***************************************************************************)
EXTENDS Admission, TLC

CONSTANTS k1, k2, k3, c1, c2

MCCallerOf == k1 :> c1 @@ k2 :> c1 @@ k3 :> c2
=============================================================================
