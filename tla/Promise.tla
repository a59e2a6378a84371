------------------------------ MODULE Promise ------------------------------
(***************************************************************************)
(* What the broker promises, without saying how: a workload is handed a    *)
(* credential only when the credential is one the mapping allows and its   *)
(* row is in the account for good.  Account says what "for good" means.    *)
(*                                                                         *)
(* Rows is the set of credentials the mapping allows, with what the record *)
(* says of each.                                                           *)
(***************************************************************************)
EXTENDS Account

VARIABLE delivered   \* the credentials that reached a workload

promiseVars == <<account, acked, delivered>>

PromiseInit == Init /\ delivered = {}

Deliver(r) ==
    /\ r \in acked
    /\ delivered' = delivered \cup {r}
    /\ UNCHANGED vars

PromiseNext ==
    \/ Next /\ UNCHANGED delivered
    \/ \E r \in Rows : Deliver(r)

PromiseSpec == PromiseInit /\ [][PromiseNext]_promiseVars
=============================================================================
