------------------------------ MODULE Account ------------------------------
(***************************************************************************)
(* What a Recorder promises (src/internal/record): an account of           *)
(* issuances, each entered once.  An entry the Recorder acknowledged stays *)
(* in the account whatever happens to the process or the machine; one it   *)
(* did not acknowledge may stay or be lost.                                *)
(***************************************************************************)
CONSTANT Rows   \* issuances

VARIABLES
    account,   \* the issuances whose row is in the account
    acked      \* the issuances Record returned nil for

vars == <<account, acked>>

Init == account = {} /\ acked = {}

Enter(r) ==
    /\ r \notin account
    /\ account' = account \cup {r}
    /\ UNCHANGED acked

Acknowledge(r) ==
    /\ r \in account
    /\ acked' = acked \cup {r}
    /\ UNCHANGED account

Lose ==
    /\ account' \in SUBSET account
    /\ acked \subseteq account'
    /\ UNCHANGED acked

Next ==
    \/ \E r \in Rows : Enter(r) \/ Acknowledge(r)
    \/ Lose

Spec == Init /\ [][Next]_vars
=============================================================================
