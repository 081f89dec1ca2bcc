------------------------------ MODULE ListSync ------------------------------
(***************************************************************************)
(* What `splsp sync-validator-list` promises the owner of a pool, whatever *)
(* happens on the way: only validators that the config does not name go,   *)
(* only such as it names come, and they come when the others have gone;    *)
(* the preferred validators are set last, and a validator that goes is     *)
(* preferred no more.                                                      *)
(*                                                                         *)
(* SyncValidatorList, the command in full, is shown to implement it.       *)
(***************************************************************************)
CONSTANTS Votes, None

VARIABLES
    status,             \* of each validator: "Absent", "Active" or "Deactivating"
    deposit, withdraw,  \* the preferred validators
    wanted              \* the config: validators, deposit, withdraw

vars == <<status, deposit, withdraw, wanted>>

Members == {v \in Votes : status[v] = "Active"}
Become(S, s) == status' = [v \in Votes |-> IF v \in S THEN s ELSE status[v]]
Unless(v, S) == IF v \in S THEN None ELSE v

Remove ==
    \E S \in (SUBSET (Members \ wanted.validators)) \ {{}} :
        /\ Become(S, "Deactivating")
        /\ deposit' = Unless(deposit, S) /\ withdraw' = Unless(withdraw, S)
        /\ UNCHANGED wanted

Add ==
    /\ Members \subseteq wanted.validators
    /\ \E S \in (SUBSET {v \in wanted.validators : status[v] = "Absent"}) \ {{}} :
           Become(S, "Active")
    /\ UNCHANGED <<deposit, withdraw, wanted>>

Prefer ==
    /\ Members \subseteq wanted.validators
    /\ deposit' \in {deposit, wanted.deposit} /\ withdraw' \in {withdraw, wanted.withdraw}
    /\ <<deposit, withdraw>>' # <<deposit, withdraw>>
    /\ {deposit', withdraw'} \subseteq Members \cup {None}
    /\ UNCHANGED <<status, wanted>>

\* An epoch after its removal a validator is off the list, and may come back.
Clean(S) ==
    /\ S \subseteq {v \in Votes : status[v] = "Deactivating"}
    /\ Become(S, "Absent")
    /\ UNCHANGED <<deposit, withdraw, wanted>>

Init ==
    /\ status \in [Votes -> {"Absent", "Active", "Deactivating"}]
    /\ {deposit, withdraw} \subseteq Members \cup {None}

Next == Remove \/ Add \/ Prefer \/ \E S \in (SUBSET Votes) \ {{}} : Clean(S)

Spec == Init /\ [][Next]_vars

==============================================================================
