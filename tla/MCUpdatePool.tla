---------------------------- MODULE MCUpdatePool ----------------------------
(***************************************************************************)
(* Small instances of UpdatePool for TLC: slices of two entries stand for  *)
(* the eleven of the code.                                                 *)
(***************************************************************************)
EXTENDS UpdatePool

CONSTANTS c1, c2, v1, v2, v3, v4

ThreeVotes == <<v1, v2, v3>>

\* Lists of the first n votes in every state a pool can be found in at epoch 1.
ListsOf(n) ==
    {[i \in 1 .. n |-> [vote |-> ThreeVotes[i], last_update_epoch |-> upd[i],
                        status |-> st[i]]] :
        upd \in [1 .. n -> {0, 1}], st \in [1 .. n -> {"Active", "Deactivating"}]}

\* A single entry; or a slice half updated and a short one after it.
SomeLists ==
    ListsOf(1) \cup {l \in ListsOf(3) :
                        /\ l[1].last_update_epoch = 0 /\ l[2].last_update_epoch = 1
                        /\ l[2].status = "Active" /\ l[3].status = "Active"}

\* One process is a command that updates the pool first, the other `splsp update`.
SomeOptions ==
    [c \in Cranks |-> IF c = c1 THEN {[ctrl |-> "IfNeeded", noMerge |-> FALSE]}
                      ELSE {[ctrl |-> "ForcePool", noMerge |-> FALSE],
                            [ctrl |-> "ForceAll", noMerge |-> TRUE]}]

=============================================================================
