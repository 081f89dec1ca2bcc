------------------------ MODULE MCSyncValidatorList ------------------------
(***************************************************************************)
(* Small instances of SyncValidatorList for TLC.  A new validator stake    *)
(* account takes 2 lamports; chunks of two instructions may cut the        *)
(* decrease/removal pair of v3 in half, as chunks of five cut the third.   *)
(***************************************************************************)
EXTENDS SyncValidatorList

CONSTANTS v1, v2, v3

Listed(lamports) ==
    [NoEntry EXCEPT !.status = "Active", !.active_stake_lamports = lamports,
                    !.vsa = lamports, !.live = TRUE]
Leaving      == [Listed(2) EXCEPT !.status = "Deactivating", !.live = FALSE]
Filling      == [Listed(2) EXCEPT !.activating = 2, !.since = 1]
UpToDate(e)  == [e EXCEPT !.last_update_epoch = 1]

PoolWith(a, b, c, deposit) ==
    [list |-> [v \in Votes |-> CASE v = v1 -> a [] v = v2 -> b [] OTHER -> c],
     reserve |-> 12, deposit |-> deposit, withdraw |-> None]

\* v3 is the only validator with stake to move out: enough for a stake account, not enough,
\* or still on its way in.
OnePools ==
    {PoolWith(UpToDate(a), UpToDate(Listed(2)), UpToDate(c), v2) :
        a \in {NoEntry, Leaving}, c \in {Listed(5), Listed(3), Filling}}
OneConfigs ==
    {[validators |-> vs, deposit |-> d, withdraw |-> d] :
        vs \in {{v1}, {v1, v2}, {v1, v3}}, d \in {None, v1}}

\* Two validators with stake to move out have to go.
TwoPools   == {PoolWith(NoEntry, UpToDate(Listed(5)), UpToDate(Listed(5)), None)}
TwoConfigs == {[validators |-> {v1}, deposit |-> None, withdraw |-> None]}

\* An earlier epoch's pool.
StalePools == {PoolWith(Listed(2), Listed(2), Listed(5), None)}
=============================================================================
