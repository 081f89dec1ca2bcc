----------------------------- MODULE MCSyncPool -----------------------------
(***************************************************************************)
(* Small instances of SyncPool for TLC.  Of the settings that the code     *)
(* treats alike some vary and the others stay as they are.                 *)
(***************************************************************************)
EXTENDS SyncPool

CONSTANTS k1, k2

Frac(n, d) == [numerator |-> n, denominator |-> d]
Zero  == Frac(0, 0)
Nil   == Frac(0, 100)     \* the same fee
Low   == Frac(1, 100)
LowToo == Frac(2, 200)     \* the same fee
Mid   == Frac(3, 100)
High  == Frac(5, 100)
Over  == Frac(101, 100)
SomeFees   == {Zero, Nil, Low, LowToo, Mid, High, Over}
SomeRaises == {<<Zero, Low>>, <<Zero, LowToo>>, <<Nil, Low>>, <<Nil, LowToo>>}

Pending(f, n) == [epochs |-> n, fee |-> f]

\* A pool and a target: the epoch fee, a withdrawal fee and a deposit fee vary.
FeesOf(epochFee, withdrawal, deposit) ==
    [f \in FeeTypes |-> CASE f = "Epoch" -> epochFee [] f = "SolWithdrawal" -> withdrawal
                          [] f = "SolDeposit" -> deposit [] OTHER -> Low]
Auths(stakeDeposit, solDeposit) ==
    [a \in FundingTypes |-> CASE a = "StakeDeposit" -> stakeDeposit
                              [] a = "SolDeposit" -> solDeposit [] OTHER -> None]
PoolOf(feeAccount, auth, fee, next) ==
    [manager |-> k1, staker |-> k1, feeAccount |-> feeAccount, auth |-> auth, fee |-> fee,
     next |-> [f \in DelayedFees |-> IF f = "Epoch" THEN next ELSE NotPending]]

FileOf(manager, staker, feeAccount, auth, fee) ==
    [manager |-> manager, oldManager |-> k1, staker |-> staker, oldStaker |-> Unset,
     feeAccount |-> feeAccount,
     auth |-> auth, fee |-> fee]

With(pools, files) == {[file |-> f, settings |-> p] : f \in files, p \in pools}

\* Fees that take their time, with nothing, the right or the wrong fee pending.
EpochPool(fee, next) == PoolOf(k1, Auths(DefaultAuth, None), FeesOf(fee, Zero, Low), next)
Fresh    == EpochPool(High, NotPending)
FeePools == {Fresh, EpochPool(High, Pending(LowToo, 2)), EpochPool(Low, Pending(High, 1))}
FeeFile(epoch, withdrawal) ==
    FileOf(Unset, k2, Unset, Auths(None, None), FeesOf(epoch, withdrawal, High))
FeeStarts == With(FeePools, {FeeFile(LowToo, Unset), FeeFile(High, Low)})

\* A withdrawal fee that goes down meanwhile, so far that it cannot go up to the file's again.
Falling ==
    [PoolOf(k1, Auths(DefaultAuth, None), FeesOf(Low, High, Low), NotPending)
         EXCEPT !.next["SolWithdrawal"] = Pending(Low, 1)]
ToMid == FileOf(Unset, k2, Unset, Auths(None, None), FeesOf(Low, Mid, Low))

\* Everything else as well: a pool with authorities, one of another manager, files that give
\* the roles away and one with a fee above 100%.
Closed == PoolOf(k1, Auths(k2, k1), FeesOf(Low, Zero, High), NotPending)
Others ==
    [PoolOf(k2, Auths(DefaultAuth, None), FeesOf(Low, Zero, Low), NotPending) EXCEPT !.staker = k2]
AllNew   == FileOf(k2, k2, k2, Auths(DefaultAuth, k1), FeesOf(High, Low, Nil))
GiveAway ==
    [FileOf(k2, k2, k2, Auths(None, None), FeesOf(Unset, Unset, Unset)) EXCEPT !.oldManager = Unset]
ForStaker ==
    [FileOf(Unset, Unset, k2, Auths(k1, None), FeesOf(High, Unset, Nil))
        EXCEPT !.oldStaker = k2, !.manager = [pubkey |-> k2]]
TooMuch == FileOf(Unset, Unset, Unset, Auths(None, None), FeesOf(LowToo, Unset, Over))
ManyStarts ==
    FeeStarts \cup With({Falling}, {ToMid})
    \cup With({Closed}, {AllNew, ForStaker})
    \cup With({Others}, {GiveAway, FeeFile(LowToo, Unset)})
    \cup With({Fresh}, {GiveAway, TooMuch})
SomeOtherTargets ==
    {[manager |-> m, staker |-> k2, feeAccount |-> k2, auth |-> Auths(k1, k2),
      fee |-> FeesOf(High, Zero, Low)] : m \in {k1, k2}}

=============================================================================
