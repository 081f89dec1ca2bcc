--------------------------- MODULE MCPoolLifecycle ---------------------------
(***************************************************************************)
(* A small instance of PoolLifecycle for TLC: three validators and chunks  *)
(* of two stand for chunks of seven; a withdrawal fee may not go up at     *)
(* all, the worst the program could do.                                    *)
(***************************************************************************)
EXTENDS PoolLifecycle

CONSTANTS k1, k2, ata, v1, v2, v3

Frac(n, d) == [numerator |-> n, denominator |-> d]
NoFee    == Frac(0, 0)
Low      == Frac(1, 100)
High     == Frac(5, 100)
Over     == Frac(101, 100)
SomeFees == {NoFee, Low, High, Over}

Ours(n) == [authority |-> "pool", lamports |-> n]
Foreign == [authority |-> "other", lamports |-> 9]

FeesOf(solDeposit, stakeWithdrawal, solWithdrawal) ==
    [f \in FeeTypes |-> CASE f = "SolDeposit" -> solDeposit
                          [] f = "StakeWithdrawal" -> stakeWithdrawal
                          [] f = "SolWithdrawal" -> solWithdrawal
                          [] OTHER -> Low]
AuthsOf(stakeDeposit, solDeposit) ==
    [a \in FundingTypes |-> CASE a = "StakeDeposit" -> stakeDeposit
                              [] a = "SolDeposit" -> solDeposit [] OTHER -> None]
FileOf(staker, feeAccount, auth, fee, validators, preferred) ==
    [manager |-> Unset, staker |-> staker, feeAccount |-> feeAccount, auth |-> auth,
     fee |-> fee, max_validators |-> 2 + Cardinality(validators \cap {v3}),
     validators |-> validators, deposit |-> preferred, withdraw |-> None]

\* Fees and authorities that Initialize cannot set as they should be, and such as it can.
SomeSettings ==
    {[auth |-> AuthsOf(DefaultAuth, None), fee |-> FeesOf(Unset, Low, High)],
     [auth |-> AuthsOf(k2, None), fee |-> FeesOf(High, High, Low)],
     [auth |-> AuthsOf(k2, k1), fee |-> FeesOf(High, Low, High)]}
AllVotes == {v1, v2, v3}
ManyFiles ==
    {FileOf(s, Unset, x.auth, x.fee, AllVotes, v1) : s \in {Unset, k2}, x \in SomeSettings}
    \cup {FileOf(k2, Unset, x.auth, x.fee, {}, None) : x \in SomeSettings}
    \cup {FileOf(k2, k2, AuthsOf(k2, None), FeesOf(High, High, Low), vs, v1) :
             vs \in {{}, AllVotes}}
    \cup {[FileOf(Unset, Unset, AuthsOf(None, None), FeesOf(Low, Low, Low), {v1, v2}, None)
              EXCEPT !.max_validators = 1],
          FileOf(Unset, Unset, AuthsOf(None, None), FeesOf(Over, Low, Low), {}, None)}
ManyMints    == {[sound |-> TRUE, authority |-> k1], [sound |-> FALSE, authority |-> k1],
                 [sound |-> TRUE, authority |-> k2]}
ManyReserves == {None, Foreign, Ours(3), Ours(9)}
ManyAccounts == {{}, {ata, k2}}

=============================================================================
