--------------------------- MODULE MCUserCommands ---------------------------
(***************************************************************************)
(* A small instance of UserCommands for TLC: two validators, a pool that   *)
(* an epoch passes over once, and one or two commands of a wallet.         *)
(***************************************************************************)
EXTENDS UserCommands

CONSTANTS c1, c2, v1, v2

DepositSol(a, n) == [kind |-> "deposit-sol", account |-> a, amt |-> n, validator |-> None]
DepositStake(a)  == [kind |-> "deposit-stake", account |-> a, amt |-> 0, validator |-> None]
Withdraw(n, v)   == [kind |-> "withdraw-stake", account |-> "ata", amt |-> n, validator |-> v]

One(r)    == [c \in Commands |-> IF c = c1 THEN r ELSE None]
Two(q, r) == [c \in Commands |-> IF c = c1 THEN q ELSE r]

PoolOf(auth, d, w) == [epoch |-> 0, solAuthority |-> auth, stakeAuthority |-> auth,
                       preferredDeposit |-> d, preferredWithdraw |-> w]
Free   == PoolOf(None, None, None)
Strict == PoolOf("other", v1, v1)

Validator(v, n)   == [vote |-> v, active |-> n, leaving |-> FALSE]
TokensOf(a, o)    == [t \in Tokens |-> IF t = "ata" THEN a ELSE o]
Of(p, l, tks, reqs) ==
    {[pool |-> p, list |-> l, tokens |-> tks, stake |-> [vote |-> v1, authority |-> "wallet"],
      request |-> r] : r \in reqs}

OneValidator  == <<Validator(v1, 4)>>
TwoValidators == <<Validator(v1, 4), Validator(v2, 3)>>

Alone == {One(r) : r \in {DepositSol("ata", 1), DepositSol("other", 1), DepositStake("ata"),
                          DepositStake("other"), Withdraw(3, None), Withdraw(1, v1),
                          Withdraw(1, v2), Withdraw(All, None)}}
\* Two withdrawals that may find the same seed; two deposits that find no token account.
SomeStarts ==
    UNION {Of(p, TwoValidators, t, Alone) :
              p \in {Free, Strict}, t \in {TokensOf(2, None), TokensOf(None, 1), TokensOf(3, 1)}}
    \cup Of(Free, OneValidator, TokensOf(2, None), {Two(Withdraw(1, v1), Withdraw(All, None))})
    \cup Of(Free, OneValidator, TokensOf(None, None),
            {Two(DepositSol("ata", 1), DepositStake("ata"))})
SomeEarnings == {[v \in Votes |-> IF v = v2 THEN 2 ELSE 0]}

=============================================================================
