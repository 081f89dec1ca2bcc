---------------------------- MODULE UserCommands ----------------------------
(***************************************************************************)
(* What users do with a pool: `splsp deposit-sol`, `deposit-stake` and     *)
(* `withdraw-stake`.  Each command fetches what it needs in several calls, *)
(* decides on the copies, brings the pool up to date if the copy says that *)
(* it is not, and only then sends its one transaction, made of what it     *)
(* had read and chosen before the update.                                  *)
(*                                                                         *)
(* Several commands of one wallet run at once, while other users, the      *)
(* pool's owners and cranks act on the pool.  The update of a command,     *)
(* which UpdatePool models in full, is one step here.  A pool token is     *)
(* worth one lamport throughout, and the wallet never lacks SOL.           *)
(*                                                                         *)
(* Code:     subcmd/deposit_sol.rs, subcmd/deposit_stake.rs,               *)
(*           subcmd/withdraw_stake.rs.                                     *)
(* External: the stake pool, token and stake programs; everybody else.     *)
(***************************************************************************)
EXTENDS Integers, Sequences, FiniteSets, Selection

CONSTANTS
    Commands,        \* the processes
    None,
    All,             \* the amount "all"
    Votes,           \* vote accounts
    Seeds,           \* seeds of the stake accounts to split to
    Starts,          \* what the model may start with
    Earnings,        \* what validators may earn in an epoch
    StakeAmount,     \* the stake in an account to deposit
    MinStake,        \* what has to stay with a validator
    MaxEpoch,        \* bound: epochs that are modelled
    MaxChanges,      \* bound: steps of other users and of the owners
    MaxLosses        \* bound: transactions lost and processes killed

Kinds   == {"deposit-sol", "deposit-stake", "withdraw-stake"}
\* Token accounts of the wallet: its associated token account and another one.
Tokens  == {"ata", "other"}
\* Only a withdrawal can be of "all".
Request == {r \in [kind : Kinds, account : Tokens, amt : Nat \cup {All}, validator : Votes \cup {None}] :
              r.kind # "withdraw-stake" => r.amt # All}

\* None is an authority that is not the pool's own: whoever likes may deposit.
Authority == {None, "wallet", "other"}

Pool  == [epoch : 0 .. MaxEpoch, solAuthority : Authority, stakeAuthority : Authority,
          preferredDeposit : Votes \cup {None}, preferredWithdraw : Votes \cup {None}]
Entry == [vote : Votes, active : Nat, leaving : BOOLEAN]
\* The stake account to deposit; one that is not delegated has no vote account.
Stake == [vote : Votes \cup {None}, authority : {"wallet", "other"}] \cup {None}

Tx == [kind : Kinds, account : Tokens, createAta : BOOLEAN, amt : Nat,
       vote : Votes \cup {None}, seed : Seeds \cup {None}]

\* A process that is asked for None is never started.
Start == [pool : Pool, list : Seq(Entry), tokens : [Tokens -> Nat \cup {None}], stake : Stake,
          request : [Commands -> Request \cup {None}]]

\* The program adds no validator twice.
DistinctVotes(l) == \A i, j \in DOMAIN l : l[i].vote = l[j].vote => i = j

ASSUME UserConstants ==
    /\ None \notin Votes \cup Seeds /\ All \notin Nat
    /\ Starts \subseteq Start
    /\ \A s \in Starts : s.pool.epoch = 0 /\ DistinctVotes(s.list)
    /\ Earnings \subseteq [Votes -> Nat]
    /\ {StakeAmount, MinStake, MaxEpoch, MaxChanges, MaxLosses} \subseteq Nat

VARIABLES
    (* the chain *)
    epoch, pool,
    list,              \* the validator list
    earned,            \* stake the next update will find with each validator
    tokens, stake,     \* of the wallet
    splits,            \* seeds of the stake accounts the wallet has split to
    tx,                \* the transaction a process waits for, or None
    late,              \* transactions of killed processes that may still be included
    changes, losses,
    (* the commands *)
    request, pc, seen,
    (* history *)
    undisturbed        \* nobody else has done anything since the run began

chain    == <<epoch, pool, list, earned, tokens, stake, splits, tx, late, changes, losses>>
commands == <<request, pc, seen>>
vars     == <<chain, commands, undisturbed>>

-----------------------------------------------------------------------------
(* What the commands make of what they have fetched.                       *)

Has(l, v)     == \E i \in DOMAIN l : l[i].vote = v
EntryOf(l, v) == l[CHOOSE i \in DOMAIN l : l[i].vote = v]

\* Mutant: the smallest.
Smallest(l) ==
    l[CHOOSE i \in DOMAIN l : \A j \in DOMAIN l : l[i].active <= l[j].active].vote

\* Iterator::max_by_key: of several the last.
Largest(l) ==
    l[CHOOSE i \in DOMAIN l : \A j \in DOMAIN l :
        l[j].active < l[i].active \/ (l[j].active = l[i].active /\ j <= i)].vote

\* The validator to withdraw from, or None where the command panics.
Source(r, p, l) ==
    LET wanted == IF p.preferredWithdraw # None THEN p.preferredWithdraw ELSE r.validator
    IN  CASE p.preferredWithdraw # None /\ r.validator \notin {None, p.preferredWithdraw} -> None
          [] wanted = None /\ l # <<>> -> Largest(l)
          [] Has(l, wanted)            -> wanted
          [] OTHER                     -> None

\* Mutant: "all" is left for the program to find out.
AmountAsGiven(r, balance) == r.amt

Amount(r, balance) == IF r.amt = All THEN balance ELSE r.amt

\* Mutant: an update of the previous epoch will do.
UpdateNotDue(s) == s.pool.epoch + 1 >= s.clock

\* "Update not required"
IsUpdatedForCurrEpoch(s) == s.pool.epoch >= s.clock

-----------------------------------------------------------------------------
(* The commands.                                                           *)

Alive == {"fetch_list", "find_seed", "fetch_clock", "update", "send", "confirm"}
Ended == {"idle", "done", "refused", "no_mint_to", "rejected", "lost", "dead"}

NothingSeen == [pool |-> None, noAccount |-> FALSE, list |-> <<>>, clock |-> 0, amt |-> 0,
                vote |-> None, seed |-> None]

Goto(c, phase) == pc' = [pc EXCEPT ![c] = phase]

\* The process is gone, and what it knew with it.
End(c, how) == Goto(c, how) /\ seen' = [seen EXCEPT ![c] = NothingSeen]

\* deposit-stake wants a delegated stake account of the wallet's, staked to the preferred
\* validator if there is one.
StakeFits ==
    /\ stake # None /\ stake.vote # None
    /\ pool.preferredDeposit \in {None, stake.vote}
    /\ stake.authority = "wallet"

\* The first call: the pool, and the stake account to deposit.
FetchPool(c) ==
    /\ request[c] # None /\ pc[c] \notin Alive \cup {"done"}
    /\ undisturbed' = [undisturbed EXCEPT ![c] = TRUE]
    /\ IF request[c].kind = "deposit-stake" /\ ~StakeFits THEN End(c, "refused")
       ELSE /\ seen' = [seen EXCEPT ![c].pool = pool,
                                    ![c].vote = IF request[c].kind = "deposit-stake"
                                                THEN stake.vote ELSE None,
                                    ![c].amt = IF request[c].kind = "deposit-sol"
                                               THEN request[c].amt ELSE 0]
            /\ Goto(c, "fetch_list")
    /\ UNCHANGED <<chain, request>>

\* The second call of a deposit: token account, list and clock.
FetchListDepositSol(c) ==
    /\ pc[c] = "fetch_list" /\ request[c].kind = "deposit-sol"
    /\ seen' = [seen EXCEPT ![c].noAccount = tokens[request[c].account] = None,
                            ![c].list = list, ![c].clock = epoch]
    /\ Goto(c, "update")
    /\ UNCHANGED <<chain, request, undisturbed>>

\* Here it is always the associated token account that is looked for.
FetchListDepositStake(c) ==
    /\ pc[c] = "fetch_list" /\ request[c].kind = "deposit-stake"
    /\ IF tokens["ata"] = None /\ request[c].account # "ata" THEN End(c, "no_mint_to")
       ELSE IF ~Has(list, seen[c].vote) THEN End(c, "refused")
       ELSE /\ seen' = [seen EXCEPT ![c].noAccount = tokens["ata"] = None,
                                    ![c].list = list, ![c].clock = epoch]
            /\ Goto(c, "update")
    /\ UNCHANGED <<chain, request, undisturbed>>

\* The second call of a withdrawal: the tokens and the list.  The amount and the validator
\* are settled.
FetchListWithdraw(c) ==
    LET balance == tokens[request[c].account]
        source  == Source(request[c], seen[c].pool, list)
    IN  /\ pc[c] = "fetch_list" /\ request[c].kind = "withdraw-stake"
        /\ IF \/ balance = None \/ source = None
              \/ request[c].amt # All /\ request[c].amt > balance
           THEN End(c, "refused")
           ELSE /\ seen' = [seen EXCEPT ![c].list = list, ![c].vote = source,
                                        ![c].amt = Amount(request[c], balance)]
                /\ Goto(c, "find_seed")
        /\ UNCHANGED <<chain, request, undisturbed>>

\* Mutant: any seed will do.
FindAnySeed(c) ==
    /\ pc[c] = "find_seed"
    /\ \E s \in Seeds : seen' = [seen EXCEPT ![c].seed = s]
    /\ Goto(c, "fetch_clock")
    /\ UNCHANGED <<chain, request, undisturbed>>

\* Random seeds are tried until one is found whose account does not exist; that five in a
\* row are in use happens only where all are.
FindSeed(c) ==
    /\ pc[c] = "find_seed"
    /\ IF Seeds \subseteq splits THEN End(c, "refused")
       ELSE /\ \E s \in Seeds \ splits : seen' = [seen EXCEPT ![c].seed = s]
            /\ Goto(c, "fetch_clock")
    /\ UNCHANGED <<chain, request, undisturbed>>

FetchClock(c) ==
    /\ pc[c] = "fetch_clock"
    /\ seen' = [seen EXCEPT ![c].clock = epoch]
    /\ Goto(c, "update")
    /\ UNCHANGED <<chain, request, undisturbed>>

-----------------------------------------------------------------------------
(* The update.                                                             *)

VotesOf(l) == [i \in DOMAIN l |-> l[i].vote]

Staying == {e \in Entry : ~e.leaving}

\* What an update makes of the list: stake is counted, the leaving go.
Updated ==
    LET l == Select(list, Staying)
    IN  [i \in DOMAIN l |-> [l[i] EXCEPT !.active = @ + earned[l[i].vote]]]

UpdateOnChain ==
    IF pool.epoch = epoch THEN UNCHANGED <<pool, list, earned>>
    ELSE /\ pool' = [pool EXCEPT !.epoch = epoch]
         /\ list' = Updated
         /\ earned' = [v \in Votes |-> 0]

\* Somebody has done something; the process c knows.
Disturb(c) == undisturbed' = [d \in Commands |-> d = c /\ undisturbed[d]]

\* update_pool with IfNeeded: no step of the chain if the copies are of the current epoch.
Update(c) ==
    /\ pc[c] = "update"
    /\ IF IsUpdatedForCurrEpoch(seen[c])
       THEN UNCHANGED <<pool, list, earned, undisturbed>>
       ELSE UpdateOnChain /\ Disturb(c)
    /\ Goto(c, "send")
    /\ UNCHANGED <<epoch, tokens, stake, splits, tx, late, changes, losses, request,
                   seen>>

\* A slice or the final transaction of the update is rejected, for the list is no longer the
\* one that was fetched, or lost.
UpdateFails(c) ==
    /\ pc[c] = "update" /\ ~IsUpdatedForCurrEpoch(seen[c])
    /\ \/ /\ VotesOf(list) # VotesOf(seen[c].list) /\ End(c, "rejected")
          /\ UNCHANGED losses
       \/ /\ losses < MaxLosses /\ losses' = losses + 1 /\ End(c, "lost")
    /\ UNCHANGED <<epoch, pool, list, earned, tokens, stake, splits, tx, late, changes, request,
                   undisturbed>>

-----------------------------------------------------------------------------
(* The transaction of a command.                                           *)

Transaction(c) ==
    [kind |-> request[c].kind, account |-> request[c].account, createAta |-> seen[c].noAccount,
     amt |-> seen[c].amt, vote |-> seen[c].vote, seed |-> seen[c].seed]

\* deposit-sol looks at the token account only now, and nobody but payer and wallet can sign.
Send(c) ==
    /\ pc[c] = "send"
    /\ IF seen[c].noAccount /\ request[c].account # "ata"
       THEN End(c, "no_mint_to") /\ UNCHANGED tx
       ELSE IF request[c].kind = "deposit-sol" /\ seen[c].pool.solAuthority = "other"
       THEN End(c, "refused") /\ UNCHANGED tx
       ELSE /\ tx' = [tx EXCEPT ![c] = Transaction(c)]
            /\ Goto(c, "confirm") /\ UNCHANGED seen
    /\ UNCHANGED <<epoch, pool, list, earned, tokens, stake, splits, late, changes, losses,
                   request, undisturbed>>

\* Killed; a transaction in flight may still be included.
Crash(c) ==
    /\ pc[c] \in Alive /\ losses < MaxLosses
    /\ losses' = losses + 1
    /\ End(c, "dead")
    /\ tx' = [tx EXCEPT ![c] = None]
    /\ late' = late \cup ({tx[c]} \ {None})
    /\ UNCHANGED <<epoch, pool, list, earned, tokens, stake, splits, changes, request,
                   undisturbed>>

CanGive(l, v, amt) ==
    Has(l, v) /\ ~EntryOf(l, v).leaving /\ EntryOf(l, v).active >= amt + MinStake

\* What the programs accept.  A deposit of stake is not signed by an authority other than the
\* wallet.
Accepts(t) ==
    /\ pool.epoch = epoch
    /\ tokens[t.account] # None \/ t.createAta
    /\ CASE t.kind = "deposit-sol" -> t.amt > 0 /\ pool.solAuthority \in {None, "wallet"}
         [] t.kind = "deposit-stake" ->
              /\ stake # None /\ Has(list, t.vote) /\ ~EntryOf(list, t.vote).leaving
              /\ pool.preferredDeposit \in {None, t.vote}
              /\ pool.stakeAuthority \in {None, "wallet"}
         [] t.kind = "withdraw-stake" ->
              /\ t.amt > 0 /\ tokens[t.account] >= t.amt /\ t.seed \notin splits
              /\ CanGive(list, t.vote, t.amt)
              /\ \/ pool.preferredWithdraw \in {None, t.vote}
                 \/ ~CanGive(list, pool.preferredWithdraw, 1)

WithStake(v, n) == [i \in DOMAIN list |-> IF list[i].vote = v
                                          THEN [list[i] EXCEPT !.active = @ + n] ELSE list[i]]
Balance(a) == IF tokens[a] = None THEN 0 ELSE tokens[a]

\* A transaction is executed.
Land(t) ==
    CASE t.kind = "deposit-sol" ->
           /\ tokens' = [tokens EXCEPT ![t.account] = Balance(t.account) + t.amt]
           /\ UNCHANGED <<list, stake, splits>>
      [] t.kind = "deposit-stake" ->
           /\ tokens' = [tokens EXCEPT ![t.account] = Balance(t.account) + StakeAmount]
           /\ list' = WithStake(t.vote, StakeAmount) /\ stake' = None
           /\ UNCHANGED splits
      [] t.kind = "withdraw-stake" ->
           /\ tokens' = [tokens EXCEPT ![t.account] = @ - t.amt]
           /\ list' = WithStake(t.vote, -t.amt)
           /\ splits' = splits \cup {t.seed}
           /\ UNCHANGED stake

CommitTx(c) ==
    /\ tx[c] # None /\ Accepts(tx[c]) /\ Land(tx[c])
    /\ tx' = [tx EXCEPT ![c] = None]
    /\ End(c, "done") /\ Disturb(c)
    /\ UNCHANGED <<epoch, pool, earned, late, changes, losses, request>>

AbortTx(c) ==
    /\ tx[c] # None /\ ~Accepts(tx[c])
    /\ tx' = [tx EXCEPT ![c] = None]
    /\ End(c, "rejected")
    /\ UNCHANGED <<epoch, pool, list, earned, tokens, stake, splits, late, changes, losses,
                   request, undisturbed>>

LoseTx(c) ==
    /\ tx[c] # None /\ losses < MaxLosses
    /\ losses' = losses + 1
    /\ tx' = [tx EXCEPT ![c] = None]
    /\ End(c, "lost")
    /\ UNCHANGED <<epoch, pool, list, earned, tokens, stake, splits, late, changes, request,
                   undisturbed>>

\* What a killed process has sent is included after all, whatever runs by then, or expires.
LandLate(t) ==
    /\ Accepts(t) /\ Land(t)
    /\ late' = late \ {t}
    /\ undisturbed' = [c \in Commands |-> FALSE]
    /\ UNCHANGED <<epoch, pool, earned, tx, changes, losses, commands>>

DropLate(t) ==
    /\ late' = late \ {t}
    /\ UNCHANGED <<epoch, pool, list, earned, tokens, stake, splits, tx, changes, losses,
                   commands, undisturbed>>

-----------------------------------------------------------------------------
(* Everybody else.                                                         *)

NotTheWallet ==
    /\ undisturbed' = [c \in Commands |-> FALSE]
    /\ UNCHANGED <<tokens, stake, splits, tx, late, losses, commands>>

AdvanceEpoch ==
    /\ epoch < MaxEpoch /\ epoch' = epoch + 1
    /\ \E e \in Earnings : earned' = [v \in Votes |-> earned[v] + e[v]]
    /\ UNCHANGED <<pool, list, changes>> /\ NotTheWallet

OtherCrank ==
    /\ pool.epoch < epoch /\ UpdateOnChain
    /\ UNCHANGED <<epoch, changes>> /\ NotTheWallet

Counted == changes < MaxChanges /\ changes' = changes + 1

\* Another user deposits to or withdraws from a validator.
OtherUser(v, n) ==
    /\ Counted /\ pool.epoch = epoch
    /\ Has(list, v) /\ ~EntryOf(list, v).leaving
    /\ n < 0 => CanGive(list, v, -n)
    /\ list' = WithStake(v, n)
    /\ UNCHANGED <<epoch, pool, earned>> /\ NotTheWallet

\* The staker prefers a validator, or none any more.
Prefer(which, v) ==
    /\ Counted
    /\ v # None => Has(list, v) /\ ~EntryOf(list, v).leaving
    /\ pool[which] # v /\ pool' = [pool EXCEPT ![which] = v]
    /\ UNCHANGED <<epoch, list, earned>> /\ NotTheWallet

\* The staker removes a validator; it is preferred no more.
RemoveValidator(v) ==
    /\ Counted /\ pool.epoch = epoch
    /\ Has(list, v) /\ ~EntryOf(list, v).leaving
    /\ list' = [i \in DOMAIN list |-> IF list[i].vote = v
                                      THEN [list[i] EXCEPT !.leaving = TRUE]
                                      ELSE list[i]]
    /\ pool' = [pool EXCEPT !.preferredDeposit = IF @ = v THEN None ELSE @,
                            !.preferredWithdraw = IF @ = v THEN None ELSE @]
    /\ UNCHANGED <<epoch, earned>> /\ NotTheWallet

-----------------------------------------------------------------------------

Init ==
    /\ \E s \in Starts : /\ pool = s.pool /\ list = s.list /\ tokens = s.tokens
                         /\ stake = s.stake /\ request = s.request
    /\ epoch = 0 /\ earned = [v \in Votes |-> 0] /\ splits = {}
    /\ tx = [c \in Commands |-> None] /\ late = {} /\ changes = 0 /\ losses = 0
    /\ pc = [c \in Commands |-> "idle"] /\ seen = [c \in Commands |-> NothingSeen]
    /\ undisturbed = [c \in Commands |-> FALSE]

FetchList(c) == FetchListDepositSol(c) \/ FetchListDepositStake(c) \/ FetchListWithdraw(c)
Step(c)      == FetchList(c) \/ FindSeed(c) \/ FetchClock(c) \/ Update(c) \/ Send(c)
Runtime(c)   == CommitTx(c) \/ AbortTx(c)

World ==
    \/ AdvanceEpoch \/ OtherCrank
    \/ \E v \in Votes : RemoveValidator(v) \/ \E n \in {-1, 1} : OtherUser(v, n)
    \/ \E which \in {"preferredDeposit", "preferredWithdraw"}, v \in Votes \cup {None} :
          Prefer(which, v)

Next ==
    \/ \E c \in Commands : \/ FetchPool(c) \/ Step(c) \/ Runtime(c)
                           \/ UpdateFails(c) \/ Crash(c) \/ LoseTx(c)
    \/ \E t \in late : LandLate(t) \/ DropLate(t)
    \/ World

\* A process runs on, its transaction is settled, and whoever has not read that it was starts
\* the command again.
Fairness ==
    \A c \in Commands : WF_vars(Step(c)) /\ WF_vars(Runtime(c)) /\ WF_vars(FetchPool(c))

Spec == Init /\ [][Next]_vars /\ Fairness

-----------------------------------------------------------------------------
(* Properties.                                                             *)

\* Every variable has its type; in particular no token and no stake is spent twice.
TypeOK ==
    /\ epoch \in 0 .. MaxEpoch /\ pool \in Pool /\ list \in Seq(Entry)
    /\ earned \in [Votes -> Nat] /\ tokens \in [Tokens -> Nat \cup {None}]
    /\ stake \in Stake /\ splits \subseteq Seeds
    /\ \A c \in Commands : tx[c] = None \/ tx[c] \in Tx
    /\ late \subseteq Tx
    /\ changes \in 0 .. MaxChanges /\ losses \in 0 .. MaxLosses
    /\ request \in [Commands -> Request \cup {None}] /\ pc \in [Commands -> Alive \cup Ended]
    /\ undisturbed \in [Commands -> BOOLEAN]

\* What the commands do not foresee: leaving validators, such as have not enough stake, nothing
\* to deposit or to redeem, and with deposit-stake an authority that has to sign and a missing
\* account that is not the ATA.
NotForeseen(t) ==
    \/ t.kind # "deposit-stake" /\ t.amt = 0
    \/ t.kind = "withdraw-stake" /\ ~CanGive(list, t.vote, t.amt)
    \/ t.kind = "deposit-stake" /\ (~Has(list, t.vote) \/ EntryOf(list, t.vote).leaving)
    \/ t.kind = "deposit-stake" /\ pool.stakeAuthority = "other"
    \/ t.kind = "deposit-stake" /\ tokens[t.account] = None /\ t.account # "ata"

\* If nobody else acts the transaction is accepted, whatever update came before it: the pool is
\* of the epoch, the token account is there or made, tokens and authority suffice, the split
\* account is new and the validator the preferred one.
UndisturbedCommandSucceeds ==
    \A c \in Commands :
        pc[c] = "confirm" /\ undisturbed[c] => Accepts(tx[c]) \/ NotForeseen(tx[c])

\* "Defaults to the pool's largest validator if not set": so it does, if the pool was up to
\* date when it was fetched.
LargestIfUpdated ==
    \A c \in Commands :
        /\ pc[c] = "confirm" /\ request[c].kind = "withdraw-stake" /\ undisturbed[c]
        /\ request[c].validator = None /\ pool.preferredWithdraw = None
        /\ IsUpdatedForCurrEpoch(seen[c])
        => \A i \in DOMAIN list : list[i].active <= EntryOf(list, seen[c].vote).active

\* Nothing that the chain holds keeps the request from being served.
Serviceable(c) ==
    LET r == request[c]
        source == Source(r, pool, list)
    IN  /\ r.kind # "withdraw-stake" => r.account = "ata" \/ tokens[r.account] # None
        /\ CASE r.kind = "deposit-sol" -> r.amt > 0 /\ pool.solAuthority # "other"
             [] r.kind = "deposit-stake" ->
                  /\ StakeFits /\ Has(list, stake.vote) /\ ~EntryOf(list, stake.vote).leaving
                  /\ pool.stakeAuthority # "other"
                  /\ r.account = "other" => tokens["ata"] # None
             [] r.kind = "withdraw-stake" ->
                  /\ tokens[r.account] # None /\ source # None /\ splits # Seeds
                  /\ Amount(r, tokens[r.account]) \in 1 .. tokens[r.account]
                  /\ CanGive(list, source, Amount(r, tokens[r.account]))

\* Whatever the commands die of and whoever interferes, a request that can be served is
\* served in the end if it is repeated until it is.
EventuallyServed ==
    \A c \in Commands : <>[](request[c] # None /\ Serviceable(c)) => <>(pc[c] = "done")

\* "mint_to does not exist and is not authority's ATA" (deposit_sol.rs:126,
\* deposit_stake.rs:124) is said only where it is so.
MintToIsMissing ==
    \A c \in Commands :
        pc[c] = "no_mint_to" /\ undisturbed[c] => tokens[request[c].account] = None

=============================================================================
