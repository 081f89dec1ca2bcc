----------------------------- MODULE CreatePool -----------------------------
(***************************************************************************)
(* `splsp create-pool`: a pool is created by a series of transactions.     *)
(* The first makes what does not exist yet (reserve, fee account), the     *)
(* second initializes the pool, then the validators are added, the         *)
(* preferred ones set, and a settings sync, planned against a dummy of the *)
(* pool that has just been made, does what Initialize cannot and hands the *)
(* staker role over.  The command may die between any two of them, and what it   *)
(* had sent may land when the next run is under way; a new epoch may begin.*)
(*                                                                         *)
(* Code:     subcmd/create_pool.rs, pool_config/create.rs, the adding half *)
(*           of pool_config/sync_validator_list.rs, PoolSettings.          *)
(* External: the programs the instructions are for.                        *)
(***************************************************************************)
EXTENDS PoolSettings, FiniteSets

CONSTANTS
    Unset,           \* an option the config file leaves out
    Payer,           \* the config wallet
    FeeAta,          \* the manager's associated token account
    Votes,           \* vote accounts
    Zero,            \* ZERO_FEE
    Files,           \* config files
    InitialMints, InitialReserves, InitialAccounts,
    MinReserve,      \* min_reserve_lamports
    NewVsa,          \* lamports_for_new_vsa
    MaxAddIxs,       \* MAX_ADD_VALIDATORS_IX_PER_TX
    MaxLosses        \* bound: transactions lost and processes killed

File == [manager : Keys \cup {Unset}, staker : Keys \cup {Unset},
         feeAccount : Keys \cup {Unset}, auth : [FundingTypes -> Keys \cup {None, DefaultAuth}],
         fee : [FeeTypes -> Fees \cup {Unset}], max_validators : Nat,
         validators : SUBSET Votes,
         deposit : Votes \cup {None}, withdraw : Votes \cup {None}]

\* `sound`: nine decimals, no freeze authority, no supply.
Mint    == [sound : BOOLEAN, authority : Keys \cup {None, "pool"}]
Reserve == [authority : {"pool", "other"}, lamports : Nat] \cup {None}
Pool    == [settings : Settings, list : SUBSET Votes, max : Nat,
            deposit : Votes \cup {None}, withdraw : Votes \cup {None}]

ASSUME CreateConstants ==
    /\ Unset \notin Keys \cup Fees /\ {Payer, FeeAta} \subseteq Keys
    /\ Zero \in Fees /\ ~TooHigh(Zero)
    /\ None \notin Votes \cup Pool \cup [authority : {"pool", "other"}, lamports : Nat]
    /\ IsFiniteSet(Votes) /\ "pool" \notin Keys
    /\ Files \subseteq File /\ InitialMints \subseteq Mint /\ InitialReserves \subseteq Reserve
    /\ InitialAccounts \subseteq SUBSET Keys
    /\ {MinReserve, NewVsa, MaxLosses} \subseteq Nat /\ MaxAddIxs \in Nat \ {0}

VARIABLES
    (* the chain *)
    mint, reserve,
    accounts,    \* fee accounts that exist
    pool,        \* None before it is initialized
    current,     \* is the pool updated for the epoch?
    late,        \* transactions of runs that died, still in flight
    losses,
    (* the command *)
    file, pc,
    stage,       \* what is to be sent next
    foundReserve, first,
    toAdd,
    inflight,    \* the transaction the run waits for, or None
    (* history *)
    undisturbed  \* nothing of an earlier run landed and no epoch began since the run did

ledger  == <<mint, reserve, accounts, pool, current>>
chain   == <<ledger, late, losses>>
command == <<file, pc, stage, foundReserve, first, toAdd, inflight>>
vars    == <<chain, command, undisturbed>>

Or(option, default) == IF option = Unset THEN default ELSE option

-----------------------------------------------------------------------------
(* What the command makes of the file.                                     *)

Manager    == Or(file.manager, Payer)
FeeAccount == Or(file.feeAccount, FeeAta)
FeeOf(f)   == Or(file.fee[f], Zero)

\* Mutant: swapped.
LowerFee(f, g) == IF AtMost(f, g) THEN f ELSE g

\* "use the higher value of the two to avoid per-epoch max withdrawal fee increase limits"
Higher(f, g) == IF AtMost(f, g) THEN g ELSE f

DepositAuth == FilterDefault(file.auth["StakeDeposit"])

\* Mutant: the staker role is handed over at once.
InitArgsStaker ==
    [manager |-> Manager, staker |-> Or(file.staker, Manager), feeAccount |-> FeeAccount,
     depositAuth |-> DepositAuth, epoch |-> FeeOf("Epoch"),
     deposit |-> Higher(FeeOf("StakeDeposit"), FeeOf("SolDeposit")),
     withdrawal |-> Higher(FeeOf("StakeWithdrawal"), FeeOf("SolWithdrawal")),
     referral |-> Higher(FeeOf("SolReferral"), FeeOf("StakeReferral"))]

\* CreateConfig: "set staker to initial manager first, then change to specified pubkey at
\* the end".
InitArgs ==
    [manager |-> Manager, staker |-> Manager, feeAccount |-> FeeAccount,
     depositAuth |-> DepositAuth, epoch |-> FeeOf("Epoch"),
     deposit |-> Higher(FeeOf("StakeDeposit"), FeeOf("SolDeposit")),
     withdrawal |-> Higher(FeeOf("StakeWithdrawal"), FeeOf("SolWithdrawal")),
     referral |-> Higher(FeeOf("SolReferral"), FeeOf("StakeReferral"))]

SpreadFees(a) ==
    [f \in FeeTypes |-> CASE f = "Epoch" -> a.epoch
                          [] f \in WithdrawalFees -> a.withdrawal
                          [] f \in {"SolDeposit", "StakeDeposit"} -> a.deposit
                          [] OTHER -> a.referral]

\* Mutant: only the stake deposit authority is taken to be set.
DummyAuthNone ==
    [manager |-> Manager, staker |-> InitArgs.staker, feeAccount |-> FeeAccount,
     auth |-> [a \in FundingTypes |-> IF a # "StakeDeposit" THEN None
                                      ELSE IF DepositAuth = None THEN DefaultAuth ELSE DepositAuth],
     fee  |-> SpreadFees(InitArgs), next |-> [f \in DelayedFees |-> NotPending]]

\* dummy_created_pool: "use a dummy instead of fetching the newly created pool".
Dummy ==
    [manager |-> Manager, staker |-> InitArgs.staker, feeAccount |-> FeeAccount,
     auth |-> [a \in FundingTypes |->
                 CASE a = "StakeDeposit" ->
                        IF DepositAuth = None THEN DefaultAuth ELSE DepositAuth
                   [] a = "SolDeposit"  -> DepositAuth
                   [] a = "SolWithdraw" -> None],
     fee  |-> SpreadFees(InitArgs), next |-> [f \in DelayedFees |-> NotPending]]

\* Mutant: a staker the file leaves out is not the manager.
SyncTargetNoDefault ==
    [manager |-> Manager, staker |-> file.staker, feeAccount |-> FeeAccount,
     auth |-> [file.auth EXCEPT !["StakeDeposit"] = DepositAuth],
     fee |-> [f \in FeeTypes |-> FeeOf(f)]]

SyncTarget ==
    [manager |-> Manager, staker |-> Or(file.staker, Manager), feeAccount |-> FeeAccount,
     auth |-> [file.auth EXCEPT !["StakeDeposit"] = DepositAuth],
     fee |-> [f \in FeeTypes |-> FeeOf(f)]]

ReserveLamports == MinReserve + Cardinality(file.validators) * NewVsa

-----------------------------------------------------------------------------
(* The command.                                                            *)

Ended == {"idle", "done", "refused", "rejected", "lost", "dead"}

IsMintVerified == mint.sound /\ mint.authority = Manager

\* Count the validators, then the first call: the mint.
FetchMint ==
    /\ pc \in Ended
    /\ pc' = IF Cardinality(file.validators) <= file.max_validators /\ IsMintVerified
             THEN "fetch_accounts" ELSE "refused"
    /\ stage' = "first" /\ foundReserve' = None /\ first' = {} /\ toAdd' = {}
    /\ undisturbed' = TRUE
    /\ UNCHANGED <<chain, file, inflight>>

\* Mutant: does not look for an existing reserve.
FetchAccountsBlindly ==
    /\ pc = "fetch_accounts"
    /\ foundReserve' = None
    /\ first' = {"reserve"} \cup (IF FeeAccount \in accounts THEN {} ELSE {"fee_account"})
    /\ pc' = IF "fee_account" \in first' /\ FeeAccount # FeeAta THEN "refused" ELSE "ready"
    /\ UNCHANGED <<chain, file, stage, toAdd, inflight, undisturbed>>

\* The second call: the reserve and the fee account.
FetchAccounts ==
    /\ pc = "fetch_accounts"
    /\ foundReserve' = reserve
    /\ first' = (IF reserve = None THEN {"reserve"} ELSE {})
                \cup (IF FeeAccount \in accounts THEN {} ELSE {"fee_account"})
    /\ pc' = IF \/ reserve # None /\ reserve.authority # "pool"
                \/ "fee_account" \in first' /\ FeeAccount # FeeAta
             THEN "refused" ELSE "ready"
    /\ UNCHANGED <<chain, file, stage, toAdd, inflight, undisturbed>>

Preferences == {p \in {"deposit", "withdraw"} : file[p] # None}

\* The transactions the current stage may send next.
Transactions ==
    CASE stage = "first"  -> IF first = {} THEN {} ELSE {[kind |-> "first", ixs |-> first]}
      [] stage = "init"   -> {[kind |-> "init", ixs |-> InitArgs]}
      [] stage = "add"    ->
           {[kind |-> "add", ixs |-> vs] : vs \in {s \in (SUBSET toAdd) \ {{}} :
               \/ Cardinality(s) = MaxAddIxs
               \/ s = toAdd /\ Cardinality(s) < MaxAddIxs}}
      [] stage = "prefer" -> IF Preferences = {} THEN {}
                             ELSE {[kind |-> "prefer", ixs |-> Preferences]}
      [] stage = "sync"   -> IF Changeset(SyncTarget, Dummy) = <<>> THEN {}
                             ELSE {[kind |-> "sync", ixs |-> Changeset(SyncTarget, Dummy)]}
      [] stage = "end"    -> {}

Send ==
    /\ pc = "ready"
    /\ \E t \in Transactions :
          /\ inflight' = t
          /\ toAdd' = IF t.kind = "add" THEN toAdd \ t.ixs ELSE toAdd
    /\ pc' = "confirm"
    /\ UNCHANGED <<chain, file, stage, foundReserve, first, undisturbed>>

After(s) == CASE s = "first" -> "init" [] s = "init" -> "add" [] s = "add" -> "prefer"
              [] s = "prefer" -> "sync" [] s = "sync" -> "end"

NextStage ==
    /\ pc = "ready"
    /\ Transactions = {}
    /\ IF stage = "end" THEN pc' = "done" /\ UNCHANGED stage
                        ELSE stage' = After(stage) /\ UNCHANGED pc
    /\ UNCHANGED <<chain, file, foundReserve, first, toAdd, inflight, undisturbed>>

\* What it had sent stays in flight.
Crash ==
    /\ pc \in {"fetch_accounts", "ready", "confirm"} /\ losses < MaxLosses
    /\ losses' = losses + 1
    /\ pc' = "dead" /\ inflight' = None
    /\ late' = IF pc = "confirm" THEN late \cup {inflight} ELSE late
    /\ UNCHANGED <<ledger, file, stage, foundReserve, first, toAdd, undisturbed>>

-----------------------------------------------------------------------------
(* The chain.                                                              *)

LandFirst(t) ==
    /\ t.kind = "first"
    /\ "reserve" \in t.ixs => reserve = None
    /\ reserve' = IF "reserve" \in t.ixs
                  THEN [authority |-> "pool", lamports |-> ReserveLamports] ELSE reserve
    /\ accounts' = accounts \cup (IF "fee_account" \in t.ixs THEN {FeeAccount} ELSE {})
    /\ UNCHANGED <<mint, pool, current>>

CanInit(a) ==
    /\ pool = None /\ mint.authority = a.manager /\ mint.sound
    /\ reserve # None /\ reserve.authority = "pool" /\ reserve.lamports >= MinReserve
    /\ a.feeAccount \in accounts
    /\ ~\E f \in {a.epoch, a.deposit, a.withdrawal, a.referral} : TooHigh(f)

\* Initialize sets one fee for both kinds of deposit, one for both kinds of withdrawal, and
\* the deposit authority for stake and SOL.
LandInit(t) ==
    /\ t.kind = "init" /\ CanInit(t.ixs)
    /\ LET a == t.ixs
           auth == IF a.depositAuth = None
                   THEN [f \in FundingTypes |-> IF f = "StakeDeposit" THEN DefaultAuth ELSE None]
                   ELSE [f \in FundingTypes |-> IF f = "SolWithdraw" THEN None ELSE a.depositAuth]
       IN  pool' = [settings |-> [manager |-> a.manager, staker |-> a.staker,
                                  feeAccount |-> a.feeAccount, auth |-> auth,
                                  fee |-> SpreadFees(a),
                                  next |-> [f \in DelayedFees |-> NotPending]],
                    list |-> {}, max |-> file.max_validators,
                    deposit |-> None, withdraw |-> None]
    /\ mint' = [mint EXCEPT !.authority = "pool"]
    /\ current' = TRUE
    /\ UNCHANGED <<reserve, accounts>>

\* The manager signs as staker.
CanAdd(vs) ==
    /\ pool # None /\ current /\ pool.settings.staker = Manager
    /\ vs \cap pool.list = {} /\ Cardinality(pool.list \cup vs) <= pool.max
    /\ reserve.lamports >= MinReserve + Cardinality(vs) * NewVsa

LandAdd(t) ==
    /\ t.kind = "add" /\ CanAdd(t.ixs)
    /\ pool' = [pool EXCEPT !.list = @ \cup t.ixs]
    /\ reserve' = [reserve EXCEPT !.lamports = @ - Cardinality(t.ixs) * NewVsa]
    /\ UNCHANGED <<mint, accounts, current>>

CanPrefer(ps) ==
    /\ pool # None /\ pool.settings.staker = Manager
    /\ \A p \in ps : file[p] \in pool.list

LandPrefer(t) ==
    /\ t.kind = "prefer" /\ CanPrefer(t.ixs)
    /\ pool' = [pool EXCEPT !.deposit = file.deposit, !.withdraw = file.withdraw]
    /\ UNCHANGED <<mint, reserve, accounts, current>>

Synced(cs) == PerformAll(pool.settings, Manager, current, SyncTarget, cs)

LandSync(t) ==
    /\ t.kind = "sync" /\ Synced(t.ixs).ok
    /\ pool' = [pool EXCEPT !.settings = Synced(t.ixs).settings]
    /\ UNCHANGED <<mint, reserve, accounts, current>>

Land(t) == LandFirst(t) \/ LandInit(t) \/ LandAdd(t) \/ LandPrefer(t) \/ LandSync(t)

\* A confirmed transaction moves the run on to its next stage, an adding one to the rest of
\* the validators; any other fate ends it.
Confirm ==
    /\ pc = "confirm"
    /\ Land(inflight)
    /\ pc' = "ready" /\ inflight' = None
    /\ stage' = IF stage = "add" THEN stage ELSE After(stage)
    /\ toAdd' = IF stage = "init" THEN file.validators ELSE toAdd
    /\ UNCHANGED <<late, losses, file, foundReserve, first, undisturbed>>

AbortTx ==
    /\ pc = "confirm"
    /\ CASE inflight.kind = "first"  -> "reserve" \in inflight.ixs /\ reserve # None
         [] inflight.kind = "init"   -> ~CanInit(inflight.ixs)
         [] inflight.kind = "add"    -> ~CanAdd(inflight.ixs)
         [] inflight.kind = "prefer" -> ~CanPrefer(inflight.ixs)
         [] inflight.kind = "sync"   -> ~Synced(inflight.ixs).ok
    /\ pc' = "rejected" /\ inflight' = None
    /\ UNCHANGED <<chain, file, stage, foundReserve, first, toAdd, undisturbed>>

LoseTx ==
    /\ pc = "confirm" /\ losses < MaxLosses
    /\ losses' = losses + 1
    /\ pc' = "lost" /\ inflight' = None
    /\ UNCHANGED <<ledger, late, file, stage, foundReserve, first, toAdd, undisturbed>>

\* Nobody waits for what a dead run had sent: it lands whenever it does.
LandLate ==
    /\ \E t \in late : Land(t) /\ late' = late \ {t}
    /\ undisturbed' = FALSE
    /\ UNCHANGED <<losses, command>>

\* Or it is refused, or expires.
DropLate ==
    /\ \E t \in late : late' = late \ {t}
    /\ UNCHANGED <<ledger, losses, command, undisturbed>>

\* A new epoch: nothing can be added before somebody updates the pool.
AdvanceEpoch ==
    /\ pool # None /\ current
    /\ current' = FALSE
    /\ undisturbed' = FALSE
    /\ UNCHANGED <<mint, reserve, accounts, pool, late, losses, command>>

UpdatePool ==
    /\ pool # None /\ ~current
    /\ current' = TRUE
    /\ pool' = [pool EXCEPT !.settings = NextEpoch(@)]
    /\ UNCHANGED <<mint, reserve, accounts, late, losses, command, undisturbed>>

-----------------------------------------------------------------------------

Init ==
    /\ mint \in InitialMints /\ reserve \in InitialReserves /\ accounts \in InitialAccounts
    /\ pool = None /\ current = TRUE /\ late = {} /\ losses = 0
    /\ file \in Files /\ pc = "idle" /\ stage = "first"
    /\ foundReserve = None /\ first = {} /\ toAdd = {} /\ inflight = None
    /\ undisturbed = FALSE

Step    == FetchAccounts \/ Send \/ NextStage
Runtime == Confirm \/ AbortTx \/ LoseTx \/ LandLate \/ DropLate

Next == FetchMint \/ Step \/ Crash \/ Runtime \/ AdvanceEpoch \/ UpdatePool

\* A process runs on and its transaction is settled or lost; as long as there is no pool the
\* command is started again.
Fairness ==
    /\ WF_vars(Step) /\ WF_inflight(inflight # None /\ inflight' = None)
    /\ WF_vars(pool = None /\ FetchMint)

Spec == Init /\ [][Next]_vars /\ Fairness

-----------------------------------------------------------------------------
(* Properties.                                                             *)

\* Every variable has its type; in particular the reserve is never overdrawn.
TypeOK ==
    /\ mint \in Mint /\ reserve \in Reserve /\ accounts \subseteq Keys
    /\ pool \in Pool \cup {None} /\ current \in BOOLEAN /\ losses \in 0 .. MaxLosses
    /\ \A t \in late \cup ({inflight} \ {None}) :
          t.kind \in {"first", "init", "add", "prefer", "sync"}
    /\ file \in File /\ pc \in Ended \cup {"fetch_accounts", "ready", "confirm"}
    /\ stage \in {"first", "init", "add", "prefer", "sync", "end"}
    /\ foundReserve \in Reserve /\ first \subseteq {"reserve", "fee_account"}
    /\ toAdd \subseteq Votes /\ undisturbed \in BOOLEAN

\* A run that reports success has made the pool of the file: list, preferred validators and,
\* but for the delays of fees, every setting, although it never looked at the pool.
CreatedAsConfigured ==
    pc = "done" =>
        /\ pool # None
        /\ Settles(pool.settings, SyncTarget)
        /\ pool.list = file.validators
        /\ pool.deposit = file.deposit /\ pool.withdraw = file.withdraw

\* The file asks for no fee of more than everything, which no program takes.
FeesWithinAll == \A f \in FeeTypes : file.fee[f] # Unset => ~TooHigh(file.fee[f])

\* Within one epoch, and with nothing of a dead run in between, no transaction of a run is
\* rejected: reserve funds, list size, order of the transactions and fees fit together.  A
\* reserve that was found, not made, may be short, and a fee of the file above 100%.
UndisturbedCreateSucceeds ==
    /\ undisturbed /\ {file.deposit, file.withdraw} \subseteq file.validators \cup {None}
    /\ foundReserve # None => foundReserve.lamports >= ReserveLamports
    /\ FeesWithinAll
    => pc # "rejected"

\* Whatever the run dies of, and however late what it had sent lands, the manager stays the
\* staker until the validators are listed and the preferred ones set: no transaction of a
\* creation gives the role away before.
HandoverLast ==
    [][UNCHANGED <<inflight, late>> \/ pool' \in {None, pool} \/ pool'.settings.staker = Manager
       \/ /\ pool'.list = file.validators
          /\ pool'.deposit = file.deposit /\ pool'.withdraw = file.withdraw]_vars

=============================================================================
