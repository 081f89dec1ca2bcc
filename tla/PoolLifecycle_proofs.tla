------------------------ MODULE PoolLifecycle_proofs ------------------------
(***************************************************************************)
(* Proofs about a creation, for every file, mint, reserve, fee and chunk   *)
(* size, however often the run dies, is repeated or is finished with the   *)
(* sync commands, and however late what a dead run had sent lands: the     *)
(* staker role is the last thing it gives away; the reserve is never       *)
(* overdrawn; what reports success has made the pool of the file; within   *)
(* an epoch, and undisturbed, no transaction is rejected.                  *)
(***************************************************************************)
EXTENDS PoolLifecycle, PoolSettings_proofs, FiniteSetTheorems

-----------------------------------------------------------------------------
(* The inductive invariant.                                                *)

Unpreferred == pool.deposit = None /\ pool.withdraw = None

\* The program owns the mint of an initialized pool, which has a reserve and the size its file
\* says; it is up to date when it is made.
PoolInv ==
    /\ pool # None => mint.authority = "pool" /\ reserve # None /\ pool.max = file.max_validators
    /\ mint.authority # "pool" => current

\* What a transaction has been made of, its sender alive or not.
TxInv(t) ==
    /\ t.kind \in {"first", "init", "add", "prefer", "sync"}
    /\ t.kind = "init" => t.ixs = InitArgs
    /\ t.kind = "add" => t.ixs \subseteq file.validators
    /\ t.kind = "prefer" => t.ixs = Preferences
    /\ t.kind = "sync" => t.ixs = Changeset(SyncTarget, Dummy) /\ ListAsConfigured
    /\ t.kind \in {"add", "prefer", "sync"} => pool # None

\* A run that was begun before there was a pool waits for its own transaction; what is late
\* then comes from runs that got no further than Initialize.
SentInv == pc = "confirm" => inflight.kind = stage /\ TxInv(inflight)
LateInv ==
    /\ \A t \in late : TxInv(t)
    /\ pc \in {"fetch_accounts", "ready", "confirm", "done"} =>
          \A t \in late : t.kind \in {"first", "init"}

\* What is left to be added.
Left == toAdd \cup (IF pc = "confirm" THEN inflight.ixs ELSE {})

\* How far the pool is when a run is at a stage: it is what the dummy was taken for until the
\* sync, and what the file says after it.
StageInv ==
    /\ pc = "fetch_accounts" => stage = "first"
    /\ pc \in {"ready", "confirm"} =>
         /\ stage \in {"add", "prefer", "sync"} => pool # None /\ Alike(pool.settings, Dummy)
         /\ stage = "add" => /\ Unpreferred /\ toAdd \subseteq file.validators
                             /\ file.validators = pool.list \cup Left
         /\ stage = "prefer" => Unpreferred /\ pool.list = file.validators
         /\ stage = "sync" => ListAsConfigured
    /\ pc = "done" \/ (pc = "ready" /\ stage = "end") =>
         pool # None /\ Settles(pool.settings, SyncTarget) /\ ListAsConfigured

\* The reserve can pay for all validators: it was made for them, or found to have enough.
Provided == foundReserve # None => foundReserve.lamports >= ReserveLamports

\* A run has checked the number of validators, and the pool is up to date.
CheckedInv ==
    pc \in {"fetch_accounts", "ready", "confirm"} =>
        /\ Cardinality(file.validators) <= file.max_validators
        /\ current

\* The mint that was verified is the manager's until the pool is initialized.
VerifiedInv ==
    \/ pc = "fetch_accounts"
    \/ pc \in {"ready", "confirm"} /\ stage \in {"first", "init"}
    => IsMintVerified

\* The first transaction makes what was not found, and nothing else.
FirstInv ==
    pc \in {"ready", "confirm"} /\ stage = "first" =>
        /\ reserve = foundReserve
        /\ "reserve" \in first <=> reserve = None
        /\ reserve # None => reserve.authority = "pool"
        /\ FeeAccount \in accounts \/ "fee_account" \in first
        /\ pc = "confirm" => inflight.ixs = first

\* What Initialize asks for is there.
InitInv ==
    pc \in {"ready", "confirm"} /\ stage = "init" =>
        /\ FeeAccount \in accounts /\ reserve # None /\ reserve.authority = "pool"
        /\ IF foundReserve = None THEN reserve.lamports = ReserveLamports
                                  ELSE reserve = foundReserve

\* No validator that is left is in the list yet, and the reserve can pay for all of them.
AddInv ==
    pc \in {"ready", "confirm"} /\ stage = "add" =>
        /\ pool.list \cap Left = {}
        /\ pc = "confirm" => toAdd \cap inflight.ixs = {}
        /\ Provided => reserve.lamports >= MinReserve + Cardinality(Left) * NewVsa

\* What a run has checked or prepared is there when it is needed, if nothing disturbs it.
PreparedInv == undisturbed => CheckedInv /\ VerifiedInv /\ FirstInv /\ InitInv /\ AddInv

\* The types, and what they rest on.
TypeInv == TypeOK /\ PoolInv

\* All of it.
Invariant ==
    TypeInv /\ SentInv /\ LateInv /\ StageInv /\ PreparedInv /\ UndisturbedCreateSucceeds

-----------------------------------------------------------------------------
(* What the file makes of a creation.                                      *)

\* The manager is a key of the file or the payer's, never the stake pool program's.
LEMMA ManagerIsKey == ASSUME file \in File PROVE Manager \in Keys /\ Manager # "pool"
<1>1. Manager \in Keys
  BY CreateConstants DEF Manager, Or, File
<1> QED  BY <1>1, CreateConstants

\* As long as validators are left to add there is a chunk of them to send.
LEMMA ChunkExists ==
    ASSUME NEW S, IsFiniteSet(S), S # {}, NEW n \in Nat \ {0}
    PROVE  \E s \in (SUBSET S) \ {{}} :
              Cardinality(s) = n \/ (s = S /\ Cardinality(s) < n)
<1> DEFINE m == Cardinality(S)
<1>1. m \in Nat /\ ExistsBijection(1 .. m, S)
  BY FS_CardinalityType
<1>2. CASE m < n
  BY <1>2
<1>3. CASE n <= m
  <2>1. PICK f : f \in Bijection(1 .. m, S)
    BY <1>1 DEF ExistsBijection
  <2> DEFINE T == {f[i] : i \in 1 .. n}
             g == [i \in 1 .. n |-> f[i]]
  <2>2. /\ f \in [1 .. m -> S]
        /\ \A i, j \in 1 .. m : f[i] = f[j] => i = j
    BY <2>1 DEF Bijection, Injection, IsInjective
  <2>3. 1 .. n \subseteq 1 .. m /\ 1 \in 1 .. n
    BY <1>1, <1>3
  <2>4. T \in SUBSET S /\ f[1] \in T
    BY <2>2, <2>3
  <2>5. g \in Bijection(1 .. n, T)
    <3>1. g \in [1 .. n -> T]
      OBVIOUS
    <3>2. \A i, j \in 1 .. n : g[i] = g[j] => i = j
      BY <2>2, <2>3
    <3>3. \A t \in T : \E i \in 1 .. n : g[i] = t
      OBVIOUS
    <3> QED  BY <3>1, <3>2, <3>3 DEF Bijection, Injection, Surjection, IsInjective
  <2>6. Cardinality(T) = n
    BY <2>5, FS_CountingElements DEF ExistsBijection
  <2>7. T # {}
    BY <2>4
  <2> QED  BY <2>4, <2>6, <2>7
<1> QED  BY <1>1, <1>2, <1>3

\* What the command makes of the file has its types.
LEMMA FileIs ==
    ASSUME file \in File
    PROVE  /\ Manager \in Keys /\ FeeAccount \in Keys /\ DepositAuth \in Keys \cup {None}
           /\ Or(file.staker, Manager) \in Keys
           /\ \A f \in FeeTypes : FeeOf(f) \in Fees
           /\ {InitArgs.epoch, InitArgs.deposit, InitArgs.withdrawal, InitArgs.referral}
                 \subseteq Fees
<1>1. Manager \in Keys /\ FeeAccount \in Keys
  BY CreateConstants DEF Manager, FeeAccount, Or, File
<1>2. Or(file.staker, Manager) \in Keys
  BY <1>1 DEF Or, File
<1>3. DepositAuth \in Keys \cup {None}
  BY DEF DepositAuth, FilterDefault, File, FundingTypes
<1>4. \A f \in FeeTypes : FeeOf(f) \in Fees
  BY CreateConstants DEF FeeOf, Or, File
<1>5. \A f, g \in Fees : Higher(f, g) \in Fees
  BY DEF Higher
<1>6. {"Epoch", "StakeDeposit", "SolDeposit", "StakeWithdrawal", "SolWithdrawal", "SolReferral",
       "StakeReferral"} \subseteq FeeTypes
  BY DEF FeeTypes, DelayedFees, WithdrawalFees
<1>7. /\ InitArgs.epoch = FeeOf("Epoch")
      /\ InitArgs.deposit = Higher(FeeOf("StakeDeposit"), FeeOf("SolDeposit"))
      /\ InitArgs.withdrawal = Higher(FeeOf("StakeWithdrawal"), FeeOf("SolWithdrawal"))
      /\ InitArgs.referral = Higher(FeeOf("SolReferral"), FeeOf("StakeReferral"))
  BY DEF InitArgs
<1> QED  BY <1>1, <1>2, <1>3, <1>4, <1>5, <1>6, <1>7

\* The dummy is settings, of a pool with the manager as its staker, and the target a target.
LEMMA DummyType ==
    ASSUME file \in File
    PROVE  Dummy \in Settings /\ SyncTarget \in Target /\ Dummy.manager = Manager
<1>1. SpreadFees(InitArgs) \in [FeeTypes -> Fees]
  BY FileIs DEF SpreadFees
<1>2. /\ Dummy.auth \in [FundingTypes -> Keys \cup {None, DefaultAuth}]
      /\ Dummy.next \in [DelayedFees -> FutureFee]
  <2>1. Dummy.next = [f \in DelayedFees |-> NotPending] /\ NotPending \in FutureFee
    BY DEF Dummy, FutureFee
  <2>2. Dummy.auth = [a \in FundingTypes |->
                         CASE a = "StakeDeposit" ->
                                IF DepositAuth = None THEN DefaultAuth ELSE DepositAuth
                           [] a = "SolDeposit"  -> DepositAuth
                           [] a = "SolWithdraw" -> None]
    BY DEF Dummy
  <2> QED  BY <2>1, <2>2, FileIs DEF FundingTypes
<1>3. InitArgs.staker = Manager
  BY DEF InitArgs
<1>4. Dummy \in Settings /\ Dummy.manager = Manager
  BY <1>1, <1>2, <1>3, FileIs DEF Dummy, Settings
<1>5. [file.auth EXCEPT !["StakeDeposit"] = DepositAuth]
         \in [FundingTypes -> Keys \cup {None, DefaultAuth}]
  BY FileIs DEF File
<1>6. [f \in FeeTypes |-> FeeOf(f)] \in [FeeTypes -> Fees]
  BY FileIs
<1> QED  BY <1>4, <1>5, <1>6, FileIs DEF SyncTarget, Target

\* What depends on the file alone stays as the file does.
LEMMA FileStays ==
    ASSUME file' = file
    PROVE  /\ Manager' = Manager /\ FeeAccount' = FeeAccount /\ InitArgs' = InitArgs
           /\ Dummy' = Dummy /\ SyncTarget' = SyncTarget /\ Preferences' = Preferences
           /\ ReserveLamports' = ReserveLamports
<1>1. Manager' = Manager /\ FeeAccount' = FeeAccount /\ DepositAuth' = DepositAuth
  BY DEF Manager, FeeAccount, DepositAuth, Or
<1>2. \A f \in FeeTypes : FeeOf(f)' = FeeOf(f)
  BY DEF FeeOf, Or
<1>3. {"Epoch", "StakeDeposit", "SolDeposit", "StakeWithdrawal", "SolWithdrawal", "SolReferral",
       "StakeReferral"} \subseteq FeeTypes
  BY DEF FeeTypes, DelayedFees, WithdrawalFees
<1>4. InitArgs' = InitArgs
  BY <1>1, <1>2, <1>3 DEF InitArgs
<1>5. Dummy' = Dummy
  BY <1>1, <1>4 DEF Dummy
<1>6. SyncTarget' = SyncTarget
  BY <1>1, <1>2 DEF SyncTarget, Or
<1> QED  BY <1>1, <1>4, <1>5, <1>6 DEF Preferences, ReserveLamports

\* Vote accounts can be counted and paid for.
LEMMA CountIs ==
    ASSUME NEW S, S \subseteq Votes
    PROVE  IsFiniteSet(S) /\ Cardinality(S) \in Nat /\ Cardinality(S) * NewVsa \in Nat
<1>1. IsFiniteSet(S) /\ Cardinality(S) \in Nat
  BY CreateConstants, FS_Subset, FS_CardinalityType
<1>2. NewVsa \in Nat
  BY CreateConstants
<1>3. \A m, n \in Nat : m * n \in Nat
  OBVIOUS
<1> QED  BY <1>1, <1>2, <1>3

-----------------------------------------------------------------------------
(* The transactions of a creation.                                         *)

\* What a stage may send.
LEMMA SendsType ==
    ASSUME TypeOK, NEW t \in Transactions
    PROVE  /\ t.kind = stage /\ t.kind \in {"first", "init", "add", "prefer", "sync"}
           /\ t.kind = "first" => t.ixs = first
           /\ t.kind = "init" => t.ixs = InitArgs
           /\ t.kind = "add" => t.ixs \subseteq toAdd
           /\ t.kind = "prefer" => t.ixs = Preferences
           /\ t.kind = "sync" => t.ixs = Changeset(SyncTarget, Dummy)
<1>0. stage \in {"first", "init", "add", "prefer", "sync", "end"}
  BY DEF TypeOK
<1>1. CASE stage = "first"
  BY <1>1 DEF Transactions
<1>2. CASE stage = "init"
  BY <1>2 DEF Transactions
<1>3. CASE stage = "add"
  BY <1>3 DEF Transactions
<1>4. CASE stage = "prefer"
  BY <1>4 DEF Transactions
<1>5. CASE stage = "sync"
  BY <1>5 DEF Transactions
<1>6. CASE stage = "end"
  BY <1>6 DEF Transactions
<1> QED  BY <1>0, <1>1, <1>2, <1>3, <1>4, <1>5, <1>6

\* The pool that Initialize makes is what the command takes the dummy for.
LEMMA InitializedIs ==
    ASSUME file \in File, NEW t, t.ixs = InitArgs, LandInit(t)
    PROVE  /\ pool' \in Pool /\ pool'.settings = Dummy /\ pool'.list = {}
           /\ pool'.max = file.max_validators
<1> DEFINE auth == IF DepositAuth = None
                   THEN [f \in FundingTypes |-> IF f = "StakeDeposit" THEN DefaultAuth ELSE None]
                   ELSE [f \in FundingTypes |-> IF f = "SolWithdraw" THEN None ELSE DepositAuth]
           made == [manager |-> InitArgs.manager, staker |-> InitArgs.staker,
                    feeAccount |-> InitArgs.feeAccount, auth |-> auth,
                    fee |-> SpreadFees(InitArgs), next |-> [f \in DelayedFees |-> NotPending]]
<1>2. InitArgs.depositAuth = DepositAuth /\ InitArgs.manager = Manager
      /\ InitArgs.feeAccount = FeeAccount
  BY DEF InitArgs
<1>3. pool' = [settings |-> made, list |-> {}, max |-> file.max_validators,
               deposit |-> None, withdraw |-> None]
  BY <1>2 DEF LandInit
<1>4. auth = Dummy.auth
  BY DEF Dummy, FundingTypes
<1>5. made = Dummy
  BY <1>2, <1>4 DEF Dummy
<1>6. made \in Settings
  BY <1>5, DummyType
<1> HIDE DEF made
<1>7. pool' \in Pool
  BY <1>3, <1>6 DEF Pool, File
<1> QED  BY <1>3, <1>5, <1>7

\* A chunk of validators is paid from the reserve, which keeps its minimum.
LEMMA AddIsPaid ==
    ASSUME NEW lamports \in Nat, NEW n \in Nat, lamports >= MinReserve + n * NewVsa
    PROVE  lamports - n * NewVsa \in Nat
<1>1. MinReserve \in Nat /\ n * NewVsa \in Nat
  <2>1. \A k, m \in Nat : k * m \in Nat
    OBVIOUS
  <2> QED  BY <2>1, CreateConstants
<1> QED  BY <1>1

\* Time leaves a pool a pool.
LEMMA UpdatedIs ==
    ASSUME NEW p \in Pool
    PROVE  [p EXCEPT !.settings = NextEpoch(@)] \in Pool
<1>1. NextEpoch(p.settings) \in Settings
  BY NextEpochIs DEF Pool
<1> QED  BY <1>1 DEF Pool

\* What a transaction makes of the chain has its types; a pool that has been made stays.
LEMMA LandType ==
    ASSUME TypeInv, NEW t, TxInv(t), Land(t), file' = file
    PROVE  /\ mint' \in Mint /\ reserve' \in Reserve /\ accounts' \subseteq Keys
           /\ pool' \in Pool \cup {None} /\ current' \in BOOLEAN /\ PoolInv'
           /\ pool # None => pool' # None
           /\ current => current'
<1> USE DEF TypeInv
<1>0. TypeOK /\ file \in File /\ None \notin Pool
  BY CreateConstants DEF TypeOK
<1>1. CASE LandFirst(t)
  <2>1. UNCHANGED <<mint, pool, current>>
    BY <1>1 DEF LandFirst
  <2>2. [authority |-> "pool", lamports |-> ReserveLamports] \in Reserve \ {None}
    <3>1. ReserveLamports \in Nat
      BY <1>0, CountIs, CreateConstants DEF ReserveLamports, File
    <3> QED  BY <3>1, CreateConstants DEF Reserve
  <2>3. reserve' \in Reserve /\ (reserve # None => reserve' # None) /\ accounts' \subseteq Keys
    BY <1>0, <1>1, <2>2, FileIs DEF LandFirst, TypeOK
  <2> QED  BY <1>0, <2>1, <2>3 DEF TypeOK, PoolInv
<1>2. CASE LandInit(t)
  <2>0. t.ixs = InitArgs
    BY <1>2 DEF TxInv, LandInit
  <2>1. pool' \in Pool /\ pool'.max = file.max_validators
    BY <1>0, <1>2, <2>0, InitializedIs
  <2>2. /\ UNCHANGED <<reserve, accounts>> /\ current' = TRUE /\ reserve # None
        /\ mint' = [mint EXCEPT !.authority = "pool"]
    BY <1>2 DEF LandInit, CanInit
  <2>3. mint' \in Mint /\ mint'.authority = "pool"
    BY <1>0, <2>2 DEF TypeOK, Mint
  <2> QED  BY <1>0, <2>1, <2>2, <2>3 DEF TypeOK, PoolInv
<1>3. ASSUME LandAdd(t) \/ LandPrefer(t) \/ LandSync(t)
      PROVE  /\ pool # None /\ pool \in Pool /\ reserve # None /\ pool.max = file.max_validators
             /\ reserve \in [authority : {"pool", "other"}, lamports : Nat]
             /\ mint.authority = "pool"
  <2>1. pool # None
    BY <1>3 DEF LandAdd, LandPrefer, LandSync, TxInv
  <2> QED  BY <1>0, <2>1 DEF TypeOK, PoolInv, Reserve
<1>4. CASE LandAdd(t)
  <2>0. UNCHANGED <<mint, accounts, current>>
    BY <1>4 DEF LandAdd
  <2>1. t.ixs \subseteq Votes
    BY <1>0, <1>4 DEF LandAdd, TxInv, File
  <2>2. pool' = [pool EXCEPT !.list = @ \cup t.ixs]
        /\ reserve' = [reserve EXCEPT !.lamports = @ - Cardinality(t.ixs) * NewVsa]
        /\ reserve.lamports >= MinReserve + Cardinality(t.ixs) * NewVsa
    BY <1>4 DEF LandAdd, CanAdd
  <2>3. pool' \in Pool /\ pool'.max = pool.max
    BY <1>3, <1>4, <2>1, <2>2 DEF Pool
  <2>4. reserve.lamports - Cardinality(t.ixs) * NewVsa \in Nat
    BY <1>3, <1>4, <2>1, <2>2, AddIsPaid, CountIs
  <2>5. reserve' \in [authority : {"pool", "other"}, lamports : Nat]
    BY <1>3, <1>4, <2>2, <2>4
  <2>6. reserve' \in Reserve /\ reserve' # None
    BY <2>5, CreateConstants DEF Reserve
  <2> QED  BY <1>0, <1>3, <1>4, <2>0, <2>3, <2>6 DEF TypeOK, PoolInv
<1>5. CASE LandPrefer(t)
  <2>0. UNCHANGED <<mint, reserve, accounts, current>>
    BY <1>5 DEF LandPrefer
  <2>1. pool' = [pool EXCEPT !.deposit = file.deposit, !.withdraw = file.withdraw]
    BY <1>5 DEF LandPrefer
  <2>2. pool' \in Pool /\ pool'.max = pool.max
    BY <1>0, <1>3, <1>5, <2>1 DEF Pool, File
  <2> QED  BY <1>0, <1>3, <1>5, <2>0, <2>2 DEF TypeOK, PoolInv
<1>6. CASE LandSync(t)
  <2>0. UNCHANGED <<mint, reserve, accounts, current>>
    BY <1>6 DEF LandSync
  <2>1. pool' = [pool EXCEPT !.settings = Synced(t.ixs).settings]
        /\ Synced(t.ixs).ok /\ t.ixs = Changeset(SyncTarget, Dummy)
    BY <1>6 DEF LandSync, TxInv
  <2>2. Synced(t.ixs).settings \in Settings
    <3>1. Synced(t.ixs)
            = PerformAll(pool.settings, Manager, current, SyncTarget, Changeset(SyncTarget, Dummy))
      BY <2>1 DEF Synced
    <3> QED  BY <1>0, <1>3, <1>6, <2>1, <3>1, CarriedOut, DummyType, FileIs DEF Pool
  <2>3. pool' \in Pool /\ pool'.max = pool.max
    BY <1>3, <1>6, <2>1, <2>2 DEF Pool
  <2> QED  BY <1>0, <1>3, <1>6, <2>0, <2>3 DEF TypeOK, PoolInv
<1> QED  BY <1>1, <1>2, <1>4, <1>5, <1>6 DEF Land

\* No transaction undoes a list that is the file's.
LEMMA LandKeepsList ==
    ASSUME TypeInv, NEW t, TxInv(t), Land(t), file' = file, pool # None, ListAsConfigured
    PROVE  ListAsConfigured'
<1>0. pool \in Pool
  BY DEF TypeInv, TypeOK
<1>1. ~LandInit(t)
  BY DEF LandInit, CanInit
<1>2. CASE LandFirst(t)
  BY <1>2 DEF LandFirst, ListAsConfigured
<1>3. CASE LandAdd(t)
  BY <1>0, <1>3 DEF LandAdd, TxInv, ListAsConfigured, Pool
<1>4. CASE LandPrefer(t)
  BY <1>0, <1>4 DEF LandPrefer, ListAsConfigured, Pool
<1>5. CASE LandSync(t)
  BY <1>0, <1>5 DEF LandSync, ListAsConfigured, Pool
<1> QED  BY <1>1, <1>2, <1>3, <1>4, <1>5 DEF Land

\* A transaction that changes the pool leaves the manager as its staker, or the file's
\* validators listed and preferred.
LEMMA LandHandover ==
    ASSUME TypeInv, NEW t, TxInv(t), Land(t), file' = file,
           pool' \notin {None, pool}, pool'.settings.staker # Manager
    PROVE  /\ pool'.list = file.validators
           /\ pool'.deposit = file.deposit /\ pool'.withdraw = file.withdraw
<1>0. /\ file \in File
      /\ pool # None => pool \in Pool
  BY DEF TypeInv, TypeOK
<1>1. CASE LandFirst(t)
  BY <1>1 DEF LandFirst
<1>2. CASE LandInit(t)
  <2>1. pool'.settings = Dummy
    BY <1>0, <1>2, InitializedIs DEF TxInv, LandInit
  <2>2. Dummy.staker = Manager
    BY DEF Dummy, InitArgs
  <2> QED  BY <2>1, <2>2
<1>3. CASE LandAdd(t)
  BY <1>0, <1>3 DEF LandAdd, CanAdd, Pool
<1>4. CASE LandPrefer(t)
  BY <1>0, <1>4 DEF LandPrefer, CanPrefer, Pool
<1>5. CASE LandSync(t)
  <2>1. pool \in Pool /\ ListAsConfigured
    BY <1>0, <1>5 DEF LandSync, TxInv
  <2> QED  BY <1>5, <2>1 DEF LandSync, ListAsConfigured, Pool
<1> QED  BY <1>1, <1>2, <1>3, <1>4, <1>5 DEF Land

-----------------------------------------------------------------------------
(* The types, for every state.                                             *)

\* Only the runs and what is in flight change in a step that leaves the chain alone.
Steady == UNCHANGED <<mint, reserve, accounts, pool, current, file>>

\* The initial states have their types.
LEMMA TypeInit == Init => TypeInv
<1> SUFFICES ASSUME Init PROVE TypeInv
  OBVIOUS
<1>1. /\ mint \in Mint /\ reserve \in Reserve /\ accounts \subseteq Keys /\ file \in File
      /\ None \in Reserve
  BY CreateConstants DEF Init, Reserve
<1>2. losses \in 0 .. MaxLosses
  BY CreateConstants DEF Init
<1>3. TypeOK
  BY <1>1, <1>2 DEF Init, TypeOK, Ended
<1> QED  BY <1>3 DEF Init, TypeInv, PoolInv

\* The steps of a run keep the types.
LEMMA RunType ==
    ASSUME TypeInv, SentInv,
           FetchMint \/ FetchAccounts \/ Send \/ NextStage \/ Crash \/ AbortTx \/ LoseTx
    PROVE  TypeInv' /\ Steady
<1> USE DEF TypeInv, Ended
<1>0. TypeOK /\ losses' \in 0 .. MaxLosses
  <2>1. losses' = losses \/ (losses < MaxLosses /\ losses' = losses + 1)
    BY DEF FetchMint, FetchAccounts, Send, NextStage, Crash, AbortTx, LoseTx, chain
  <2>2. losses \in 0 .. MaxLosses /\ MaxLosses \in Nat
    BY CreateConstants DEF TypeOK
  <2> QED  BY <2>1, <2>2
<1>1. Steady
  BY DEF FetchMint, FetchAccounts, Send, NextStage, Crash, AbortTx, LoseTx, chain, ledger, Steady
<1>2. PoolInv'
  BY <1>1 DEF PoolInv, Steady
<1>3. ASSUME \A t \in late' \cup ({inflight'} \ {None}) :
                t.kind \in {"first", "init", "add", "prefer", "sync"},
             pc' \in Ended \cup {"fetch_accounts", "ready", "confirm"},
             stage' \in {"first", "init", "add", "prefer", "sync", "end"},
             foundReserve' \in Reserve, first' \subseteq {"reserve", "fee_account"},
             toAdd' \subseteq Votes, undisturbed' \in BOOLEAN
      PROVE  TypeInv' /\ Steady
  BY <1>0, <1>1, <1>2, <1>3 DEF TypeOK, Steady
<1>4. CASE FetchMint
  BY <1>0, <1>3, <1>4 DEF FetchMint, chain, Reserve, TypeOK
<1>5. CASE FetchAccounts
  BY <1>0, <1>3, <1>5 DEF FetchAccounts, chain, TypeOK
<1>6. CASE Send
  <2>1. PICK t \in Transactions :
          inflight' = t /\ toAdd' = (IF t.kind = "add" THEN toAdd \ t.ixs ELSE toAdd)
    BY <1>6 DEF Send
  <2>2. t.kind \in {"first", "init", "add", "prefer", "sync"}
    BY <1>0, <2>1, SendsType
  <2>3. pc' = "confirm" /\ UNCHANGED <<late, stage, foundReserve, first, undisturbed>>
    BY <1>6 DEF Send, chain
  <2> QED  BY <1>0, <1>3, <2>1, <2>2, <2>3 DEF TypeOK
<1>7. CASE NextStage
  <2>1. UNCHANGED <<late, inflight, foundReserve, first, toAdd, undisturbed>>
    BY <1>7 DEF NextStage, chain
  <2>2. stage' \in {"first", "init", "add", "prefer", "sync", "end"} /\ pc' \in {"done", "ready"}
    BY <1>0, <1>7 DEF NextStage, After, TypeOK
  <2> QED  BY <1>0, <1>3, <2>1, <2>2 DEF TypeOK
<1>8. CASE Crash \/ AbortTx \/ LoseTx
  <2>1. /\ UNCHANGED <<stage, foundReserve, first, toAdd, undisturbed>>
        /\ pc' \in {"dead", "rejected", "lost"} /\ inflight' = None
        /\ late' = late \/ (pc = "confirm" /\ late' = late \cup {inflight})
    BY <1>8 DEF Crash, AbortTx, LoseTx, chain
  <2>2. \A t \in late' : t.kind \in {"first", "init", "add", "prefer", "sync"}
    BY <1>0, <2>1 DEF TypeOK, SentInv, TxInv
  <2> QED  BY <1>0, <1>3, <2>1, <2>2 DEF TypeOK
<1> QED  BY <1>4, <1>5, <1>6, <1>7, <1>8

\* So do the transactions, with a sender and without.
LEMMA LandingType ==
    ASSUME TypeInv, SentInv, LateInv, Confirm \/ LandLate \/ DropLate
    PROVE  TypeInv' /\ (pool # None => pool' # None) /\ file' = file
<1> USE DEF TypeInv
<1>0. TypeOK /\ file' = file /\ losses' = losses
  BY DEF Confirm, LandLate, DropLate, command
<1>1. CASE Confirm
  <2>1. PICK t : t = inflight
    OBVIOUS
  <2>2. Land(t) /\ TxInv(t)
    BY <1>1, <2>1 DEF Confirm, SentInv
  <2>3. /\ inflight' = None /\ pc' = "ready" /\ UNCHANGED <<late, foundReserve, first, undisturbed>>
        /\ stage' = IF stage = "add" THEN stage ELSE After(stage)
        /\ toAdd' = IF stage = "init" THEN file.validators ELSE toAdd
        /\ stage \in {"first", "init", "add", "prefer", "sync"}
    BY <1>1 DEF Confirm, SentInv, TxInv
  <2>4. stage' \in {"first", "init", "add", "prefer", "sync", "end"} /\ toAdd' \subseteq Votes
    BY <1>0, <2>3 DEF After, TypeOK, File
  <2> QED  BY <1>0, <2>2, <2>3, <2>4, LandType DEF TypeOK
<1>2. CASE LandLate
  <2>1. PICK t \in late : Land(t) /\ late' = late \ {t}
    BY <1>2 DEF LandLate
  <2>2. undisturbed' = FALSE /\ UNCHANGED command
    BY <1>2 DEF LandLate
  <2> QED  BY <1>0, <2>1, <2>2, LandType DEF LateInv, TypeOK, command
<1>3. CASE DropLate
  <2>1. UNCHANGED <<ledger, command, undisturbed>> /\ late' \subseteq late
    BY <1>3 DEF DropLate
  <2> QED  BY <1>0, <2>1 DEF TypeOK, PoolInv, command, ledger
<1> QED  BY <1>1, <1>2, <1>3

\* The commands that finish a creation are told what settings are.
LEMMA FinalTargetType ==
    ASSUME file \in File, NEW p \in Settings
    PROVE  FinalTarget(p) \in Target
<1>1. [f \in FeeTypes |-> Or(file.fee[f], p.fee[f])] \in [FeeTypes -> Fees]
  BY DEF File, Settings, Or
<1> QED  BY <1>1, FileIs DEF FinalTarget, Target, File, Settings, Or

\* Time and the commands that finish a creation keep the types.
LEMMA LaterType ==
    ASSUME TypeInv,
           AdvanceEpoch \/ UpdatePool \/ SyncPool \/ SyncValidatorList
    PROVE  TypeInv' /\ pool' \in Pool
<1> USE DEF TypeInv
<1>0. TypeOK /\ pool # None /\ pool \in Pool /\ reserve # None /\ pool.max = file.max_validators
      /\ reserve \in [authority : {"pool", "other"}, lamports : Nat] /\ mint.authority = "pool"
  BY DEF AdvanceEpoch, UpdatePool, SyncPool, CanSyncPool, SyncValidatorList, Created, TypeOK,
         PoolInv, Reserve
<1>1. UNCHANGED <<mint, accounts, late, losses, command>>
  BY DEF AdvanceEpoch, UpdatePool, SyncPool, SyncValidatorList, ByHand
<1>2. undisturbed' \in BOOLEAN /\ current' \in BOOLEAN
  BY <1>0 DEF AdvanceEpoch, UpdatePool, SyncPool, SyncValidatorList, ByHand, TypeOK
<1>4. ASSUME pool' \in Pool, pool'.max = pool.max, reserve' \in Reserve \ {None}
      PROVE  TypeInv' /\ pool' \in Pool
  BY <1>0, <1>1, <1>2, <1>4 DEF TypeOK, PoolInv, command
<1>5. reserve \in Reserve \ {None}
  BY <1>0 DEF Reserve
<1>6. CASE AdvanceEpoch
  BY <1>0, <1>4, <1>5, <1>6 DEF AdvanceEpoch
<1>7. CASE UpdatePool
  <2>1. pool' = [pool EXCEPT !.settings = NextEpoch(@)] /\ reserve' = reserve
    BY <1>7 DEF UpdatePool
  <2>2. pool'.max = pool.max
    BY <1>0, <2>1 DEF Pool
  <2> QED  BY <1>0, <1>4, <1>5, <2>1, <2>2, UpdatedIs
<1>8. CASE SyncPool
  <2>1. pool' = [pool EXCEPT !.settings = AfterChanges.settings] /\ reserve' = reserve
        /\ AfterChanges.ok
    BY <1>8 DEF SyncPool, CanSyncPool
  <2>2. AfterChanges.settings \in Settings
    <3>1. pool.settings \in Settings /\ FinalTarget(pool.settings) \in Target /\ Payer \in Keys
      BY <1>0, FinalTargetType, CreateConstants DEF Pool, TypeOK
    <3> QED  BY <2>1, <3>1, CarriedOut DEF AfterChanges, FinalChanges
  <2>3. pool' \in Pool /\ pool'.max = pool.max
    BY <1>0, <2>1, <2>2 DEF Pool
  <2> QED  BY <1>4, <1>5, <2>1, <2>3
<1>9. CASE SyncValidatorList
  <2>0. Updated \in Settings
    BY <1>0, NextEpochIs DEF Updated, Pool
  <2>1. CASE CanSyncList
    <3> DEFINE added == file.validators \ pool.list
    <3>1. /\ pool' = [pool EXCEPT !.list = file.validators, !.settings = Updated,
                                  !.deposit = file.deposit, !.withdraw = file.withdraw]
          /\ reserve' = [reserve EXCEPT !.lamports = @ - Cardinality(added) * NewVsa]
          /\ reserve.lamports >= MinReserve + Cardinality(added) * NewVsa
      BY <1>9, <2>1 DEF SyncValidatorList, CanSyncList
    <3>2. file.validators \subseteq Votes /\ added \subseteq Votes
          /\ {file.deposit, file.withdraw} \subseteq Votes \cup {None}
      BY <1>0 DEF TypeOK, File
    <3>3. reserve.lamports - Cardinality(added) * NewVsa \in Nat
      BY <1>0, <3>1, <3>2, AddIsPaid, CountIs
    <3> HIDE DEF added
    <3>4. pool' \in Pool /\ pool'.max = pool.max
      BY <1>0, <2>0, <3>1, <3>2 DEF Pool
    <3>5. reserve' \in [authority : {"pool", "other"}, lamports : Nat]
      BY <1>0, <3>1, <3>3
    <3>6. reserve' \in Reserve \ {None}
      BY <3>5, CreateConstants DEF Reserve
    <3> QED  BY <1>4, <3>4, <3>6
  <2>2. CASE ~CanSyncList
    <3>1. pool' = [pool EXCEPT !.settings = Updated] /\ reserve' = reserve
      BY <1>9, <2>2 DEF SyncValidatorList
    <3>2. pool' \in Pool /\ pool'.max = pool.max
      BY <1>0, <2>0, <3>1 DEF Pool
    <3> QED  BY <1>4, <1>5, <3>1, <3>2
  <2> QED  BY <2>1, <2>2
<1> QED  BY <1>6, <1>7, <1>8, <1>9

\* Every step does, and a pool that has been made stays.
LEMMA TypeStep ==
    ASSUME TypeInv, SentInv, LateInv, [LifecycleNext]_vars
    PROVE  TypeInv' /\ (pool # None => pool' # None) /\ file' = file
<1>1. CASE UNCHANGED vars
  <2>1. UNCHANGED <<mint, reserve, accounts, pool, current, late, losses, file, pc, stage,
                    foundReserve, first, toAdd, inflight, undisturbed>>
    BY <1>1 DEF vars, chain, command, ledger
  <2> QED  BY <2>1 DEF TypeInv, TypeOK, PoolInv
<1>2. CASE FetchMint \/ Step \/ Crash \/ AbortTx \/ LoseTx
  BY <1>2, RunType DEF Step, Steady
<1>3. CASE Confirm \/ LandLate \/ DropLate
  BY <1>3, LandingType
<1>4. CASE AdvanceEpoch \/ UpdatePool \/ SyncPool \/ SyncValidatorList
  <2>1. None \notin Pool /\ file' = file
    BY <1>4, CreateConstants
       DEF AdvanceEpoch, UpdatePool, SyncPool, SyncValidatorList, ByHand, command
  <2> QED  BY <1>4, <2>1, LaterType
<1> QED  BY <1>1, <1>2, <1>3, <1>4 DEF LifecycleNext, Next, Runtime

-----------------------------------------------------------------------------
(* What is in flight, its sender alive or not.                             *)

\* A list that is the file's stays so.
LEMMA ListStays ==
    ASSUME TypeInv, SentInv, LateInv, [LifecycleNext]_vars, pool # None, ListAsConfigured
    PROVE  ListAsConfigured'
<1>0. pool \in Pool
  BY DEF TypeInv, TypeOK
<1>1. CASE UNCHANGED vars \/ DropLate \/ AdvanceEpoch
  BY <1>1 DEF vars, chain, ledger, command, DropLate, AdvanceEpoch, ListAsConfigured
<1>2. CASE FetchMint \/ Step \/ Crash \/ AbortTx \/ LoseTx
  BY <1>2, RunType DEF Step, Steady, ListAsConfigured
<1>3. CASE Confirm
  <2>1. PICK t : t = inflight
    OBVIOUS
  <2>2. Land(t) /\ TxInv(t) /\ file' = file
    BY <1>3, <2>1 DEF Confirm, SentInv
  <2> QED  BY <2>2, LandKeepsList
<1>4. CASE LandLate
  <2>1. PICK t \in late : Land(t) /\ TxInv(t) /\ file' = file
    BY <1>4 DEF LandLate, LateInv, command
  <2> QED  BY <2>1, LandKeepsList
<1>5. CASE UpdatePool
  BY <1>0, <1>5 DEF UpdatePool, command, ListAsConfigured, Pool
<1>6. CASE SyncPool
  BY <1>0, <1>6 DEF SyncPool, ByHand, command, ListAsConfigured, Pool
<1>7. CASE SyncValidatorList
  <2>1. ~CanSyncList
    BY DEF CanSyncList
  <2> QED  BY <1>0, <1>7, <2>1 DEF SyncValidatorList, ByHand, command, ListAsConfigured, Pool
<1> QED  BY <1>1, <1>2, <1>3, <1>4, <1>5, <1>6, <1>7 DEF LifecycleNext, Next, Runtime

\* What a transaction was made of stays what it was.
LEMMA TxStays ==
    ASSUME TypeInv, SentInv, LateInv, [LifecycleNext]_vars, NEW t, TxInv(t)
    PROVE  TxInv(t)'
<1>1. file' = file /\ (pool # None => pool' # None)
  BY TypeStep
<1>2. pool # None /\ ListAsConfigured => ListAsConfigured'
  BY ListStays
<1>3. InitArgs' = InitArgs /\ Preferences' = Preferences
      /\ Changeset(SyncTarget, Dummy)' = Changeset(SyncTarget, Dummy)
  BY <1>1, FileStays
<1> QED  BY <1>1, <1>2, <1>3 DEF TxInv

\* What a dead run had sent joins what is late; a run that goes ahead began without a pool.
LEMMA LateStep ==
    ASSUME TypeInv, SentInv, LateInv, [LifecycleNext]_vars
    PROVE  LateInv'
<1> DEFINE W == {"fetch_accounts", "ready", "confirm", "done"}
<1>1. ASSUME late' \subseteq late
      PROVE  \A t \in late' : TxInv(t)'
  BY <1>1, TxStays DEF LateInv
<1>2. ASSUME late' \subseteq late, pc' \in W => pc \in W
      PROVE  LateInv'
  BY <1>1, <1>2 DEF LateInv
<1>3. CASE FetchMint
  <2>1. late' = late /\ UNCHANGED pool
    BY <1>3 DEF FetchMint, chain, ledger
  <2>2. ASSUME pc' \in W
        PROVE  \A t \in late : t.kind \in {"first", "init"}
    <3>1. mint.authority = Manager /\ Manager # "pool"
      BY <1>3, <2>2, ManagerIsKey DEF FetchMint, IsMintVerified, TypeInv, TypeOK
    <3>2. pool = None
      BY <3>1 DEF TypeInv, PoolInv
    <3> QED  BY <3>2 DEF LateInv, TxInv
  <2> QED  BY <1>1, <2>1, <2>2 DEF LateInv
<1>4. CASE Crash
  <2>1. pc' = "dead" /\ (late' = late \/ (pc = "confirm" /\ late' = late \cup {inflight}))
    BY <1>4 DEF Crash
  <2>2. PICK t : t = inflight
    OBVIOUS
  <2>3. pc = "confirm" => TxInv(t)'
    BY <2>2, TxStays DEF SentInv
  <2>4. \A u \in late : TxInv(u)'
    BY TxStays DEF LateInv
  <2> QED  BY <2>1, <2>2, <2>3, <2>4 DEF LateInv
<1>5. CASE Step \/ Confirm \/ AbortTx \/ LoseTx
  BY <1>2, <1>5 DEF Step, FetchAccounts, Send, NextStage, Confirm, AbortTx, LoseTx, chain
<1>6. CASE LandLate \/ DropLate \/ AdvanceEpoch \/ UpdatePool \/ SyncPool \/ SyncValidatorList
           \/ UNCHANGED vars
  BY <1>2, <1>6 DEF LandLate, DropLate, AdvanceEpoch, UpdatePool, SyncPool, SyncValidatorList,
                    ByHand, command, vars, chain
<1> QED  BY <1>3, <1>4, <1>5, <1>6 DEF LifecycleNext, Next, Runtime

\* A run waits for what its stage has sent.
LEMMA SentStep ==
    ASSUME TypeInv, SentInv, LateInv, StageInv, [LifecycleNext]_vars
    PROVE  SentInv'
<1>1. CASE FetchMint \/ FetchAccounts \/ NextStage
  <2>1. inflight' = inflight /\ pc # "confirm" /\ pc' # "confirm"
    BY <1>1 DEF FetchMint, FetchAccounts, NextStage, Ended
  <2> QED  BY <2>1 DEF SentInv
<1>2. CASE Send
  <2>1. PICK t \in Transactions : inflight' = t
    BY <1>2 DEF Send
  <2>2. /\ pc = "ready" /\ pc' = "confirm" /\ stage' = stage
        /\ UNCHANGED <<file, pool>>
    BY <1>2 DEF Send, chain, ledger
  <2>3. /\ t.kind = stage /\ t.kind \in {"first", "init", "add", "prefer", "sync"}
        /\ t.kind = "init" => t.ixs = InitArgs
        /\ t.kind = "add" => t.ixs \subseteq toAdd
        /\ t.kind = "prefer" => t.ixs = Preferences
        /\ t.kind = "sync" => t.ixs = Changeset(SyncTarget, Dummy)
    BY <2>1, SendsType DEF TypeInv
  <2>4. TxInv(t)
    BY <2>2, <2>3 DEF TxInv, StageInv
  <2>5. TxInv(t)'
    BY <2>4, TxStays
  <2> QED  BY <2>1, <2>2, <2>3, <2>5 DEF SentInv, TxInv
<1>3. CASE Crash \/ Confirm \/ AbortTx \/ LoseTx
  <2>1. inflight' = None /\ pc' # "confirm"
    BY <1>3 DEF Crash, Confirm, AbortTx, LoseTx
  <2> QED  BY <2>1 DEF SentInv
<1>4. CASE LandLate \/ DropLate \/ AdvanceEpoch \/ UpdatePool \/ SyncPool \/ SyncValidatorList
           \/ UNCHANGED vars
  <2>1. UNCHANGED <<inflight, pc, stage>>
    BY <1>4 DEF LandLate, DropLate, AdvanceEpoch, UpdatePool, SyncPool, SyncValidatorList,
                ByHand, command, vars
  <2>2. PICK t : t = inflight
    OBVIOUS
  <2>3. pc = "confirm" => TxInv(t)'
    BY <2>2, TxStays DEF SentInv
  <2> QED  BY <2>1, <2>2, <2>3 DEF SentInv, TxInv
<1> QED  BY <1>1, <1>2, <1>3, <1>4 DEF LifecycleNext, Next, Step, Runtime

-----------------------------------------------------------------------------
(* A run that reports success has made the pool of the file.               *)

\* A run goes beyond Initialize only when the pool has been made.
LEMMA BeyondInit ==
    ASSUME TypeOK, NextStage
    PROVE  stage # "init" /\ (stage' \in {"prefer", "sync"} => stage \in {"add", "prefer", "sync"})
           /\ stage' # "add"
<1>1. stage # "init"
  BY DEF NextStage, Transactions
<1>2. stage \in {"first", "init", "add", "prefer", "sync", "end"}
  BY DEF TypeOK
<1> QED  BY <1>1, <1>2 DEF NextStage, After

\* Nothing is left for sync-pool to do on a pool that is as the creation leaves it.
LEMMA SettledNeedsNothing ==
    ASSUME file \in File, NEW p \in Settings, Settles(p, SyncTarget)
    PROVE  Changeset(FinalTarget(p), p) = <<>>
<1> DEFINE t == FinalTarget(p)
           cs == Changeset(t, p)
<1>1. /\ cs \in Seq(Changes) /\ \A j \in 1 .. Len(cs) : Needs(t, p, cs[j])
  BY ChangesetIs
<1>2. ASSUME NEW a \in FundingTypes
      PROVE  ~AuthNeeds(t, p, a)
  <2>1. Authority(p, a) = Authority(SyncTarget, a)
    BY DEF Settles
  <2>2. SyncTarget.auth = [file.auth EXCEPT !["StakeDeposit"] = FilterDefault(@)]
        /\ file.auth \in [FundingTypes -> Keys \cup {None, DefaultAuth}]
    BY DEF SyncTarget, DepositAuth, File
  <2>3. Authority(SyncTarget, a) = Authority(file, a)
    BY <2>2, SettingsConstants DEF Authority, FilterDefault
  <2>4. Authority(t, a) = Authority(file, a)
    BY DEF FinalTarget, Authority
  <2> QED  BY <2>1, <2>3, <2>4 DEF AuthNeeds
<1>3. ASSUME NEW f \in FeeTypes
      PROVE  ~FeeNeeds(t, p, f)
  <2>1. t.fee[f] = Or(file.fee[f], p.fee[f])
    BY DEF FinalTarget
  <2>2. CASE file.fee[f] = Unset
    <3>1. SameFee(p.fee[f], p.fee[f])
      BY ComingType, SameFeeIs
    <3> QED  BY <2>1, <2>2, <3>1 DEF FeeNeeds, Or
  <2>3. CASE file.fee[f] # Unset
    <3>1. SyncTarget.fee[f] = t.fee[f]
      BY <2>1, <2>3 DEF SyncTarget, FeeOf, Or
    <3>2. SameFee(Coming(p, f), t.fee[f])
      BY <3>1 DEF Settles
    <3> QED  BY <3>2 DEF FeeNeeds, Coming
  <2> QED  BY <2>2, <2>3
<1>4. p.staker = t.staker /\ p.feeAccount = t.feeAccount /\ p.manager = t.manager
  BY DEF Settles, SyncTarget, FinalTarget, FeeAccount, Or
<1> HIDE DEF t, cs
<1>5. ASSUME NEW c \in Changes, Needs(t, p, c)
      PROVE  FALSE
  <2>1. CASE c.kind = "Auth" /\ c.what \in FundingTypes
    BY <1>2, <1>5, <2>1, NeedsIs
  <2>2. CASE c.kind = "Fee" /\ c.what \in FeeTypes
    BY <1>3, <1>5, <2>2, NeedsIs
  <2>3. CASE c.kind \in {"Staker", "FeeAccount", "Manager"}
    BY <1>4, <1>5, <2>3, NeedsIs
  <2> QED  BY <2>1, <2>2, <2>3, ChangeIs
<1>6. ASSUME cs # <<>>
      PROVE  FALSE
  <2>1. 1 \in 1 .. Len(cs) /\ cs[1] \in Changes
    BY <1>1, <1>6
  <2> QED  BY <1>1, <1>5, <2>1
<1> QED  BY <1>6 DEF t, cs

\* Nothing is pending in a pool that has just been made.
LEMMA DummyPendsNothing == ASSUME NEW t PROVE ~PendingAway(Dummy, t)
BY DEF Dummy, PendingAway, Coming

\* Nothing is said of a run that is over, but of one that reports success.
LEMMA EndedStage == ASSUME pc' \in Ended \ {"done"} PROVE StageInv'
BY DEF StageInv, Ended

\* A run stays where it is as long as nobody changes the pool.
LEMMA StageStays ==
    ASSUME StageInv, UNCHANGED <<file, pool, pc, stage, toAdd, inflight>>
    PROVE  StageInv'
<1>1. Dummy' = Dummy /\ SyncTarget' = SyncTarget /\ Left' = Left
      /\ (ListAsConfigured' <=> ListAsConfigured) /\ (Unpreferred' <=> Unpreferred)
  BY FileStays DEF ListAsConfigured, Unpreferred, Left
<1> QED  BY <1>1 DEF StageInv

\* Or nobody changes more of it than time does.
LEMMA StageAges ==
    ASSUME StageInv, UNCHANGED <<file, pc, stage, toAdd, inflight>>, pool # None => pool' # None,
           pool # None => /\ Alike(pool'.settings, pool.settings) /\ pool'.list = pool.list
                          /\ pool'.deposit = pool.deposit /\ pool'.withdraw = pool.withdraw
    PROVE  StageInv'
<1>1. Dummy' = Dummy /\ SyncTarget' = SyncTarget /\ Left' = Left
  BY FileStays DEF Left
<1>2. pool # None => /\ ListAsConfigured' <=> ListAsConfigured
                     /\ Unpreferred' <=> Unpreferred
  BY DEF ListAsConfigured, Unpreferred
<1>3. pool # None /\ Alike(pool.settings, Dummy) => Alike(pool'.settings, Dummy)
  BY AlikeTrans
<1>4. pool # None /\ Settles(pool.settings, SyncTarget) => Settles(pool'.settings, SyncTarget)
  BY AlikeSettles
<1> QED  BY <1>1, <1>2, <1>3, <1>4 DEF StageInv

\* What the command does leaves the pool to the transactions it sends.
LEMMA CommandStage ==
    ASSUME TypeInv, StageInv, FetchMint \/ Step \/ Crash
    PROVE  StageInv'
<1>0. TypeOK /\ file \in File
  BY DEF TypeInv, TypeOK
<1>1. CASE FetchMint
  BY <1>1 DEF FetchMint, StageInv
<1>2. CASE FetchAccounts
  BY <1>2 DEF FetchAccounts, StageInv
<1>3. CASE Send
  <2>1. PICK t \in Transactions :
          inflight' = t /\ toAdd' = (IF t.kind = "add" THEN toAdd \ t.ixs ELSE toAdd)
    BY <1>3 DEF Send
  <2>2. UNCHANGED <<file, pool, stage>> /\ pc = "ready" /\ pc' = "confirm"
    BY <1>3 DEF Send, chain, ledger
  <2>3. t.kind = stage /\ stage # "end" /\ (stage = "add" => t.ixs \subseteq toAdd)
    BY <1>0, <2>1, SendsType
  <2>4. Dummy' = Dummy /\ (ListAsConfigured' <=> ListAsConfigured) /\ (Unpreferred' <=> Unpreferred)
    BY <2>2, FileStays DEF ListAsConfigured, Unpreferred
  <2>5. stage = "add" => Left' = Left /\ toAdd' \subseteq toAdd
    BY <2>1, <2>2, <2>3 DEF Left
  <2> QED  BY <2>2, <2>3, <2>4, <2>5 DEF StageInv
<1>4. CASE NextStage
  <2>1. UNCHANGED <<file, pool, inflight, toAdd>> /\ pc = "ready" /\ Transactions = {}
    BY <1>4 DEF NextStage, chain, ledger
  <2>2. Dummy' = Dummy /\ SyncTarget' = SyncTarget
        /\ (ListAsConfigured' <=> ListAsConfigured) /\ (Unpreferred' <=> Unpreferred)
    BY <2>1, FileStays DEF ListAsConfigured, Unpreferred
  <2>3. CASE stage = "end"
    <3>1. pc' = "done"
      BY <1>4, <2>3 DEF NextStage
    <3> QED  BY <2>1, <2>2, <2>3, <3>1 DEF StageInv
  <2>4. CASE stage = "first"
    <3>1. pc' = "ready" /\ stage' = "init"
      BY <1>4, <2>4 DEF NextStage, After
    <3> QED  BY <3>1 DEF StageInv
  <2>5. CASE stage = "add"
    <3>1. pc' = "ready" /\ stage' = "prefer"
      BY <1>4, <2>5 DEF NextStage, After
    <3>2. toAdd = {}
      <4>1. toAdd \subseteq file.validators /\ IsFiniteSet(toAdd) /\ MaxAddIxs \in Nat \ {0}
        BY <1>0, <2>1, <2>5, CountIs, CreateConstants DEF StageInv, TypeOK
      <4>2. ASSUME NEW s \in (SUBSET toAdd) \ {{}},
                   \/ Cardinality(s) = MaxAddIxs
                   \/ s = toAdd /\ Cardinality(s) < MaxAddIxs
            PROVE  FALSE
        BY <2>1, <2>5, <4>2 DEF Transactions
      <4> QED  BY <4>1, <4>2, ChunkExists
    <3>3. pool.list = file.validators
      BY <2>1, <2>5, <3>2 DEF StageInv, Left
    <3> QED  BY <2>1, <2>2, <2>5, <3>1, <3>3 DEF StageInv
  <2>6. CASE stage = "prefer"
    <3>1. pc' = "ready" /\ stage' = "sync"
      BY <1>4, <2>6 DEF NextStage, After
    <3>2. file.deposit = None /\ file.withdraw = None
      BY <2>1, <2>6 DEF Transactions, Preferences
    <3>3. ListAsConfigured
      BY <2>1, <2>6, <3>2 DEF StageInv, ListAsConfigured, Unpreferred
    <3> QED  BY <2>1, <2>2, <2>6, <3>1, <3>3 DEF StageInv
  <2>7. CASE stage = "sync"
    <3>1. pc' = "ready" /\ stage' = "end" /\ Changeset(SyncTarget, Dummy) = <<>>
      BY <1>4, <2>1, <2>7 DEF NextStage, After, Transactions
    <3>2. ListAsConfigured /\ pool # None /\ Alike(pool.settings, Dummy)
      BY <2>1, <2>7 DEF StageInv
    <3>3. Settles(Dummy, SyncTarget)
      BY <1>0, <3>1, UnneededSettles, DummyPendsNothing, DummyType
    <3>4. Settles(pool.settings, SyncTarget)
      BY <3>2, <3>3, AlikeSettles
    <3> QED  BY <2>1, <2>2, <3>1, <3>2, <3>4 DEF StageInv
  <2> QED  BY <1>0, <1>4, <2>3, <2>4, <2>5, <2>6, <2>7, BeyondInit DEF TypeOK
<1>5. CASE Crash
  BY <1>5, EndedStage DEF Crash, Ended
<1> QED  BY <1>1, <1>2, <1>3, <1>4, <1>5 DEF Step

\* A transaction that is confirmed brings the pool to the next stage.
LEMMA ConfirmStage ==
    ASSUME TypeInv, SentInv, StageInv, Confirm
    PROVE  StageInv'
<1>0. TypeOK /\ file \in File
  BY DEF TypeInv, TypeOK
<1>1. /\ pc = "confirm" /\ pc' = "ready" /\ file' = file
      /\ stage' = IF stage = "add" THEN stage ELSE After(stage)
      /\ toAdd' = IF stage = "init" THEN file.validators ELSE toAdd
  BY DEF Confirm
<1>2. PICK t : t = inflight
  OBVIOUS
<1>3. Land(t) /\ TxInv(t) /\ t.kind = stage
  BY <1>1, <1>2 DEF Confirm, SentInv
<1>4. Dummy' = Dummy /\ SyncTarget' = SyncTarget /\ Left' = toAdd'
  BY <1>1, FileStays DEF Left
<1>5. CASE stage = "first"
  <2>1. stage' = "init"
    BY <1>1, <1>5 DEF After
  <2> QED  BY <1>1, <2>1 DEF StageInv
<1>6. CASE stage = "init"
  <2>1. stage' = "add" /\ LandInit(t) /\ t.ixs = InitArgs
    BY <1>1, <1>3, <1>6 DEF After, Land, LandFirst, LandAdd, LandPrefer, LandSync, TxInv
  <2>2. pool' \in Pool /\ pool'.settings = Dummy /\ pool'.list = {} /\ Unpreferred'
    <3>1. pool'.deposit = None /\ pool'.withdraw = None
      BY <2>1 DEF LandInit
    <3> QED  BY <1>0, <2>1, <3>1, InitializedIs DEF Unpreferred
  <2>3. pool' # None /\ Alike(pool'.settings, Dummy)
    BY <2>2, CreateConstants DEF Alike
  <2>4. toAdd' = file.validators
    BY <1>1, <1>6
  <2> QED  BY <1>1, <1>4, <2>1, <2>2, <2>3, <2>4 DEF StageInv
<1>7. CASE stage = "add"
  <2>1. stage' = "add" /\ toAdd' = toAdd /\ LandAdd(t)
    BY <1>1, <1>3, <1>7 DEF Land, LandFirst, LandInit, LandPrefer, LandSync
  <2>2. /\ pool \in Pool /\ Alike(pool.settings, Dummy) /\ Unpreferred
        /\ toAdd \subseteq file.validators /\ file.validators = pool.list \cup Left
        /\ Left = toAdd \cup t.ixs
    BY <1>0, <1>1, <1>2, <1>7 DEF TypeOK, StageInv, Left
  <2>3. /\ pool'.settings = pool.settings /\ pool'.list = pool.list \cup t.ixs
        /\ Unpreferred'
    BY <2>1, <2>2 DEF LandAdd, Unpreferred, Pool
  <2>4. pool' # None
    BY <1>0, <1>1, <1>3, <1>7, LandType DEF StageInv
  <2> QED  BY <1>1, <1>4, <2>1, <2>2, <2>3, <2>4 DEF StageInv
<1>8. CASE stage = "prefer"
  <2>1. stage' = "sync" /\ LandPrefer(t)
    BY <1>1, <1>3, <1>8 DEF After, Land, LandFirst, LandInit, LandAdd, LandSync
  <2>2. pool \in Pool /\ Alike(pool.settings, Dummy) /\ pool.list = file.validators
    BY <1>0, <1>1, <1>8 DEF TypeOK, StageInv
  <2>3. pool'.settings = pool.settings /\ ListAsConfigured'
    BY <1>1, <2>1, <2>2 DEF LandPrefer, ListAsConfigured, Pool
  <2>4. pool' # None
    BY <1>0, <1>1, <1>3, <1>8, LandType DEF StageInv
  <2> QED  BY <1>1, <1>4, <2>1, <2>2, <2>3, <2>4 DEF StageInv
<1>9. CASE stage = "sync"
  <2>1. stage' = "end" /\ LandSync(t) /\ t.ixs = Changeset(SyncTarget, Dummy)
    BY <1>1, <1>3, <1>9 DEF After, Land, LandFirst, LandInit, LandAdd, LandPrefer, TxInv
  <2>2. pool # None /\ pool \in Pool /\ Alike(pool.settings, Dummy) /\ ListAsConfigured
    BY <1>0, <1>1, <1>9 DEF TypeOK, StageInv
  <2> DEFINE s == PerformAll(pool.settings, Manager, current, SyncTarget,
                             Changeset(SyncTarget, Dummy))
  <2>3. pool' = [pool EXCEPT !.settings = s.settings] /\ s.ok
    BY <2>1 DEF LandSync, Synced
  <2>4. Settles(s.settings, SyncTarget)
    BY <1>0, <2>2, <2>3, CarriedOut, DummyPendsNothing, DummyType, FileIs DEF Pool
  <2> HIDE DEF s
  <2>5. pool'.settings = s.settings
    BY <2>2, <2>3 DEF Pool
  <2>6. ListAsConfigured' /\ pool' # None
    BY <1>1, <1>3, <2>2, LandKeepsList, LandType
  <2> QED  BY <1>1, <1>4, <2>1, <2>4, <2>5, <2>6 DEF StageInv
<1> QED  BY <1>3, <1>5, <1>6, <1>7, <1>8, <1>9 DEF TxInv

\* What the stages leave is what they have made, with time passed over it.
LEMMA StageStep ==
    ASSUME TypeInv, SentInv, LateInv, StageInv, [LifecycleNext]_vars
    PROVE  StageInv'
<1>0. TypeOK /\ file \in File /\ (pool # None => pool' # None)
      /\ (pool # None => pool \in Pool)
  BY TypeStep DEF TypeInv, TypeOK
<1>1. CASE FetchMint \/ Step \/ Crash
  BY <1>1, CommandStage
<1>2. CASE Confirm
  BY <1>2, ConfirmStage
<1>3. CASE AbortTx \/ LoseTx
  BY <1>3, EndedStage DEF AbortTx, LoseTx, Ended
<1>4. CASE LandLate
  <2>1. PICK t \in late : Land(t) /\ UNCHANGED command
    BY <1>4 DEF LandLate
  <2>2. CASE pc \in {"fetch_accounts", "ready", "confirm", "done"} /\ pool # None
    <3>1. t.kind \in {"first", "init"}
      BY <2>1, <2>2 DEF LateInv
    <3>2. pool' = pool
      BY <2>1, <2>2, <3>1
         DEF Land, LandFirst, LandInit, CanInit, LandAdd, LandPrefer, LandSync
    <3> QED  BY <2>1, <3>2, StageStays DEF command
  <2>3. CASE pool = None
    BY <2>1, <2>3 DEF StageInv, command
  <2>4. CASE pc \in Ended \ {"done"}
    BY <2>1, <2>4, EndedStage DEF command
  <2> QED  BY <1>0, <2>2, <2>3, <2>4 DEF TypeOK
<1>5. CASE DropLate \/ AdvanceEpoch \/ UNCHANGED vars
  BY <1>5, StageStays DEF DropLate, AdvanceEpoch, vars, chain, ledger, command
<1>6. CASE UpdatePool
  <2>1. UNCHANGED command /\ pool # None /\ pool' = [pool EXCEPT !.settings = NextEpoch(@)]
    BY <1>6 DEF UpdatePool
  <2>2. /\ pool'.settings = NextEpoch(pool.settings) /\ pool.settings \in Settings
        /\ pool'.list = pool.list /\ pool'.deposit = pool.deposit
        /\ pool'.withdraw = pool.withdraw
    BY <1>0, <2>1 DEF Pool
  <2> QED  BY <1>0, <2>1, <2>2, NextEpochIs, StageAges DEF command
<1>7. CASE SyncPool
  <2>1. UNCHANGED command /\ pc \in Ended /\ pool # None /\ FinalChanges # <<>>
    BY <1>7 DEF SyncPool, CanSyncPool, Created, ByHand
  <2>2. pc # "done"
    <3>1. ASSUME Settles(pool.settings, SyncTarget)
          PROVE  FALSE
      BY <1>0, <2>1, <3>1, SettledNeedsNothing DEF FinalChanges, Pool
    <3> QED  BY <3>1 DEF StageInv
  <2> QED  BY <2>1, <2>2, EndedStage DEF command
<1>8. CASE SyncValidatorList
  <2>1. UNCHANGED command /\ pc \in Ended /\ pool # None
    BY <1>8 DEF SyncValidatorList, Created, ByHand
  <2>2. CASE pc = "done"
    <3>1. ~CanSyncList
      BY <2>2 DEF StageInv, CanSyncList
    <3>2. pool' = [pool EXCEPT !.settings = Updated]
      BY <1>8, <3>1 DEF SyncValidatorList
    <3>3. /\ pool'.settings = Updated /\ pool.settings \in Settings
          /\ pool'.list = pool.list /\ pool'.deposit = pool.deposit
          /\ pool'.withdraw = pool.withdraw
      BY <1>0, <2>1, <3>2 DEF Pool
    <3>4. Alike(Updated, pool.settings)
      BY <3>3, NextEpochIs DEF Updated, Alike
    <3> QED  BY <1>0, <2>1, <3>3, <3>4, StageAges DEF command
  <2>3. CASE pc # "done"
    BY <2>1, <2>3, EndedStage DEF command
  <2> QED  BY <2>2, <2>3
<1> QED
  BY <1>1, <1>2, <1>3, <1>4, <1>5, <1>6, <1>7, <1>8 DEF LifecycleNext, Next, Runtime

-----------------------------------------------------------------------------
(* What a run has prepared is there when it is needed.                     *)

\* Two lots of validators cost what each of them costs.
LEMMA SplitIs ==
    ASSUME NEW A, A \subseteq Votes, NEW B, B \subseteq Votes, A \cap B = {}
    PROVE  /\ Cardinality(A \cup B) = Cardinality(A) + Cardinality(B)
           /\ Cardinality(A \cup B) * NewVsa = Cardinality(A) * NewVsa + Cardinality(B) * NewVsa
<1>1. /\ IsFiniteSet(A) /\ IsFiniteSet(B)
      /\ Cardinality(A) \in Nat /\ Cardinality(B) \in Nat
  BY CountIs
<1>2. Cardinality(A \cup B) = Cardinality(A) + Cardinality(B) - Cardinality(A \cap B)
  BY <1>1, FS_Union
<1>3. Cardinality(A \cap B) = 0
  BY FS_EmptySet
<1>4. Cardinality(A \cup B) = Cardinality(A) + Cardinality(B)
  BY <1>1, <1>2, <1>3
<1>5. \A a, b, c \in Nat : (a + b) * c = a * c + b * c
  OBVIOUS
<1>6. NewVsa \in Nat
  BY CreateConstants
<1> QED  BY <1>1, <1>4, <1>5, <1>6

\* A run that is over, or has been disturbed, needs nothing.
LEMMA EndedPrepared ==
    ASSUME pc' \in Ended \/ undisturbed' = FALSE
    PROVE  PreparedInv'
BY DEF PreparedInv, CheckedInv, VerifiedInv, FirstInv, InitInv, AddInv, Ended

\* A run starts with a pool that is up to date and a mint that is the manager's.
LEMMA StartPrepares ==
    ASSUME TypeInv, FetchMint
    PROVE  PreparedInv'
<1> USE DEF PreparedInv
<1>1. CASE Cardinality(file.validators) <= file.max_validators /\ IsMintVerified
  <2>1. UNCHANGED <<mint, current, file>> /\ pc' = "fetch_accounts"
    BY <1>1 DEF FetchMint, chain, ledger
  <2>2. Manager' = Manager /\ Manager # "pool" /\ file \in File
    BY <2>1, FileStays, ManagerIsKey DEF TypeInv, TypeOK
  <2>3. current /\ IsMintVerified'
    BY <1>1, <2>1, <2>2 DEF TypeInv, PoolInv, IsMintVerified
  <2>4. CheckedInv'
    BY <1>1, <2>1, <2>3 DEF CheckedInv
  <2> QED  BY <2>1, <2>3, <2>4 DEF VerifiedInv, FirstInv, InitInv, AddInv
<1>2. CASE ~(Cardinality(file.validators) <= file.max_validators /\ IsMintVerified)
  <2>1. pc' \in Ended
    BY <1>2 DEF FetchMint, Ended
  <2> QED  BY <2>1, EndedPrepared
<1> QED  BY <1>1, <1>2

\* A run prepares what it is about to need.
LEMMA CommandPrepares ==
    ASSUME TypeInv, StageInv, PreparedInv, undisturbed, Step
    PROVE  PreparedInv'
<1> USE DEF PreparedInv
<1>1. CASE FetchAccounts
  <2>1. CASE pc' = "ready"
    <3>1. /\ UNCHANGED <<mint, reserve, accounts, current, file, stage, undisturbed>>
          /\ pc = "fetch_accounts" /\ stage = "first"
      BY <1>1 DEF FetchAccounts, chain, ledger, StageInv
    <3>2. Manager' = Manager /\ FeeAccount' = FeeAccount
      BY <3>1, FileStays
    <3>3. CheckedInv'
      BY <3>1 DEF CheckedInv
    <3>4. VerifiedInv'
      BY <3>1, <3>2 DEF VerifiedInv, IsMintVerified
    <3>5. /\ foundReserve' = reserve
          /\ first' = (IF reserve = None THEN {"reserve"} ELSE {})
                      \cup (IF FeeAccount \in accounts THEN {} ELSE {"fee_account"})
          /\ reserve # None => reserve.authority = "pool"
      BY <1>1, <2>1 DEF FetchAccounts
    <3>6. FirstInv'
      BY <2>1, <3>1, <3>2, <3>5 DEF FirstInv
    <3> QED  BY <3>1, <3>3, <3>4, <3>6 DEF InitInv, AddInv
  <2>2. CASE pc' = "refused"
    BY <2>2, EndedPrepared DEF Ended
  <2> QED  BY <1>1, <2>1, <2>2 DEF FetchAccounts
<1>2. CASE Send
  <2>1. PICK t \in Transactions :
          inflight' = t /\ toAdd' = (IF t.kind = "add" THEN toAdd \ t.ixs ELSE toAdd)
    BY <1>2 DEF Send
  <2>2. /\ UNCHANGED <<mint, reserve, accounts, pool, current, file, stage, foundReserve, first,
                       undisturbed>>
        /\ pc = "ready" /\ pc' = "confirm"
    BY <1>2 DEF Send, chain, ledger
  <2>3. /\ t.kind = stage
        /\ stage = "first" => t.ixs = first
        /\ stage = "add" => t.ixs \subseteq toAdd
    BY <2>1, SendsType DEF TypeInv
  <2>4. Manager' = Manager /\ FeeAccount' = FeeAccount /\ ReserveLamports' = ReserveLamports
    BY <2>2, FileStays
  <2>5. CheckedInv' /\ VerifiedInv'
    BY <2>2, <2>4 DEF CheckedInv, VerifiedInv, IsMintVerified
  <2>6. FirstInv' /\ InitInv'
    BY <2>1, <2>2, <2>3, <2>4 DEF FirstInv, InitInv
  <2>7. ASSUME stage = "add"
        PROVE  Left' = Left /\ toAdd' \cap inflight'.ixs = {}
    BY <2>1, <2>2, <2>3, <2>7 DEF Left
  <2>8. Provided' <=> Provided
    BY <2>2, <2>4 DEF Provided
  <2>9. AddInv'
    BY <2>2, <2>7, <2>8 DEF AddInv
  <2> QED  BY <2>5, <2>6, <2>9
<1>3. CASE NextStage
  <2>1. /\ UNCHANGED <<mint, reserve, accounts, pool, current, file, foundReserve, first,
                       toAdd, undisturbed>>
        /\ pc = "ready" /\ Transactions = {}
    BY <1>3 DEF NextStage, chain, ledger
  <2>2. CASE stage = "end"
    <3>1. pc' \in Ended
      BY <1>3, <2>2 DEF NextStage, Ended
    <3> QED  BY <3>1, EndedPrepared
  <2>3. CASE stage = "first"
    <3>1. stage' = "init" /\ pc' = "ready" /\ first = {}
      BY <1>3, <2>3 DEF NextStage, After, Transactions
    <3>2. Manager' = Manager /\ FeeAccount' = FeeAccount
      BY <2>1, FileStays
    <3>3. CheckedInv' /\ VerifiedInv'
      BY <2>1, <2>3, <3>1, <3>2 DEF CheckedInv, VerifiedInv, IsMintVerified
    <3>4. InitInv'
      BY <2>1, <2>3, <3>1, <3>2 DEF FirstInv, InitInv
    <3> QED  BY <3>1, <3>3, <3>4 DEF FirstInv, AddInv
  <2>4. CASE stage \notin {"first", "end"}
    <3>1. pc' = "ready" /\ stage' \notin {"first", "init", "add"}
      BY <1>3, <2>4, BeyondInit DEF NextStage, After, TypeInv, TypeOK
    <3>2. CheckedInv'
      BY <2>1, <3>1 DEF CheckedInv
    <3> QED  BY <3>1, <3>2 DEF VerifiedInv, FirstInv, InitInv, AddInv
  <2> QED  BY <2>2, <2>3, <2>4
<1> QED  BY <1>1, <1>2, <1>3 DEF Step

\* A transaction that lands leaves its run prepared for the next one.
LEMMA LandingPrepares ==
    ASSUME TypeInv, SentInv, StageInv, PreparedInv, undisturbed, Confirm
    PROVE  PreparedInv'
<1> USE DEF PreparedInv
<1>1. PICK t : t = inflight
  OBVIOUS
<1>2. pc = "confirm"
  BY DEF Confirm
<1>3. /\ UNCHANGED <<file, foundReserve, first, undisturbed>> /\ pc' = "ready" /\ Land(t)
      /\ TxInv(t) /\ t.kind = stage
      /\ stage' = IF stage = "add" THEN stage ELSE After(stage)
      /\ toAdd' = IF stage = "init" THEN file.validators ELSE toAdd
  BY <1>1 DEF Confirm, SentInv
<1>4. Manager' = Manager /\ FeeAccount' = FeeAccount /\ ReserveLamports' = ReserveLamports
  BY <1>3, FileStays
<1>5. CheckedInv'
  <2>1. current => current'
    BY <1>3, LandType
  <2> QED  BY <1>2, <1>3, <2>1 DEF CheckedInv
<1>6. CASE stage = "first"
  <2>1. LandFirst(t) /\ stage' = "init"
    BY <1>3, <1>6 DEF After, Land, LandInit, LandAdd, LandPrefer, LandSync
  <2>2. /\ mint' = mint
        /\ reserve' = IF "reserve" \in t.ixs
                      THEN [authority |-> "pool", lamports |-> ReserveLamports] ELSE reserve
        /\ accounts' = accounts \cup (IF "fee_account" \in t.ixs THEN {FeeAccount} ELSE {})
    BY <2>1 DEF LandFirst
  <2>3. VerifiedInv'
    BY <1>2, <1>4, <1>6, <2>2 DEF VerifiedInv, IsMintVerified
  <2>4. /\ reserve = foundReserve
        /\ "reserve" \in t.ixs <=> reserve = None
        /\ reserve # None => reserve.authority = "pool"
        /\ FeeAccount \in accounts \/ "fee_account" \in t.ixs
    BY <1>1, <1>2, <1>6 DEF FirstInv
  <2>5. [authority |-> "pool", lamports |-> ReserveLamports] # None
    <3>1. ReserveLamports \in Nat
      BY CountIs, CreateConstants DEF ReserveLamports, TypeInv, TypeOK, File
    <3> QED  BY <3>1, CreateConstants
  <2>6. InitInv'
    BY <1>3, <1>4, <2>2, <2>4, <2>5 DEF InitInv
  <2> QED  BY <1>5, <2>1, <2>3, <2>6 DEF FirstInv, AddInv
<1>7. CASE stage = "init"
  <2>1. LandInit(t) /\ stage' = "add" /\ toAdd' = file.validators /\ t.ixs = InitArgs
    BY <1>3, <1>7 DEF After, Land, LandFirst, LandAdd, LandPrefer, LandSync, TxInv
  <2>2. reserve' = reserve /\ pool'.list = {}
    BY <2>1, InitializedIs DEF LandInit, TypeInv, TypeOK
  <2>3. Left' = file.validators
    BY <1>3, <2>1 DEF Left
  <2>4. ASSUME Provided'
        PROVE  reserve.lamports >= ReserveLamports
    <3>1. ReserveLamports \in Nat
      BY CountIs, CreateConstants DEF ReserveLamports, TypeInv, TypeOK, File
    <3>2. foundReserve # None => foundReserve.lamports >= ReserveLamports
      BY <1>3, <1>4, <2>4 DEF Provided
    <3> QED  BY <1>2, <1>7, <3>1, <3>2 DEF InitInv
  <2>5. AddInv'
    BY <1>3, <2>1, <2>2, <2>3, <2>4 DEF AddInv, ReserveLamports
  <2> QED  BY <1>3, <1>5, <2>1, <2>5 DEF VerifiedInv, FirstInv, InitInv
<1>8. CASE stage = "add"
  <2> DEFINE sent == t.ixs
  <2>1. LandAdd(t) /\ stage' = "add" /\ toAdd' = toAdd
    BY <1>3, <1>8 DEF Land, LandFirst, LandInit, LandPrefer, LandSync
  <2>2. pool \in Pool /\ reserve \in [authority : {"pool", "other"}, lamports : Nat]
    BY <1>2, <1>8 DEF TypeInv, TypeOK, PoolInv, StageInv, Reserve
  <2>3. pool'.list = pool.list \cup sent
        /\ reserve'.lamports = reserve.lamports - Cardinality(sent) * NewVsa
    BY <2>1, <2>2 DEF LandAdd, Pool
  <2>4. toAdd \subseteq Votes /\ sent \subseteq Votes
    BY <1>3, <1>8 DEF TypeInv, TypeOK, TxInv, File
  <2>5. Left = toAdd \cup sent /\ Left' = toAdd
    BY <1>1, <1>2, <1>3, <2>1 DEF Left
  <2>6. pool.list \cap Left = {} /\ toAdd \cap sent = {}
    BY <1>1, <1>2, <1>8 DEF AddInv
  <2>7. Cardinality(Left) * NewVsa = Cardinality(toAdd) * NewVsa + Cardinality(sent) * NewVsa
    BY <2>4, <2>5, <2>6, SplitIs
  <2>8. /\ Cardinality(Left) * NewVsa \in Nat /\ Cardinality(toAdd) * NewVsa \in Nat
        /\ Cardinality(sent) * NewVsa \in Nat /\ MinReserve \in Nat
    BY <2>4, <2>5, CountIs, CreateConstants
  <2>9. ASSUME Provided'
        PROVE  reserve'.lamports >= MinReserve + Cardinality(toAdd) * NewVsa
    <3>1. Provided
      BY <1>3, <1>4, <2>9 DEF Provided
    <3>2. reserve.lamports >= MinReserve + Cardinality(Left) * NewVsa
      BY <1>2, <1>8, <3>1 DEF AddInv
    <3> QED  BY <2>2, <2>3, <2>7, <2>8, <3>2
  <2> HIDE DEF sent
  <2>10. pool'.list \cap toAdd = {}
    BY <2>3, <2>5, <2>6
  <2>11. AddInv'
    BY <1>3, <2>5, <2>9, <2>10 DEF AddInv
  <2> QED  BY <1>3, <1>5, <2>1, <2>11 DEF VerifiedInv, FirstInv, InitInv
<1>9. CASE stage \in {"prefer", "sync"}
  <2>1. stage' \in {"sync", "end"}
    BY <1>3, <1>9 DEF After
  <2> QED  BY <1>3, <1>5, <2>1 DEF VerifiedInv, FirstInv, InitInv, AddInv
<1> QED  BY <1>3, <1>6, <1>7, <1>8, <1>9 DEF TxInv

\* Nothing that happens around a run takes away what it has prepared, or it has been disturbed.
LEMMA PreparedStep ==
    ASSUME TypeInv, SentInv, LateInv, StageInv, PreparedInv, [LifecycleNext]_vars
    PROVE  PreparedInv'
<1>1. CASE Crash \/ AbortTx \/ LoseTx \/ LandLate \/ AdvanceEpoch
  BY <1>1, EndedPrepared DEF Crash, AbortTx, LoseTx, LandLate, AdvanceEpoch, Ended
<1>2. CASE SyncPool \/ SyncValidatorList
  BY <1>2, EndedPrepared
     DEF SyncPool, CanSyncPool, SyncValidatorList, Created, ByHand, command
<1>3. CASE DropLate \/ UpdatePool \/ UNCHANGED vars
  <2>1. /\ UNCHANGED <<mint, reserve, accounts, inflight, file, pc, stage, foundReserve, first,
                       toAdd, undisturbed>>
        /\ current => current'
    BY <1>3 DEF DropLate, UpdatePool, vars, chain, ledger, command
  <2>2. pool # None => pool'.list = pool.list
    BY <1>3 DEF DropLate, UpdatePool, vars, chain, ledger, TypeInv, TypeOK, Pool
  <2>3. /\ Manager' = Manager /\ FeeAccount' = FeeAccount /\ ReserveLamports' = ReserveLamports
        /\ Left' = Left
    BY <2>1, FileStays DEF Left
  <2>4. Provided' <=> Provided
    BY <2>1, <2>3 DEF Provided
  <2>5. undisturbed => CheckedInv'
    BY <2>1 DEF PreparedInv, CheckedInv
  <2>6. undisturbed => VerifiedInv' /\ FirstInv' /\ InitInv'
    BY <2>1, <2>3 DEF PreparedInv, VerifiedInv, FirstInv, InitInv, IsMintVerified
  <2>7. undisturbed => AddInv'
    BY <2>1, <2>2, <2>3, <2>4 DEF PreparedInv, AddInv, StageInv
  <2> QED  BY <2>1, <2>5, <2>6, <2>7 DEF PreparedInv
<1>4. CASE Confirm \/ Step
  <2>1. undisturbed' = undisturbed
    BY <1>4 DEF Confirm, Step, FetchAccounts, Send, NextStage
  <2>2. undisturbed \in BOOLEAN
    BY DEF TypeInv, TypeOK
  <2> QED  BY <1>4, <2>1, <2>2, CommandPrepares, LandingPrepares, EndedPrepared
<1> QED
  BY <1>1, <1>2, <1>3, <1>4, StartPrepares DEF LifecycleNext, Next, Runtime

-----------------------------------------------------------------------------
(* Within an epoch no transaction of a run is rejected.                    *)

\* The higher of two fees is at least each of them.
LEMMA HigherIs ==
    ASSUME NEW f \in Fees, NEW g \in Fees
    PROVE  AtMost(f, Higher(f, g)) /\ AtMost(g, Higher(f, g))
<1>1. /\ f.numerator \in Nat /\ f.denominator \in Nat
      /\ g.numerator \in Nat /\ g.denominator \in Nat
  BY SettingsConstants
<1>2. /\ f.numerator * g.denominator \in Nat /\ g.numerator * f.denominator \in Nat
      /\ f.numerator * f.denominator \in Nat /\ g.numerator * g.denominator \in Nat
  <2>1. \A m, n \in Nat : m * n \in Nat
    OBVIOUS
  <2> QED  BY <1>1, <2>1
<1>3. AtMost(f, f) /\ AtMost(g, g)
  BY <1>2 DEF AtMost
<1>4. AtMost(f, g) \/ AtMost(g, f)
  <2> DEFINE x == f.numerator * g.denominator
             y == g.numerator * f.denominator
  <2>1. x <= y \/ y <= x
    BY <1>2
  <2> HIDE DEF x, y
  <2>2. /\ AtMost(f, g) <=> IsZero(f) \/ (~IsZero(g) /\ x <= y)
        /\ AtMost(g, f) <=> IsZero(g) \/ (~IsZero(f) /\ y <= x)
    BY DEF AtMost, x, y
  <2> QED  BY <2>1, <2>2
<1> QED  BY <1>3, <1>4 DEF Higher

\* The dummy's withdrawal fees are not below the file's, which is why the program takes them.
LEMMA DummyFees ==
    ASSUME file \in File, NEW f \in WithdrawalFees
    PROVE  AtMost(SyncTarget.fee[f], Dummy.fee[f])
<1>1. {"SolWithdrawal", "StakeWithdrawal"} \subseteq FeeTypes
      /\ f \in {"SolWithdrawal", "StakeWithdrawal"} /\ f # "Epoch"
  BY DEF FeeTypes, DelayedFees, WithdrawalFees
<1>2. SyncTarget.fee[f] = FeeOf(f)
  BY <1>1 DEF SyncTarget
<1>3. Dummy.fee[f] = Higher(FeeOf("StakeWithdrawal"), FeeOf("SolWithdrawal"))
  <2>1. Dummy.fee[f] = InitArgs.withdrawal
    BY <1>1 DEF Dummy, SpreadFees
  <2> QED  BY <2>1 DEF InitArgs
<1>4. FeeOf("SolWithdrawal") \in Fees /\ FeeOf("StakeWithdrawal") \in Fees
  BY <1>1, FileIs
<1> QED  BY <1>1, <1>2, <1>3, <1>4, HigherIs

\* A fee that is not above 100% where the file names it is nowhere.
LEMMA WithinAll ==
    ASSUME file \in File, FeesWithinAll
    PROVE  /\ \A f \in FeeTypes : ~TooHigh(SyncTarget.fee[f])
           /\ \A x \in {InitArgs.epoch, InitArgs.deposit, InitArgs.withdrawal, InitArgs.referral} :
                 ~TooHigh(x)
<1>1. \A f \in FeeTypes : ~TooHigh(FeeOf(f))
  BY CreateConstants DEF FeesWithinAll, FeeOf, Or
<1>2. \A f, g \in FeeTypes : ~TooHigh(Higher(FeeOf(f), FeeOf(g)))
  BY <1>1 DEF Higher
<1>3. {"Epoch", "StakeDeposit", "SolDeposit", "StakeWithdrawal", "SolWithdrawal", "SolReferral",
       "StakeReferral"} \subseteq FeeTypes
  BY DEF FeeTypes, DelayedFees, WithdrawalFees
<1>4. /\ InitArgs.epoch = FeeOf("Epoch")
      /\ InitArgs.deposit = Higher(FeeOf("StakeDeposit"), FeeOf("SolDeposit"))
      /\ InitArgs.withdrawal = Higher(FeeOf("StakeWithdrawal"), FeeOf("SolWithdrawal"))
      /\ InitArgs.referral = Higher(FeeOf("SolReferral"), FeeOf("StakeReferral"))
  BY DEF InitArgs
<1>5. \A f \in FeeTypes : SyncTarget.fee[f] = FeeOf(f)
  BY DEF SyncTarget
<1> QED  BY <1>1, <1>2, <1>3, <1>4, <1>5

\* The sync, planned from the dummy, is accepted by an updated pool that is like it.
LEMMA SyncGoes ==
    ASSUME file \in File, pool.settings \in Settings, Alike(pool.settings, Dummy), current,
           FeesWithinAll
    PROVE  Synced(Changeset(SyncTarget, Dummy)).ok
<1> DEFINE p == pool.settings
<1>1. p.manager = Manager
  BY DummyType DEF Alike
<1>2. Synced(Changeset(SyncTarget, Dummy))
        = PerformAll(p, p.manager, current, SyncTarget, Changeset(SyncTarget, Dummy))
  BY <1>1 DEF Synced
<1>3. ASSUME NEW f \in WithdrawalFees
      PROVE  p.fee[f] = Dummy.fee[f]
  <2>1. f \in FeeTypes /\ f \in DelayedFees
    BY DEF FeeTypes, DelayedFees
  <2>2. Coming(Dummy, f) = Dummy.fee[f]
    BY <2>1 DEF Coming, Dummy
  <2> QED  BY <2>1, <2>2 DEF Alike
<1> HIDE DEF p
<1>4. p \in Settings
  BY DEF p
<1>5. PICK u : u = current
  OBVIOUS
<1>6. ASSUME NEW f \in FeeTypes,
             \/ TooHigh(SyncTarget.fee[f])
             \/ f \in DelayedFees /\ ~u
             \/ f \in WithdrawalFees /\ ~AtMost(SyncTarget.fee[f], p.fee[f])
      PROVE  FALSE
  BY <1>3, <1>5, <1>6, DummyFees, WithinAll
<1>7. SyncTarget \in Target
  BY DummyType
<1>8. PerformAll(p, p.manager, u, SyncTarget, Changeset(SyncTarget, Dummy)).ok
  BY <1>4, <1>6, <1>7, Refused
<1> QED  BY <1>2, <1>5, <1>8

\* The validators of a chunk fit into the list and are paid for.
LEMMA AddGoes ==
    ASSUME TypeInv, SentInv, StageInv, PreparedInv, undisturbed, Provided,
           pc = "confirm", stage = "add"
    PROVE  CanAdd(inflight.ixs)
<1> DEFINE sent == inflight.ixs
<1>1. sent \subseteq file.validators
  BY DEF SentInv, TxInv
<1>2. pool \in Pool /\ pool # None /\ pool.max = file.max_validators
      /\ reserve \in [authority : {"pool", "other"}, lamports : Nat]
  BY DEF TypeInv, TypeOK, PoolInv, StageInv, Reserve
<1>3. pool.settings.staker = Manager /\ file.validators = pool.list \cup Left
  BY DEF StageInv, Alike, Dummy, InitArgs
<1>4. /\ current /\ Cardinality(file.validators) <= file.max_validators
      /\ pool.list \cap Left = {} /\ toAdd \cap sent = {}
      /\ reserve.lamports >= MinReserve + Cardinality(Left) * NewVsa
  BY DEF PreparedInv, CheckedInv, AddInv
<1>5. Left = toAdd \cup sent /\ toAdd \subseteq Votes /\ sent \subseteq Votes
      /\ file.validators \subseteq Votes /\ file.max_validators \in Nat
  BY <1>1 DEF Left, TypeInv, TypeOK, File
<1> HIDE DEF sent
<1>6. sent \cap pool.list = {} /\ pool.list \cup sent \subseteq file.validators
  BY <1>3, <1>4, <1>5
<1>7. Cardinality(pool.list \cup sent) <= pool.max
  <2>1. IsFiniteSet(file.validators) /\ Cardinality(file.validators) \in Nat
    BY <1>5, CountIs
  <2>2. /\ Cardinality(pool.list \cup sent) <= Cardinality(file.validators)
        /\ IsFiniteSet(pool.list \cup sent)
    BY <1>6, <2>1, FS_Subset
  <2>3. Cardinality(pool.list \cup sent) \in Nat
    BY <2>2, FS_CardinalityType
  <2> QED  BY <1>2, <1>4, <1>5, <2>1, <2>2, <2>3
<1>8. reserve.lamports >= MinReserve + Cardinality(sent) * NewVsa
  <2>1. Cardinality(Left) * NewVsa = Cardinality(toAdd) * NewVsa + Cardinality(sent) * NewVsa
    BY <1>4, <1>5, SplitIs
  <2>2. /\ Cardinality(Left) * NewVsa \in Nat /\ Cardinality(toAdd) * NewVsa \in Nat
        /\ Cardinality(sent) * NewVsa \in Nat /\ MinReserve \in Nat
    BY <1>5, CountIs, CreateConstants
  <2> QED  BY <1>2, <1>4, <2>1, <2>2
<1> QED  BY <1>2, <1>3, <1>4, <1>6, <1>7, <1>8 DEF CanAdd, sent

\* The pool can be initialized.
LEMMA InitGoes ==
    ASSUME TypeInv, PreparedInv, undisturbed, Provided, FeesWithinAll,
           pc = "confirm", stage = "init"
    PROVE  CanInit(InitArgs)
<1>0. file \in File /\ Manager # "pool"
  BY ManagerIsKey DEF TypeInv, TypeOK
<1>1. pool = None /\ IsMintVerified /\ FeeAccount \in accounts
      /\ reserve # None /\ reserve.authority = "pool"
  BY <1>0 DEF TypeInv, PoolInv, PreparedInv, VerifiedInv, IsMintVerified, InitInv
<1>2. InitArgs.manager = Manager /\ InitArgs.feeAccount = FeeAccount
  BY DEF InitArgs
<1>3. reserve.lamports >= ReserveLamports
  <2>1. ReserveLamports \in Nat
    BY CountIs, CreateConstants DEF ReserveLamports, TypeInv, TypeOK, File
  <2> QED  BY <2>1 DEF PreparedInv, InitInv, Provided
<1>4. reserve.lamports >= MinReserve
  <2>1. Cardinality(file.validators) * NewVsa \in Nat /\ MinReserve \in Nat
    BY CountIs, CreateConstants DEF TypeInv, TypeOK, File
  <2>2. reserve.lamports \in Nat
    BY <1>1 DEF TypeInv, TypeOK, Reserve
  <2> QED  BY <1>3, <2>1, <2>2 DEF ReserveLamports
<1> QED  BY <1>0, <1>1, <1>2, <1>4, WithinAll DEF CanInit, IsMintVerified

\* The program has no reason to reject a run's transaction in an epoch that lasts.
LEMMA NotRejected ==
    ASSUME TypeInv, SentInv, StageInv, PreparedInv, undisturbed, Provided, FeesWithinAll,
           {file.deposit, file.withdraw} \subseteq file.validators \cup {None},
           AbortTx
    PROVE  FALSE
<1>1. pc = "confirm" /\ inflight.kind = stage /\ file \in File /\ TxInv(inflight)
  BY DEF AbortTx, SentInv, TypeInv, TypeOK
<1>2. CASE stage = "first"
  BY <1>1, <1>2 DEF AbortTx, PreparedInv, FirstInv
<1>3. CASE stage = "init"
  <2>1. inflight.ixs = InitArgs
    BY <1>1, <1>3 DEF TxInv
  <2> QED  BY <1>1, <1>3, <2>1, InitGoes DEF AbortTx
<1>4. CASE stage = "add"
  BY <1>1, <1>4, AddGoes DEF AbortTx
<1>5. CASE stage = "prefer"
  <2>1. inflight.ixs = Preferences
    BY <1>1, <1>5 DEF TxInv
  <2>2. pool # None /\ pool.settings.staker = Manager /\ pool.list = file.validators
    BY <1>1, <1>5 DEF StageInv, Alike, Dummy, InitArgs
  <2>3. \A p \in Preferences : file[p] \in pool.list
    BY <2>2 DEF Preferences
  <2> QED  BY <1>1, <1>5, <2>1, <2>2, <2>3 DEF AbortTx, CanPrefer
<1>6. CASE stage = "sync"
  <2>1. inflight.ixs = Changeset(SyncTarget, Dummy)
    BY <1>1, <1>6 DEF TxInv
  <2>2. pool.settings \in Settings /\ Alike(pool.settings, Dummy) /\ current
    BY <1>1, <1>6 DEF StageInv, TypeInv, TypeOK, Pool, PreparedInv, CheckedInv
  <2> QED  BY <1>1, <1>6, <2>1, <2>2, SyncGoes DEF AbortTx
<1> QED  BY <1>1, <1>2, <1>3, <1>4, <1>5, <1>6 DEF TxInv

\* So none is, unless an epoch begins or something of a dead run lands.
LEMMA UndisturbedStep ==
    ASSUME TypeInv, SentInv, LateInv, StageInv, PreparedInv, UndisturbedCreateSucceeds,
           [LifecycleNext]_vars
    PROVE  UndisturbedCreateSucceeds'
<1>1. CASE FetchMint \/ Step \/ Crash \/ Confirm \/ LoseTx
  <2>1. pc' # "rejected"
    BY <1>1 DEF FetchMint, Step, FetchAccounts, Send, NextStage, Crash, Confirm, LoseTx
  <2> QED  BY <2>1 DEF UndisturbedCreateSucceeds
<1>2. CASE AbortTx
  <2>1. undisturbed' = undisturbed /\ UNCHANGED <<file, foundReserve>>
    BY <1>2 DEF AbortTx
  <2>2. ReserveLamports' = ReserveLamports /\ (FeesWithinAll' <=> FeesWithinAll)
    BY <2>1, FileStays DEF FeesWithinAll
  <2> QED  BY <1>2, <2>1, <2>2, NotRejected DEF UndisturbedCreateSucceeds, Provided
<1>3. CASE LandLate \/ AdvanceEpoch
  BY <1>3 DEF LandLate, AdvanceEpoch, UndisturbedCreateSucceeds
<1>4. CASE DropLate \/ UpdatePool \/ SyncPool \/ SyncValidatorList \/ UNCHANGED vars
  <2>1. UNCHANGED <<file, foundReserve, pc, undisturbed>>
    BY <1>4 DEF DropLate, UpdatePool, SyncPool, SyncValidatorList, ByHand, vars, command
  <2>2. ReserveLamports' = ReserveLamports /\ (FeesWithinAll' <=> FeesWithinAll)
    BY <2>1, FileStays DEF FeesWithinAll
  <2> QED  BY <2>1, <2>2 DEF UndisturbedCreateSucceeds
<1> QED  BY <1>1, <1>2, <1>3, <1>4 DEF LifecycleNext, Next, Runtime

-----------------------------------------------------------------------------
(* The theorems.                                                           *)

\* The initial states are as they should be: nothing has been run, and there is no pool.
LEMMA InvariantInit == Init => Invariant
<1>1. Init => TypeInv
  BY TypeInit
<1>2. Init => /\ SentInv /\ LateInv /\ StageInv /\ PreparedInv /\ UndisturbedCreateSucceeds
  BY DEF Init, SentInv, LateInv, StageInv, PreparedInv, UndisturbedCreateSucceeds
<1> QED  BY <1>1, <1>2 DEF Invariant

\* And every step leaves them so.
LEMMA InvariantNext == Invariant /\ [LifecycleNext]_vars => Invariant'
<1> SUFFICES ASSUME Invariant, [LifecycleNext]_vars
             PROVE  Invariant'
  OBVIOUS
<1>1. TypeInv' /\ SentInv' /\ LateInv'
  BY TypeStep, SentStep, LateStep DEF Invariant
<1>2. StageInv' /\ PreparedInv' /\ UndisturbedCreateSucceeds'
  BY StageStep, PreparedStep, UndisturbedStep DEF Invariant
<1> QED  BY <1>1, <1>2 DEF Invariant

\* No step of a transaction in flight gives the staker role away too early.
LEMMA HandoverStep ==
    ASSUME Invariant, [LifecycleNext]_vars, <<inflight, late>>' # <<inflight, late>>,
           pool' \notin {None, pool}, pool'.settings.staker # Manager
    PROVE  /\ pool'.list = file.validators
           /\ pool'.deposit = file.deposit /\ pool'.withdraw = file.withdraw
<1>0. TypeInv /\ SentInv /\ LateInv
  BY DEF Invariant
<1>1. CASE FetchMint \/ Step \/ Crash \/ AbortTx \/ LoseTx
  BY <1>0, <1>1, RunType DEF Step, Steady
<1>2. CASE Confirm
  <2>1. PICK t : t = inflight
    OBVIOUS
  <2>2. Land(t) /\ TxInv(t) /\ file' = file
    BY <1>0, <1>2, <2>1 DEF Confirm, SentInv
  <2> QED  BY <1>0, <2>2, LandHandover
<1>3. CASE LandLate
  <2>1. PICK t \in late : Land(t) /\ TxInv(t) /\ file' = file
    BY <1>0, <1>3 DEF LandLate, LateInv, command
  <2> QED  BY <1>0, <2>1, LandHandover
<1>4. CASE DropLate \/ AdvanceEpoch \/ UNCHANGED vars
  BY <1>4 DEF DropLate, AdvanceEpoch, vars, chain, ledger
<1>5. CASE UpdatePool \/ SyncPool \/ SyncValidatorList
  BY <1>5 DEF UpdatePool, SyncPool, SyncValidatorList, ByHand, command
<1> QED  BY <1>1, <1>2, <1>3, <1>4, <1>5 DEF LifecycleNext, Next, Runtime

\* Whatever a creation dies of, however it is finished and however late what it had sent
\* lands, none of its transactions gives the staker role away before the validators are listed
\* and the preferred ones set: the order of the stages in create_pool.rs, with the staker of
\* Initialize.
THEOREM HandoverCorrect == LifecycleSpec => HandoverLast
<1>1. Invariant /\ [LifecycleNext]_vars =>
        [UNCHANGED <<inflight, late>> \/ pool' \in {None, pool} \/ pool'.settings.staker = Manager
         \/ /\ pool'.list = file.validators
            /\ pool'.deposit = file.deposit /\ pool'.withdraw = file.withdraw]_vars
  BY HandoverStep
<1> QED  BY <1>1, InvariantInit, InvariantNext, PTL DEF LifecycleSpec, HandoverLast

\* Every variable has its type in every state; in particular no chunk of validators, of the
\* creation or of the sync that finishes it, overdraws the reserve.
THEOREM TypeCorrect == LifecycleSpec => []TypeOK
<1>1. Invariant => TypeOK
  BY DEF Invariant, TypeInv
<1> QED  BY <1>1, InvariantInit, InvariantNext, PTL DEF LifecycleSpec

\* A creation that reports success has made the pool of its file, for every file, although
\* the settings are planned against a dummy: the dummy is the pool that Initialize makes, and
\* time alone changes it until the sync.
THEOREM CreatedCorrect == LifecycleSpec => []CreatedAsConfigured
<1>1. Invariant => CreatedAsConfigured
  BY DEF Invariant, StageInv, CreatedAsConfigured, ListAsConfigured
<1> QED  BY <1>1, InvariantInit, InvariantNext, PTL DEF LifecycleSpec

\* Within one epoch, with nothing of a dead run in between, no transaction of a creation is
\* rejected, whatever the number of the validators, the size of the chunks and the fees, none
\* above 100%: a reserve that was made for the file's validators pays for all of them, the
\* list has room, the pool is up to date and no withdrawal fee goes up.
THEOREM UndisturbedCreateCorrect == LifecycleSpec => []UndisturbedCreateSucceeds
<1>1. Invariant => UndisturbedCreateSucceeds
  BY DEF Invariant
<1> QED  BY <1>1, InvariantInit, InvariantNext, PTL DEF LifecycleSpec

=============================================================================
