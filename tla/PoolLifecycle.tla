---------------------------- MODULE PoolLifecycle ----------------------------
(***************************************************************************)
(* What becomes of a creation that dies: create-pool cannot be run again   *)
(* once the pool is initialized, and the manager finishes the work with    *)
(* the same file and the two sync commands, `splsp sync-pool` and          *)
(* `splsp sync-validator-list`.  CreatePool is the creation in full; the   *)
(* two commands, which SyncPool and SyncValidatorList model in full, are   *)
(* one step each, for nobody else has an interest in a pool half made.     *)
(*                                                                         *)
(* Code:     CreatePool with subcmd/sync_pool.rs and                       *)
(*           subcmd/sync_validator_list.rs.                                *)
(***************************************************************************)
EXTENDS CreatePool

\* The creation is over and its pool is there; something it sent may be in flight still.
Created == pool # None /\ pc \in Ended

\* Everything but the pool and, perhaps, the reserve.
ByHand == UNCHANGED <<mint, accounts, late, losses, command, undisturbed>>

-----------------------------------------------------------------------------
(* sync-pool: what the file leaves out stays as it is in the pool.         *)

FinalTarget(p) ==
    [manager |-> Manager, staker |-> Or(file.staker, p.staker),
     feeAccount |-> Or(file.feeAccount, p.feeAccount), auth |-> file.auth,
     fee |-> [f \in FeeTypes |-> Or(file.fee[f], p.fee[f])]]

FinalChanges == Changeset(FinalTarget(pool.settings), pool.settings)
AfterChanges ==
    PerformAll(pool.settings, Payer, current, FinalTarget(pool.settings), FinalChanges)

CanSyncPool ==
    /\ Created /\ pool.settings.manager = Payer   \* "Wrong manager" otherwise
    /\ FinalChanges # <<>> /\ AfterChanges.ok

SyncPool ==
    /\ CanSyncPool
    /\ pool' = [pool EXCEPT !.settings = AfterChanges.settings]
    /\ UNCHANGED <<reserve, current>>
    /\ ByHand

-----------------------------------------------------------------------------
(* sync-validator-list: signed by the staker of the file or the payer.     *)

\* Mutant: the manager signs, as in the creation.
ManagerSigns == Manager

\* The staker of the file is a keypair here; a public key would be passed over for the payer.
ListSigner == Or(file.staker, Payer)

ListAsConfigured ==
    /\ pool.list = file.validators
    /\ pool.deposit = file.deposit /\ pool.withdraw = file.withdraw

CanSyncList ==
    /\ pool.settings.staker = ListSigner
    /\ ~ListAsConfigured
    /\ Cardinality(file.validators) <= pool.max
    /\ {file.deposit, file.withdraw} \subseteq file.validators \cup {None}
    /\ reserve.lamports >= MinReserve + Cardinality(file.validators \ pool.list) * NewVsa

Updated == IF current THEN pool.settings ELSE NextEpoch(pool.settings)

\* The pool is updated before the command knows what there is to change, and whether it may.
SyncValidatorList ==
    /\ Created
    /\ current' = TRUE
    /\ \/ /\ CanSyncList
          /\ pool' = [pool EXCEPT !.list = file.validators, !.settings = Updated,
                                  !.deposit = file.deposit, !.withdraw = file.withdraw]
          /\ reserve' = [reserve EXCEPT !.lamports =
                             @ - Cardinality(file.validators \ pool.list) * NewVsa]
       \/ /\ ~CanSyncList
          /\ pool' = [pool EXCEPT !.settings = Updated]
          /\ UNCHANGED reserve
    /\ ByHand

-----------------------------------------------------------------------------

LifecycleNext == Next \/ SyncPool \/ SyncValidatorList

\* The manager runs the two commands as long as they have something to do, and sync-pool
\* sooner or later between an update and the end of the epoch: that formula is
\* SF_vars(SyncPool) with ENABLED written out, which TLC would take too long to find.
LifecycleFairness ==
    /\ Fairness
    /\ []<>CanSyncPool => []<><<SyncPool>>_vars
    /\ WF_vars(SyncValidatorList)

LifecycleSpec == Init /\ [][LifecycleNext]_vars /\ LifecycleFairness

-----------------------------------------------------------------------------
(* Properties.                                                             *)

\* Nothing that the file and the chain hold keeps the pool from being initialized.
CanBeInitialized ==
    /\ IsMintVerified /\ Cardinality(file.validators) <= file.max_validators
    /\ reserve # None => reserve.authority = "pool" /\ reserve.lamports >= MinReserve
    /\ FeeAccount \in accounts \cup {FeeAta}
    /\ FeesWithinAll

\* A run that dies before the pool is initialized can be repeated until it is: what it left
\* behind is found and used.
EventuallyInitialized == CanBeInitialized => <>(pool # None)

\* What the file names is what the pool has, or will have once the delays are over.
AsConfigured ==
    /\ pool # None /\ ListAsConfigured
    /\ pool.settings.manager = Manager
    /\ file.staker # Unset => pool.settings.staker = file.staker
    /\ file.feeAccount # Unset => pool.settings.feeAccount = file.feeAccount
    /\ \A a \in FundingTypes : Authority(pool.settings, a) = Authority(file, a)
    /\ \A f \in FeeTypes : file.fee[f] # Unset => SameFee(Coming(pool.settings, f), file.fee[f])

\* Whatever a creation dies of and whenever, create-pool, sync-pool and sync-validator-list
\* with the same file bring the pool to what it says, given a reserve that can pay for the
\* validators and a manager who is the payer.
EventuallyAsConfigured ==
    /\ CanBeInitialized /\ Manager = Payer
    /\ reserve # None => reserve.lamports >= ReserveLamports
    /\ {file.deposit, file.withdraw} \subseteq file.validators \cup {None}
    => <>[]AsConfigured

=============================================================================
