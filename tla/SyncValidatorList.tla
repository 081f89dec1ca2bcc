-------------------------- MODULE SyncValidatorList --------------------------
(***************************************************************************)
(* `splsp sync-validator-list`: makes the validator list of a pool match   *)
(* the config.  The run fetches pool and list, brings the pool up to date, *)
(* and then works from the list it fetched BEFORE the update: validators   *)
(* to remove get a decrease (when there is stake to move out) and a        *)
(* removal, then missing validators are added, then the two preferred      *)
(* validators are set.  The instructions go out in chunks, so a run that   *)
(* dies leaves the work half done, even for one validator.                 *)
(*                                                                         *)
(* Code:     pool_config/sync_validator_list.rs,                           *)
(*           subcmd/sync_validator_list.rs.                                *)
(* External: the stake pool program and other users.  update_pool, which   *)
(* UpdatePool models in full, is one step here.                            *)
(***************************************************************************)
EXTENDS Integers, Sequences, FiniteSets, SequencesExt

CONSTANTS
    Votes,          \* vote accounts
    None,           \* no preferred validator
    Configs,        \* what the config file may ask for
    InitialPools,   \* pools the command may find
    NewVsa,         \* lamports_for_new_vsa
    Rent,           \* rent-exempt minimum of a stake account
    Extra,          \* stake another user deposits, a reward
    Growing,        \* validators others give stake to
    MaxRemoveIxs,   \* MAX_REMOVE_VALIDATOR_IXS_ENUM_PER_TX
    MaxAddIxs,      \* MAX_ADD_VALIDATORS_IX_PER_TX
    MaxEpoch,       \* bound: epochs that are modelled
    MaxInterference,\* bound: steps of other users
    MaxLosses       \* bound: transactions lost and processes killed

Statuses == {"Absent", "Active", "Deactivating"}

\* One entry of the validator list together with the stake accounts behind it.
Entry == [status : Statuses,
          active_stake_lamports : Nat,  \* as of the last update
          last_update_epoch : 0 .. MaxEpoch,
          vsa : Nat,                    \* lamports of the validator stake account
          live : BOOLEAN,               \* is its deactivation_epoch u64::MAX?
          activating : Nat,             \* transient stake on its way in
          since : 0 .. MaxEpoch]        \* epoch in which it was activated
Pool == [list : [Votes -> Entry], reserve : Nat,
         deposit : Votes \cup {None}, withdraw : Votes \cup {None}]
Config == [validators : SUBSET Votes, deposit : Votes \cup {None},
           withdraw : Votes \cup {None}]

NoEntry == [status |-> "Absent", active_stake_lamports |-> 0, last_update_epoch |-> 0,
            vsa |-> 0, live |-> FALSE, activating |-> 0, since |-> 0]

Ix == [kind : {"Decrease", "Remove", "Add"}, vote : Votes, amt : Nat, seed : {0}]
      \cup [kind : {"PreferDeposit", "PreferWithdraw"}, vote : Votes \cup {None},
            amt : {0}, seed : {0}]

ASSUME ListConstants ==
    /\ None \notin Votes
    /\ {NewVsa, MaxRemoveIxs, MaxAddIxs, MaxEpoch} \subseteq Nat \ {0}
    /\ {Rent, Extra, MaxInterference, MaxLosses} \subseteq Nat
    /\ Growing \subseteq Votes /\ Configs \subseteq Config /\ InitialPools \subseteq Pool
    \* The program forgets the preference for a validator that it removes.
    /\ \A p \in InitialPools : {p.deposit, p.withdraw} \subseteq
          {None} \cup {v \in Votes : p.list[v].status = "Active"}

VARIABLES
    (* the chain *)
    epoch, poolEpoch, pool,
    late,           \* transactions of killed runs, which may still be executed
    interference, losses,
    (* the command *)
    config, pc, phase,
    seen,           \* pool, epochs and list as fetched before the update
    toRemove, toAdd,
    half,           \* the validator whose decrease is emitted and removal is not
    tx,             \* the chunk: filled, then sent and waited for
    (* history *)
    undisturbed

chain   == <<epoch, poolEpoch, pool, late, interference, losses>>
command == <<config, pc, phase, seen, toRemove, toAdd, half, tx>>
vars    == <<chain, command, undisturbed>>

SatSub(a, b) == IF a > b THEN a - b ELSE 0

-----------------------------------------------------------------------------
(* The stake pool program.                                                 *)

NoPool == [list |-> [v \in Votes |-> NoEntry], reserve |-> 0,
           deposit |-> None, withdraw |-> None]
Active(p, v) == v # None /\ p.list[v].status = "Active"

Accepts(e, ix) ==
    LET p == e.pool
        v == ix.vote
    IN  /\ poolEpoch = epoch
        /\ \/ /\ ix.kind = "Decrease" /\ Active(p, v)
              /\ ix.seed \notin e.seeds
              /\ p.list[v].live /\ p.list[v].activating = 0
              /\ ix.amt >= NewVsa /\ p.list[v].vsa >= ix.amt + NewVsa
              /\ p.reserve >= 2 * Rent
           \/ /\ ix.kind = "Remove" /\ Active(p, v)
              /\ p.list[v].activating = 0
              /\ p.list[v].live => p.list[v].vsa <= NewVsa
           \/ /\ ix.kind = "Add" /\ p.list[v].status = "Absent"
              /\ p.reserve >= NewVsa + Rent
           \/ /\ ix.kind \in {"PreferDeposit", "PreferWithdraw"}
              /\ v = None \/ Active(p, v)

Effect(p, ix) ==
    LET v == ix.vote
    IN  CASE ix.kind = "Decrease" ->
               [p EXCEPT !.list[v].vsa = @ - ix.amt,
                         !.list[v].active_stake_lamports = SatSub(@, ix.amt)]
          [] ix.kind = "Remove" ->
               [p EXCEPT !.list[v].status = "Deactivating", !.list[v].live = FALSE,
                         !.deposit = IF @ = v THEN None ELSE @,
                         !.withdraw = IF @ = v THEN None ELSE @]
          [] ix.kind = "Add" ->
               [p EXCEPT !.list[v] = [NoEntry EXCEPT !.status = "Active", !.live = TRUE,
                                        !.active_stake_lamports = NewVsa, !.vsa = NewVsa,
                                        !.last_update_epoch = epoch],
                         !.reserve = @ - NewVsa]
          [] ix.kind = "PreferDeposit"  -> [p EXCEPT !.deposit = v]
          [] ix.kind = "PreferWithdraw" -> [p EXCEPT !.withdraw = v]

\* A transaction is all or nothing.  An ephemeral stake account is not cleaned up before
\* the transaction ends.
Execute(p, ixs) ==
    FoldLeft(LAMBDA e, ix :
                 IF e.ok /\ Accepts(e, ix)
                 THEN [ok    |-> TRUE, pool |-> Effect(e.pool, ix),
                       seeds |-> IF ix.kind = "Decrease" THEN e.seeds \cup {ix.seed}
                                 ELSE e.seeds]
                 ELSE [e EXCEPT !.ok = FALSE],
             [ok |-> TRUE, pool |-> p, seeds |-> {}], ixs)

CommitTx ==
    /\ pc = "confirm" /\ Execute(pool, tx).ok
    /\ pool' = Execute(pool, tx).pool
    /\ pc' = "plan" /\ tx' = <<>>
    /\ UNCHANGED <<epoch, poolEpoch, late, interference, losses, config, phase, seen,
                   toRemove, toAdd, half, undisturbed>>

AbortTx ==
    /\ pc = "confirm" /\ ~Execute(pool, tx).ok
    /\ pc' = "panicked"
    /\ UNCHANGED <<chain, config, phase, seen, toRemove, toAdd, half, tx, undisturbed>>

LoseTx ==
    /\ pc = "confirm" /\ losses < MaxLosses
    /\ losses' = losses + 1
    /\ pc' = "panicked" /\ undisturbed' = FALSE
    /\ UNCHANGED <<epoch, poolEpoch, pool, late, interference, config, phase, seen,
                   toRemove, toAdd, half, tx>>

\* What a killed run has sent is executed when nobody waits for it any more, maybe in the
\* middle of a later run,
LandLate(t) ==
    /\ t \in late /\ Execute(pool, t).ok
    /\ pool' = Execute(pool, t).pool /\ late' = late \ {t}
    /\ undisturbed' = FALSE
    /\ UNCHANGED <<epoch, poolEpoch, interference, losses, command>>

\* or it is refused, or its blockhash expires.
DropLate(t) ==
    /\ t \in late /\ late' = late \ {t}
    /\ UNCHANGED <<epoch, poolEpoch, pool, interference, losses, command, undisturbed>>

-----------------------------------------------------------------------------
(* Other users and time.                                                   *)

Others == /\ undisturbed' = FALSE
          /\ UNCHANGED <<late, losses, command>>

\* Some validators earn their stake a reward at the epoch boundary.
AdvanceEpoch ==
    /\ epoch < MaxEpoch
    /\ epoch' = epoch + 1
    /\ \E rewarded \in {{}, {v \in Growing : Active(pool, v) /\ pool.list[v].live}} :
          pool' = [pool EXCEPT !.list =
                     [v \in Votes |-> IF v \in rewarded
                                      THEN [pool.list[v] EXCEPT !.vsa = @ + Extra]
                                      ELSE pool.list[v]]]
    /\ Others /\ UNCHANGED <<poolEpoch, interference>>

Interfere ==
    /\ interference < MaxInterference
    /\ interference' = interference + 1
    /\ Others /\ UNCHANGED <<epoch, poolEpoch>>

DepositStake(v) ==
    /\ v \in Growing /\ Active(pool, v) /\ pool.list[v].live /\ poolEpoch = epoch
    /\ pool' = [pool EXCEPT !.list[v].vsa = @ + Extra,
                            !.list[v].active_stake_lamports = @ + Extra]
    /\ Interfere

\* Anyone may deactivate stake with a delinquent validator.
DeactivateDelinquent(v) ==
    /\ Active(pool, v) /\ pool.list[v].live
    /\ pool' = [pool EXCEPT !.list[v].live = FALSE]
    /\ Interfere

-----------------------------------------------------------------------------
(* The update of the pool: accounts are counted and merged, entries whose  *)
(* validator has been removed in an earlier epoch go away.                 *)

Refreshed(e) ==
    LET merged == IF e.since < epoch THEN e.activating ELSE 0
    IN  IF e.status # "Active" THEN NoEntry
        ELSE [e EXCEPT !.vsa = @ + merged,
                       !.activating = @ - merged,
                       !.active_stake_lamports = e.vsa + merged,
                       !.last_update_epoch = epoch]

-----------------------------------------------------------------------------
(* The command.                                                            *)

Ended == {"idle", "done", "panicked", "dead"}
Alive == {"fetch_list", "update", "fetch_vsas", "plan", "confirm"}

FetchPool ==
    /\ pc \in Ended
    /\ seen' = [epoch |-> epoch, poolEpoch |-> poolEpoch, list |-> NoPool.list,
                deposit |-> pool.deposit, withdraw |-> pool.withdraw]
    /\ pc' = "fetch_list" /\ phase' = "remove"
    /\ toRemove' = {} /\ toAdd' = {} /\ half' = None /\ tx' = <<>>
    /\ undisturbed' = TRUE
    /\ UNCHANGED <<chain, config>>

FetchList ==
    /\ pc = "fetch_list"
    /\ seen' = [seen EXCEPT !.list = pool.list]
    /\ pc' = "update"
    /\ UNCHANGED <<chain, config, phase, toRemove, toAdd, half, tx, undisturbed>>

\* update_pool with UpdateCtrl::IfNeeded, decided on the fetched epochs.
UpdateNotRequired ==
    /\ pc = "update" /\ seen.poolEpoch >= seen.epoch
    /\ pc' = "fetch_vsas"
    /\ UNCHANGED <<chain, config, phase, seen, toRemove, toAdd, half, tx, undisturbed>>

UpdatePool ==
    /\ pc = "update" /\ seen.poolEpoch < seen.epoch
    /\ poolEpoch' = epoch
    /\ pool' = IF poolEpoch = epoch THEN pool
               ELSE [pool EXCEPT !.list = [v \in Votes |-> Refreshed(pool.list[v])]]
    /\ pc' = "fetch_vsas"
    /\ UNCHANGED <<epoch, late, interference, losses, config, phase, seen,
                   toRemove, toAdd, half, tx, undisturbed>>

\* add_remove_changeset, and the state of the stake accounts about to be removed.
FetchVsas ==
    /\ pc = "fetch_vsas"
    /\ toAdd' = {v \in config.validators : seen.list[v].status = "Absent"}
    /\ toRemove' = {v \in Votes \ config.validators : seen.list[v].status = "Active"}
    /\ IF \E v \in toRemove' : pool.list[v].status = "Absent"
       THEN pc' = "panicked" /\ UNCHANGED seen
       ELSE /\ pc' = "plan"
            /\ seen' = [seen EXCEPT !.list =
                  [v \in Votes |-> [seen.list[v] EXCEPT !.live = pool.list[v].live]]]
    /\ UNCHANGED <<chain, config, phase, half, tx, undisturbed>>

LamportsToDecrease(v) == SatSub(seen.list[v].active_stake_lamports, NewVsa)
\* Mutant: does not ask whether the stake is already deactivated.
NeedsDecreaseAlways(v) == LamportsToDecrease(v) > 0

NeedsDecrease(v) == LamportsToDecrease(v) > 0 /\ seen.list[v].live

Emit(ixs) == tx' = tx \o ixs
Instruction(kind, v, amt) == [kind |-> kind, vote |-> v, amt |-> amt, seed |-> 0]

\* Mutant: off by one.
RoomForOneMore == pc = "plan" /\ phase = "remove" /\ Len(tx) <= MaxRemoveIxs

RoomToRemove == pc = "plan" /\ phase = "remove" /\ Len(tx) < MaxRemoveIxs

\* The pairs are flattened before they are chunked: a chunk may end between the two.
EmitDecrease(v) ==
    /\ RoomToRemove /\ half = None
    /\ v \in toRemove /\ NeedsDecrease(v)
    /\ half' = v
    /\ Emit(<<Instruction("Decrease", v, LamportsToDecrease(v))>>)
    /\ UNCHANGED <<chain, config, pc, phase, seen, toRemove, toAdd, undisturbed>>

EmitRemove(v) ==
    /\ RoomToRemove /\ v \in toRemove
    /\ \/ half = v
       \/ half = None /\ ~NeedsDecrease(v)
    /\ toRemove' = toRemove \ {v} /\ half' = None
    /\ Emit(<<Instruction("Remove", v, 0)>>)
    /\ UNCHANGED <<chain, config, pc, phase, seen, toAdd, undisturbed>>

EmitAdd(v) ==
    /\ pc = "plan" /\ phase = "add" /\ Len(tx) < MaxAddIxs
    /\ v \in toAdd
    /\ toAdd' = toAdd \ {v}
    /\ Emit(<<Instruction("Add", v, 0)>>)
    /\ UNCHANGED <<chain, config, pc, phase, seen, toRemove, half, undisturbed>>

\* Both changes, if any, are compared with the pool as it was fetched.
EmitPreferred ==
    /\ pc = "plan" /\ phase = "prefer" /\ tx = <<>>
    /\ seen.deposit # config.deposit \/ seen.withdraw # config.withdraw
    /\ Emit((IF seen.deposit # config.deposit
             THEN <<Instruction("PreferDeposit", config.deposit, 0)>> ELSE <<>>)
            \o (IF seen.withdraw # config.withdraw
                THEN <<Instruction("PreferWithdraw", config.withdraw, 0)>> ELSE <<>>))
    /\ phase' = "end"
    /\ UNCHANGED <<chain, config, pc, seen, toRemove, toAdd, half, undisturbed>>

\* Mutant: the additions do not wait for the removals.
NothingToWaitFor ==
    CASE phase = "remove" -> half = None
      [] phase = "add"    -> toAdd = {}
      [] phase = "prefer" -> seen.deposit = config.deposit /\ seen.withdraw = config.withdraw
      [] OTHER            -> TRUE

PhaseEmitted ==
    CASE phase = "remove" -> toRemove = {}
      [] phase = "add"    -> toAdd = {}
      [] phase = "prefer" -> seen.deposit = config.deposit /\ seen.withdraw = config.withdraw
      [] OTHER            -> TRUE

SendTx ==
    /\ pc = "plan" /\ tx # <<>>
    /\ \/ PhaseEmitted
       \/ phase = "remove" /\ Len(tx) = MaxRemoveIxs
       \/ phase = "add" /\ Len(tx) = MaxAddIxs
    /\ pc' = "confirm"
    /\ UNCHANGED <<chain, config, phase, seen, toRemove, toAdd, half, tx, undisturbed>>

\* Mutant: chunks_exact, the last chunk is not sent when it is short.
NextPhaseWithoutRest ==
    /\ pc = "plan" /\ Len(tx) < MaxAddIxs /\ PhaseEmitted
    /\ IF phase \in {"prefer", "end"} THEN pc' = "done" /\ UNCHANGED phase
       ELSE phase' = (IF phase = "remove" THEN "add" ELSE "prefer") /\ UNCHANGED pc
    /\ tx' = <<>>
    /\ UNCHANGED <<chain, config, seen, toRemove, toAdd, half, undisturbed>>

NextPhase ==
    /\ pc = "plan" /\ tx = <<>> /\ PhaseEmitted
    /\ IF phase \in {"prefer", "end"} THEN pc' = "done" /\ UNCHANGED phase
       ELSE phase' = (IF phase = "remove" THEN "add" ELSE "prefer") /\ UNCHANGED pc
    /\ UNCHANGED <<chain, config, seen, toRemove, toAdd, half, tx, undisturbed>>

\* Killed; the transaction it waits for may still be executed.
Crash ==
    /\ pc \in Alive /\ losses < MaxLosses
    /\ losses' = losses + 1
    /\ late' = IF pc = "confirm" THEN late \cup {tx} ELSE late
    /\ pc' = "dead"
    /\ UNCHANGED <<epoch, poolEpoch, pool, interference, config, phase, seen,
                   toRemove, toAdd, half, tx, undisturbed>>

-----------------------------------------------------------------------------

Init ==
    /\ epoch = 1 /\ poolEpoch \in {0, 1}
    /\ pool \in InitialPools /\ config \in Configs
    /\ poolEpoch = 1 =>
          \A v \in Votes : Active(pool, v) => pool.list[v].last_update_epoch = 1
    /\ late = {} /\ interference = 0 /\ losses = 0
    /\ pc = "idle" /\ phase = "remove"
    /\ seen = [epoch |-> 0, poolEpoch |-> 0, list |-> NoPool.list,
               deposit |-> None, withdraw |-> None]
    /\ toRemove = {} /\ toAdd = {} /\ half = None /\ tx = <<>>
    /\ undisturbed = FALSE

Step ==
    \/ FetchPool \/ FetchList \/ UpdateNotRequired \/ UpdatePool \/ FetchVsas
    \/ \E v \in Votes : EmitDecrease(v) \/ EmitRemove(v) \/ EmitAdd(v)
    \/ EmitPreferred \/ SendTx \/ NextPhase

Runtime == CommitTx \/ AbortTx

Next ==
    \/ Step \/ Crash \/ Runtime \/ LoseTx
    \/ \E t \in late : LandLate(t) \/ DropLate(t)
    \/ AdvanceEpoch
    \/ \E v \in Votes : DepositStake(v) \/ DeactivateDelinquent(v)

\* What the config asks for.
Synced ==
    /\ {v \in Votes : Active(pool, v)} = config.validators
    /\ pool.deposit = config.deposit /\ pool.withdraw = config.withdraw

\* Processes run, transactions settle, time passes, and whoever maintains the pool runs the
\* command again as long as the pool differs from the config.
Fairness ==
    /\ WF_vars(pc \in Alive /\ Step) /\ WF_vars(Runtime)
    /\ WF_vars(AdvanceEpoch)
    /\ WF_vars(~Synced /\ FetchPool)

Spec == Init /\ [][Next]_vars /\ Fairness

-----------------------------------------------------------------------------
(* Properties.                                                             *)

\* Every variable has its type; no chunk is larger than its transaction can hold.
TypeOK ==
    /\ epoch \in 1 .. MaxEpoch /\ poolEpoch \in 0 .. MaxEpoch /\ pool \in Pool
    /\ late \subseteq Seq(Ix)
    /\ interference \in 0 .. MaxInterference /\ losses \in 0 .. MaxLosses
    /\ config \in Config /\ pc \in Ended \cup Alive
    /\ phase \in {"remove", "add", "prefer", "end"}
    /\ seen \in [epoch : 0 .. MaxEpoch, poolEpoch : 0 .. MaxEpoch, list : [Votes -> Entry],
                 deposit : Votes \cup {None}, withdraw : Votes \cup {None}]
    /\ toRemove \subseteq Votes /\ toAdd \subseteq Votes /\ half \in toRemove \cup {None}
    /\ tx \in Seq(Ix) /\ (phase = "remove" => Len(tx) <= MaxRemoveIxs)
    /\ undisturbed \in BOOLEAN

\* A run that ends undisturbed on a pool that was up to date has made the list what the
\* config asks for, but for validators whose removal was already under way.  A config must
\* prefer nobody whom it does not also list: their removal takes the preference away after it
\* has been compared.
SyncedAfterRun ==
    /\ pc = "done" /\ undisturbed /\ seen.poolEpoch = seen.epoch
    /\ {config.deposit, config.withdraw} \subseteq config.validators \cup {None}
    => /\ {v \in Votes : Active(pool, v)}
             = {v \in config.validators : seen.list[v].status # "Deactivating"}
       /\ pool.deposit = config.deposit /\ pool.withdraw = config.withdraw

\* The validators a run removes.
Removed == {v \in Votes \ config.validators : seen.list[v].status = "Active"}

\* An undisturbed run on a pool that was up to date gets all its transactions accepted, as
\* long as at most one of the validators it removes has stake to move out first, and that
\* enough for a stake account of its own, none has stake on its way in, and the validators to
\* be preferred are listed in the config and not still leaving the pool.
UndisturbedRunNeverPanics ==
    /\ undisturbed /\ seen.poolEpoch = seen.epoch
    /\ Cardinality({v \in Removed : NeedsDecrease(v)}) <= 1
    /\ \A v \in Removed : /\ seen.list[v].activating = 0
                          /\ NeedsDecrease(v) => LamportsToDecrease(v) >= NewVsa
    /\ \A v \in {config.deposit, config.withdraw} \ {None} :
          v \in config.validators /\ seen.list[v].status # "Deactivating"
    => pc # "panicked"

\* The removal of a validator starts with a decrease that the program refuses as long as it
\* does not amount to a stake account.
Stuck(v) ==
    /\ Active(pool, v) /\ v \notin config.validators /\ pool.list[v].live
    /\ pool.list[v].vsa - NewVsa \in 1 .. (NewVsa - 1)

\* "Adds and removes validators from the list to match `self.validators`": run often enough,
\* the command gets there, although it may die between the decrease of a validator and its
\* removal, plans on a list that is one update old, and shares the pool with others; unless
\* the stake of a validator that has to go is a little more than that of a new one, and stays so.
EventuallySynced == <>[](Synced \/ \E v \in Votes : Stuck(v))

\* The command implements what ListSync promises, chunk by chunk, run by run.
Promise == INSTANCE ListSync WITH status <- [v \in Votes |-> pool.list[v].status],
                                  deposit <- pool.deposit, withdraw <- pool.withdraw,
                                  wanted <- config

\* However the runs are cut short and the list changes under them, the chain only ever sees
\* the steps that ListSync allows: no validator of the config is removed and no other one
\* added, none is added before the unwanted have gone, and none is preferred before that.
AllowedSteps == Promise!Spec

\* "Assumes vsi has been updated for this epoch": the removal of a validator is planned from
\* an entry of the current epoch.
RemovalsFromUpdatedEntries ==
    pc = "plan" => \A v \in toRemove : seen.list[v].last_update_epoch >= seen.epoch

=============================================================================
