# Verification of sanctum-spl-stake-pool-cli

`splsp` is a command-line program with which the manager and the staker of an SPL stake pool
on Solana create the pool and keep it in line with a TOML file ("This CLI revolves around
syncing stake pool state with a config specified in a toml file", `README.md:21`).  Each command
is one process that reads accounts over RPC, plans from what it has read, and sends one or
more transactions, waiting for each.  Nothing is persisted by the program: all lasting state is
on the chain, which the command shares with everyone else.

That makes its hard part a distributed one, although no thread is spawned: what was read
may be stale when it is used, several transactions make one logical change, the process may
die between any two of them, a transaction may be refused, may expire, or may land after
its sender is gone, and then the command is run again.

## 1. Inventory

| Component | State | Operations | Correct when |
|---|---|---|---|
| sync-delegation (`subcmd/sync_delegation.rs`, `pool_config/sync_delegation.rs`, `pool_config/utils.rs`) | fetched clock, list, reserve, stake accounts; running `reserve_lamports` and position of the changeset iterator | three RPC reads; `DelegationChangeset::next`; `sync_delegation_ixs`; chunks of 3 | never plans more than the reserve has, is accepted when undisturbed, reaches the targets, never exceeds them by more than others have added, `Remainder` comes last |
| update crank (`update.rs`, `subcmd/update.rs`) | fetched pool and list, position of the slice | slices of 11 entries with a start index, skipping, final update | slices and skips add up to the list; pool gets updated whoever interferes |
| sync-validator-list (`subcmd/sync_validator_list.rs`, `pool_config/sync_validator_list.rs`) | list fetched before the update, sets to add and to remove | update, decrease/remove pairs in chunks of 5, additions in chunks of 7, preferred validators | list becomes the configured one, also after dying half-way |
| sync-pool (`subcmd/sync_pool.rs`, `pool_config/sync_pool.rs`, `parse/stake_deposit_auth.rs`) | fetched settings, target | defaults, changeset, one transaction | all or nothing, right order, unset options untouched, delayed fees arrive |
| create-pool (`subcmd/create_pool.rs`, `pool_config/create.rs`) | what was found of mint, reserve, fee account | checks, accounts, Initialize, additions, preferred, settings sync from a dummy | reported success means the pool of the file; repeatable until Initialize; staker handed over last |
| transactions (`tx_utils.rs`) | none | compute budget, sign, send, confirm; `unwrap` on failure | part of each module above |
| config file (`pool_config/file.rs`, `pool_config/mod.rs`) | none | parsing, optional settings, delegation schemes | inputs of the models |
| increase-/decrease-validator-stake (`subcmd/increase_validator_stake.rs`, `subcmd/decrease_validator_stake.rs`) | as sync-delegation, for one validator | a target relative to the stake read, then the planner | as sync-delegation; never takes a validator below its target |
| set-staker (`subcmd/set_staker.rs`) | none | checks, one transaction | the staker put in place stays, whatever sync-pool does with the same file |
| deposit-sol, deposit-stake, withdraw-stake (`subcmd/...`) | pool, list, clock, amount, validator, seed as read before the update | two to four reads, update, one transaction | accepted whatever update came before; eventually served; the validator is the largest |
| list (`subcmd/list.rs`, `pool_config/read.rs`) | none | reads and prints | what it prints needs no sync |
| signer parsing (`parse/signer.rs`) | none | a public key counts as no signer | part of SyncPool |
| program-id parsing, lookup tables, dispatch | none | parsing | not modelled |

The components interact through the chain only: `sync-validator-list` and the user commands
call `update_pool` first; `create-pool` uses the adding half of `sync-validator-list` and the
changeset of `sync-pool`, and those two commands finish what a creation left undone;
`increase-`/`decrease-validator-stake` use the planner of `sync-delegation`; `set-staker` and
`sync-pool` read the same file and set the same staker; a file printed by `list` is an input of
`sync-pool`.  Hazards are listed with their lines in `PROJECT.json`.

## 2. Modules

Each specification has the same shape: the chain's variables, the command's variables, and one or two
history variables that only properties read.  External parts (stake pool
program, runtime, other users) appear as far as the command relies on them: what an instruction
checks, what it moves, that a transaction is atomic.  A command's `unwrap`, `expect` and
`panic!` end the process; what it sent before stays sent.  Nothing in the code waits for the
transaction of a process that was killed: in SyncValidatorList, SyncPool, CreatePool and
UserCommands it goes into the set `late`, from where it is executed (`LandLate`) or dropped
(`DropLate`) at any time, also in the middle of later runs.  (Two late transactions that are the same
in every respect are one in that set.)

**SyncDelegation** — one action per RPC read (`FetchPool`, `FetchList`, `FetchStakes`), one per
outcome of `DelegationChangeset::next` (`PlanBeingRemoved`, `PlanTransientWrongState`,
`PlanInsufficientReserve`, `PlanNoChange`, `PlanDecrease`, `PlanIncrease`), `SendTx`, `Confirmed`,
`Rejected`, `Finish`, `Crash`.  A run starts with a request: to sync a scheme, or to increase or
decrease one validator, by an amount or by `all`; then `Aim` turns the amount into a target
(`DesiredStake`) between the last read and the planner.  The iterator is lazy, as in the code:
planning stops while a chunk is being confirmed, but goes on from the old reads.  The runtime
executes a transaction instruction by instruction on a copy of the ledger and commits or drops it;
the world advances epochs, cranks, deposits SOL, withdraws, adds stake to a validator (`AddStake`: what
`deposit-stake` does, and rewards), removes validators and replaces the staker, none of them while a
transaction executes.  What others have added to a validator since the run read it is kept in the
history variable `added`.  `increase-validator-stake` works out `all` with the
`lamports_for_new_vsa` of sanctum_spl_stake_pool_lib (`LibNewVsa`) and the planner with the one of
`pool_config/utils.rs` (`SaRent`), so the two have values of their own here.

**UpdatePool** — `update_pool` run by several `Cranks`.  `FetchPool` reads pool and clock,
`FetchList` the list and takes the `--ctrl` decision, `SkipSlice`/`SendSlice` walk over the slices of the
copy, `SendFinal` covers both routes to the balance update.  On the chain a slice updates the
entries it names at their positions and the final transaction requires an up-to-date list and drops
the entries that are ready for removal, so that positions shift under the other cranks.  `Selection`
defines `Select`, which stands for `Iterator::filter` here, in PoolSettings and in UserCommands.  The comment
on `ForcePool` speaks of the pool only; on a pool that is out of date the code also updates the
list, and so does the model.

**SyncValidatorList** — `FetchPool`, `FetchList`, the update (one step; UpdatePool models
it in full), `FetchVsas` with `add_remove_changeset` on the list fetched *before* the update,
then the lazily chunked emission: `EmitDecrease`/`EmitRemove` for the two halves of a removal (`half` is the
validator whose removal has not been emitted), `EmitAdd`, `EmitPreferred`, `SendTx`, `NextPhase`.
The program refuses a decrease of less than a stake account, which `sync_delegation.rs:251-266` says of the
same instruction and this command does not look at.  Other users deposit stake and deactivate
delinquent stake, and some validators earn rewards when an epoch begins (`Growing`).

**ListSync** — the abstract specification of that command: what the owner of the pool is promised
whatever happens.  Only validators the config does not name are removed, only such as it names are
added and only when the others have gone, and preferred validators change when the list has no
stranger left.  `SyncValidatorList` instantiates it (`Promise`) with a refinement mapping that reduces
an entry to its status and drops stake, epochs, chunks, transactions and the process; `AllowedSteps` is
all of it.  ListSync says what may happen and not that it does: that the list is the config's in the
end is `EventuallySynced`, of the command itself.

**PoolSettings** — no state: the changeset of `sync-pool` in its order, fee comparison,
the effect and permission of each instruction, and fees that come into force after two epochs.  The
program takes no fee above 100% (`TooHigh`), no rise of a withdrawal fee that goes too far, and a
delayed fee only on a pool that is updated for the epoch (`Permits`).  Used by the next two.

**SyncPool** — `Fetch` (manager check, defaults, changeset), `Send`, `Crash`; the chain commits,
aborts or loses the transaction; another holder of the manager's key makes changes; epochs pass,
and from then until somebody updates the pool (`due`) delayed fees are refused, for the command
itself does not update.
An authority the file leaves out means *none*, unlike the other options.  `SetManager` writes
manager and fee account together.  Beside it runs `set-staker` on the same file: `SetStaker` (its
checks, in their order), `CommitHandover`, `FailHandover`.  `SignerOr` is `ps!` with a fallback: a
public key where a signer is expected is passed over (`parse_signer_pubkey_none`).  `Listed` is the
file that `list` prints of the pool.

**CreatePool** — `FetchMint` and `FetchAccounts` with the checks, then the stages `first`, `init`,
`add`, `prefer`, `sync`.  The sync is `PoolSettings!Changeset` of the dummy pool.  A run after
Initialize is refused by `verify_mint`, since the pool now owns the mint.

**PoolLifecycle** — CreatePool and what follows a creation that died: the manager runs `sync-pool` and
`sync-validator-list` with the same file.  The two commands are one step each here, since nobody else has
an interest in a half-made pool; SyncPool and SyncValidatorList model them in full.
`SyncValidatorList` updates the pool before it knows whether there is anything to change, as the code
does, so that a run of it is also what makes the pool take delayed fees again.
`sync-validator-list` needs the staker (`ListSigner`: the file's, or the payer), `sync-pool` the manager,
so the order in which the two can be run depends on where the creation died.

**UserCommands** — `deposit-sol`, `deposit-stake` and `withdraw-stake` as several processes of one
wallet.  `FetchPool`, `FetchListDepositSol`, `FetchListDepositStake`, `FetchListWithdraw`, `FindSeed`,
`FetchClock` are the reads, each with the refusals and choices the code makes of it; `Update` and
`UpdateFails` the outcomes of `update_pool` (one step, UpdatePool models it in full); `Send` the
checks of the token account and of the signers and the transaction, made of what was read before the
update.  The chain accepts or refuses it by what the programs check, the deposit authorities of a pool
for SOL and for stake included (only the former is looked at before); everyone else advances epochs,
cranks, deposits, withdraws, prefers and removes validators.

**MC...** modules hold the values of the constants for TLC.  **..._proofs** modules hold the theorems
about the module they are named after (section 4), **FoldLemmas** what they need to know of sequences and
of the folds over them.

## 3. Runs

| Run | Question | Bounds |
|---|---|---|
| `SyncDelegation_plan` | is the plan within the reserve, accepted and sufficient? | two validators with every pair of targets 0, 8, Remainder and three with targets 6 or Remainder; one validator increased or decreased by 6 and by `all`; stakes, transients and reserves on both sides of every threshold of the planner; chunks of 2; two runs, overlapping or not |
| `SyncDelegation_shared` | what if others act in between? does a run end? | two validators, schemes with targets and Remainder and an increase, one instruction per transaction, two epochs, one step of another user, two runs |
| `SyncDelegation_vsa` | finding, see 6 | as above, one run |
| `UpdatePool_crank` | do slices and skips add up? does the pool get updated? | two cranks, one `IfNeeded`, the other `ForcePool` or `ForceAll` with `--no-merge`; lists of 1 and 3 entries, slices of 2, one lost transaction or crash, one change of the owners, two epochs |
| `SyncValidatorList_sync` | is the list synced, now and eventually, and only by steps ListSync allows? | 3 validators, one to remove that has enough stake to decrease, too little, or some on its way in; chunks of 2, one loss, one step of another user, rewards, two epochs |
| `SyncValidatorList_two`, `_stale` | findings, see 6 | one pool each |
| `SyncPool_settings` | is the pool what the file says? do fees arrive? does the staker stay? does what `list` prints need no sync? | 7 files and 6 pools (13 starts), with fees pending on both sides of the file's, a fee above 100%, and a withdrawal fee that falls between fetch and transaction; one step of another manager, one run of set-staker, one loss, epochs without bound |
| `SyncPool_pending` | finding, see 6 | no interference |
| `PoolLifecycle_create` | is reported success true? is an undisturbed run accepted? does a dead creation end up as configured? | 13 files, 3 mints, 4 reserves, 2 sets of accounts; 3 validators in chunks of 2; one loss, runs without bound |
| `UserCommands_serve` | is a command that is let alone accepted? is a request served in the end? is the validator the largest? | eight commands alone on pools of two validators with and without authorities and preferences, two withdrawals and two deposits together on a pool of one; two seeds, one epoch change, one step of others, one loss, runs without bound |
| `UserCommands_mint` | finding, see 6 | as above |

Chunks and slices of 2 stand for 11, 7, 5 and 3: they give full, short and several chunks, a chunk that
ends inside a removal pair, and a list that is no multiple of the slice.  Amounts are small
integers around the thresholds of the code (rent for one and for two accounts, the smallest decrease,
an increase that exhausts the reserve).  Two epochs are enough for a stale copy, for a transient account to
become mergeable and for a removed validator to leave.  `U64Max` is a number out of reach of the
stakes; the saturation itself is in the definitions.

Every configuration has `CHECK_DEADLOCK FALSE`: commands end, and after the bounded
steps of the world the system rests.

Some properties are conditional.  `undisturbed` (a history variable) says that nothing but the run
has touched what it relies on since its first read; the properties that say "undisturbed" would be
false otherwise, as the code does not retry.

- `NeverOvershoots` is not among them: others may do what they like between the reads and the
  execution.  It allows a validator what was `added` to it meanwhile, which the command cannot know: with
  stake 4, target 10 and a deposit of 3 after the read, the increase of 6 ends at 13.  It is checked
  with runs that start only when the transactions of earlier runs are settled
  (`RerunWhileInFlight = FALSE`): a late transaction of a dead run and the same change planned again do
  add up, and nothing in the code prevents it.
- `SettledAfterRun` of SyncDelegation leaves out validators with a deactivating transient account:
  `next_epoch_stake_and_transient_status` subtracts that account from a stake account it has left
  already (`sync_delegation.rs:92-96`), so a second decrease in an epoch may come out too small.
- `SkipsOnlyUpdated` compares with the epoch that the crank has read and works in.  If a new epoch begins
  under a crank, what it skips is not up to date for that one; `EventuallyUpdated` covers it.
- `UndisturbedRunNeverPanics` excludes more than one decrease per run (finding below), a decrease of
  less than a stake account (section 5), removing a validator with activating stake and preferring one
  that is leaving: the program refuses those until a later epoch or for as long as the stake stays
  what it is.  It also excludes preferring a validator that the config does not list: the run removes
  it, and the program refuses the preference for good.
- `EventuallySynced` leaves out a pool that is `Stuck` on such a small decrease for good.  A validator
  in `Growing` is stuck only until its rewards make a stake account, and then has to go.
- `UndisturbedSyncSucceeds` names what an undisturbed transaction may still be refused for, all of it a fee
  of the file: above 100%, delayed while the pool is not updated (`due`), or a withdrawal fee that
  goes up too far.
- `UndisturbedCreateSucceeds` and `CanBeInitialized` exclude files with a fee above 100%
  (`FeesWithinAll`), which nothing in `create-pool` checks.
- `NotForeseen` lists what the user commands do not look at and the chain refuses: amounts of zero,
  validators that are leaving or have not enough stake (the TODOs at `withdraw_stake.rs:153-154`),
  and for `deposit-stake` a pool with a stake deposit authority that is not the wallet.
- `LargestIfUpdated` has the premise that the pool was up to date when it was fetched; on the first
  command of an epoch the validator is chosen by the stake of an earlier one.
- `EventuallyAsConfigured` assumes what the operator has to provide: a mint that verifies, room in the
  list, a reserve that can pay for the validators, and a payer who is the manager.

### Fairness

A process that runs keeps running (`WF` on its steps; a crash is never required); a transaction
executes or its blockhash expires, which the cluster guarantees within some 150 blocks; epochs
pass where the property needs it.  `EventuallyUpdated`, `EventuallySynced`,
`FeesComeIntoForce`, `EventuallyInitialized`, `EventuallyAsConfigured` and `EventuallyServed` also assume that somebody runs the command again while there is something left to do: the program has no
loop of its own, this is how it is operated.  Crashes and lost transactions are bounded by
`MaxLosses`.

`sync-pool` never updates the pool, and its delayed fees are refused from the beginning of an epoch
until somebody else does.  So SyncPool and PoolLifecycle also assume that a command which is
repeated for ever is not unlucky for ever: in SyncPool, if runs wait for their transaction again and
again, then some transaction is executed on an updated pool (the last conjunct of `Fairness`); in
PoolLifecycle, `sync-pool` is strongly fair, which is spelled out as
`[]<>CanSyncPool => []<><<SyncPool>>_vars` because TLC would take too long to find its enabling
condition by trying the step.  An epoch lasts about two days, and is updated in its first minutes by
the pool's cranks and by every other command; a manager who keeps hitting that window is not one the
properties are about.

### Mutants

Every checked property has a mutated definition, next to the one it mutates and marked
`Mutant:` in its comment, under which TLC finds the property violated.

## 4. Proofs

Every invariant and every safety property of the passing runs is proved for all values of the
constants.  Each module of proofs has the same layout: the inductive invariants
first, then one part per theorem with a lemma per group of actions, then the theorem.  The common
pattern is that a property speaks of what a run has at its end, or of what becomes of a transaction,
while what makes it true was read or decided several steps earlier; the invariant says what of that is
still so at each stage.

**FoldLemmas** holds what the others need of sequences.  The changesets, the lists and the
transactions of the models are folds and selections, and an induction over their length is
needed to say anything about all of them.  The induction theorems of the library take the formula to be
proved as a parameter, which the installed provers cannot instantiate; here induction is a fact about
*sets* of numbers (`LeastElement`, `Induction`), so that the formula becomes a set defined where it
is used.  `FoldedRun` turns a `FoldLeft` into a run of its steps, `SelectEmbeds` says that `Select`
keeps what is selected, nothing else, and the order.

**SyncDelegation_proofs**, for every set of validators, scheme, ledger, chunk size and amount:

- `TypeCorrect`: no amount becomes negative, on the chain or in the plan.
  The arithmetic is in `IncreaseFits`, `ChainDecreaseType` and `ChainIncreaseType`.
- `PlanCorrect`: `Spec => []PlanInv`, the inductive invariant of the planner on top of `TypeOK`.
  `ReserveKeepsRent` and `RemainderYields` are not inductive: they speak of the plan, and say
  neither that the plan is empty when a run starts (`PlanStartsEmpty`), nor that plan and position
  correspond (`PlanFollowsScheme`), nor that the sorted scheme has its only Remainder at the end
  (`RemainderAtEnd`), nor that a change which fell short leaves at most two rents, after
  which no later increase is possible (`ShortLeavesNothing`).
- `ReserveCorrect` and `RemainderCorrect` follow from it.
- `SeedsCorrect`: `EphemeralSeedsDistinct`, by `SeedInv`: the seeds of a chunk under
  construction are distinct and below the position of the iterator; what is sent keeps them.
- `RunCorrect`: `RunInv`, what a transaction on its way may still do.  Both properties that follow
  speak of the step that commits, and what makes it right was decided when its instructions were
  planned, from what had been read before that.  `RunInv` says that every instruction was planned
  for one entry of the scheme and fits under (a decrease: above) its target on what was *read*
  (`ChunkFollowsScheme`); that the chunk is the only transaction there is (`OnlyMine`); that a
  validator whose entry is still pending is as it was read in an undisturbed run, and in any run has
  at most what was read and what others have `added` since (`PendingAsRead`; `WorldCountsAdded` is the
  step of the others); and what the transaction
  that is executing has done so far, instruction by instruction (`ExecFollowsChunk`).
- `OvershootCorrect`: `NeverOvershoots`, with interference, stake deposits, crashes and reruns.
  `UndershootCorrect`: `NeverUndershoots`.  `CommitEffect` has what a commit does to one validator.
- `AbortCorrect`: `UndisturbedRunNeverAborts`, by `QuietInv`.  What the program checks of validator
  and accounts was so when they were read, and is still so (`ChunkFits`, `StillAsRead`); the
  ephemeral seeds in use are those of executed instructions (`SeedsUsed`).  The reserve is the hard
  part: the planner counts `lamports_for_new_vsa` for a new transient account and nothing for an
  existing one, the program takes rent for every instruction, so the two fall apart with every
  instruction.  `ReserveSuffices` follows the running reserve of the plan through the instructions
  of a chunk and bounds how far the reserve of the chain may be behind it, by one rent per
  instruction (`Debt`); what the planner keeps back covers that.
- `SettledCorrect`: `SettledAfterRun`, by `SettledInv` on top of `RunInv` and `QuietInv`.
  `PlanFollowsView` says of each entry of the plan how what was *read* relates to its target, also
  of those that were skipped (`PlanSays`); `ChunkIsPlanned`, that the instructions of a chunk have
  the amounts of the plan; `PlanIsServed`, that an entry of an undisturbed run is either still to be
  executed or `Served`: its validator has the target, or exceeds it by less than can be split off.
  The step that matters is again the commit, and there the increase: the chain adds the amount with
  saturation, so the sum is the target only if it fits u64.  That is a statement about one
  validator, but what keeps it true is one about all lamports of the pool together: `LedgersSound`
  says that they and what users may yet deposit fit u64, of the chain's ledger and of the one a
  transaction is being executed on.  (A sum over a set is stated as the existence of the function
  that gives the sum of every subset, `IsSum`; the recursion is never unfolded.)

Four of these have hypotheses, which the instances of the runs satisfy.  `DistinctRequests`: a
request names no validator twice; the command does not check it.  `RerunWhileInFlight = FALSE`
(`OvershootCorrect` only): a run starts when no transaction of an earlier one can still be executed;
a user who repeats a command at once may see its increase twice.  `DebtIsCovered` (`AbortCorrect`
only): one rent per entry of the scheme is no more than two minimum delegations.  With the cluster's
2282880 lamports of rent and 10^9 of minimum delegation that is schemes of up to 876 validators; for
longer ones a plan that uses up the reserve is not covered by the theorem.  `TransientsFormed`
(`SettledCorrect` only): stake on its way in when the command is first run is not being deactivated
at the same time, as in every account that the program makes.  `SupplyFits` (`SettledCorrect` only):
the pool and what users deposit have no more than u64::MAX lamports together, which is some thirty
times all SOL there is.

**UpdatePool_proofs**, for any number of cranks, any list and slices of any size:

- `TypeCorrect`: no slice is out of the bounds of the list it was cut from (`LoopInv`).
- `SkipsCorrect`: what a crank skips has been updated for the epoch that the crank read, in the list *as
  it is then*.  The crank judges by a copy
  whose positions have shifted if others have removed entries meanwhile.  `CopyInv` is the
  reason it is right: the entries of a validator only get newer, so a copy is a lower bound;
  `ListInv` adds that the list names no validator twice and nothing in it is ahead of the clock.
- `UndisturbedCorrect`: slices sent and slices skipped add up to the list.  `Progress` says how
  far an undisturbed crank is (everything before its slice is updated), `OwnTxInv` that a crank
  that lives has no other transaction in flight than the one it waits for.

**SyncValidatorList_proofs**, for any validators, configs, pools and chunk sizes:

- `TypeCorrect`, with `PhaseInv` (what is planned in which phase).
- `AllowedStepsCorrect`: `Spec => AllowedSteps`, the refinement of ListSync: every step of
  the command and of the chain is one of ListSync's or leaves its state alone.
  `SafeInv` says what a chunk that is sent or late may hold, whoever sent it and however the list has
  changed since: removals of strangers, or additions, or preferences, and the latter two only when no
  stranger is active any more.  A transaction is followed instruction by instruction (`Performs`),
  as several of them take one abstract step each or all together.
- `SyncedCorrect`: `RunInv` says for a quiet run what is planned, what is in flight and what is in the
  list already; together they are always the config.
- `NeverPanicsCorrect`: `UndisturbedRunNeverPanics`.  Three things have to be known of a transaction
  before it is executed, all of them decided earlier.  `BooksInv` holds whatever others do: the
  reserve can pay for every validator of the config that the pool lacks (`Solvent`; an addition
  makes both sides smaller by the same), and in an epoch in which the pool has been updated the list
  has the right stake (`Counts`).  `CareInv` says of a quiet run that satisfies the property's
  premises that its plan is ready (`PlanReady`): who is still to be removed is as it was fetched;
  who has been decreased, in an earlier chunk or earlier in this one, has nothing left that the
  removal would object to (`Drained`, `Halfway`); who is to be added is still absent.
  `RemovalsRun`, `AdditionsRun` and `PreferencesRun` then follow a transaction instruction by
  instruction to the end; that a run has at most one decrease is what keeps its ephemeral seed free
  (`OneDecrease`), and the property's premise on its amount is what makes the program take it
  (`CanDecrease`).  The hypotheses, which the instance satisfies, are about the pools the command
  may find: finitely many validators, `StakeCounted` (an updated list has the right stake) and
  `Funded` (the reserve covers the additions and the two rents of a decrease).  The code does not
  check the latter; with too little in the reserve the run panics at the first addition it cannot
  pay for.

**SyncPool_proofs** and **PoolSettings_proofs**, for all files, settings, fees and keys:

- The lemmas about settings are independent of any run.  `ChangesetIs`: a changeset holds exactly what
  has to change, the manager last.  `PerformAllIs` and `MadeIs`: what a transaction leaves, field by
  field.  `CarriedOut`: a changeset computed from settings `q` and executed on settings `p` that are
  `Alike` (the same but for the time that has passed) settles them.  `Refused`: if the program
  refuses a changeset, then for a fee in it that is too high, delayed while the pool is not updated, or
  raised too far, and never for the order of the changes or the signer.
- `TypeCorrect`, `SettledCorrect`, `UndisturbedCorrect`, `ListedCorrect`, `UnsetCorrect` and
  `HandoverCorrect` for the six safety properties, by `PlanInv` (what is sent is the changeset
  of what was fetched, late transactions included) and `AloneInv` (while nobody else acts, the pool is
  alike what was fetched).

**PoolLifecycle_proofs**, for every file, mint, reserve, set of fee accounts and chunk size,
and for any number of runs, crashes and epochs:

- `HandoverCorrect`: `LifecycleSpec => HandoverLast`.  The property speaks of a step, and what makes
  the step right was decided several transactions earlier, perhaps by a run that has died since.
  `TxInv` says what a transaction holds, whoever sent it, and is kept for the one a run waits for
  (`SentInv`) and for the late ones (`LateInv`): while a run is under way that found no pool, what is
  late comes from runs that got no further than Initialize.  `StageInv` says how far the pool is at
  each stage of a run, and `PoolInv` that the program owns the mint of a pool, which is why no second
  run gets past `verify_mint` and sends anything from an outdated stage.  `ChunkExists` (a set that is
  not empty has a chunk) gives that the adding ends only when nothing is left.
- `TypeCorrect`: in particular the reserve is never overdrawn, by a creation or by the sync that
  finishes it.
- `CreatedCorrect`: `CreatedAsConfigured`.  The dummy against which the settings sync is planned *is* the pool
  that Initialize makes (`InitializedIs`), and `SettledInv` says that it stays alike until the sync, whose
  changes `CarriedOut` then settles.  A second sync after success has nothing to do
  (`SettledNeedsNothing`).
- `UndisturbedCreateCorrect`: `UndisturbedCreateSucceeds`, by `PreparedInv`.  Its five parts say, for
  the stages of a run that nothing disturbs (neither a new epoch nor something late), that what the next
  transactions need is there: the number of validators was
  checked and the pool is up to date, the mint is the manager's, what the first transaction makes
  is missing still, what Initialize asks for exists, and the reserve holds the rent of all validators
  *that are left*, which is what survives each chunk (`SplitIs`).  `DummyFees` and `SyncGoes`: taking the
  higher of two withdrawal fees for Initialize is what keeps the sync acceptable, for every table of
  permitted raises; `WithinAll`, that without a
  fee above 100% in the file neither Initialize nor the sync asks for one.

**UserCommands_proofs**, for any number of commands of a wallet, any validators, pools and amounts:

- `TypeCorrect`: no balance below zero and no seed used twice (`ChainType`, `ProcessInv`).
- `UndisturbedCorrect`: what a command that is let alone has read is still so (`Current`), although its
  own update lies between reads and transaction; the transaction is therefore accepted.
- `LargestCorrect`: the validator that the fold over the list finds is one with the most stake.

### Assumptions

They are the named ASSUMEs of the modules, which TLC evaluates in every passing run: types and signs
of the constants, and that the special values (`None`, `Unset`, `Remainder`, ...) are none of the
ordinary ones.  What they say beyond that is: a validator list names no validator twice, and nothing
in it is ahead of the clock (`UpdateConstants`, `UserConstants`), as the stake pool program
guarantees; a pool prefers only active validators (`ListConstants`), because the program forgets the
preference for a validator it removes; a public key and the signer that stands for it can be told
apart (`SyncConstants`); there are finitely many vote accounts and the program's mint authority is
nobody's key (`CreateConstants`); targets are u64 (`TargetsAssumption`).  But for `DebtIsCovered`
and `Funded`, nothing is assumed about rents, fees, the size of chunks (except that they are not
empty) or the table of permitted raises.

### Model-checked only

- Liveness under fairness, which the prover cannot handle.
- The five findings: each is a counterexample.

## 5. What is left out

- Rent that goes back to the reserve when accounts are merged; in SyncDelegation, rewards of transient
  accounts and of the reserve, and slashing; stake decreased in
  SyncValidatorList does not come back to the reserve within the modelled epochs.
- Compute budget and the simulation before sending (a failed simulation is a
  refused transaction to the command), and the modes that print or simulate only.
- The minimum for an increase that the stake pool program itself imposes: nothing under `src/`
  states it.
- The limit on raising a withdrawal fee is a set of permitted pairs, `Raises`: the actual numbers
  are the program's.
- Duplicate vote accounts in a config, which the code does not check.
- The validator list of CreatePool and the changesets of SyncValidatorList are sets, processed in
  any order; the code takes the order of the list and of the hash set.
- In UserCommands a pool token is worth one lamport and there are no fees, and the wallet never lacks SOL.
  Slippage is zero in the code (its TODOs), so there is nothing to check.
- No property asks for what the program refuses for good and the code does not look at.  A validator with a
  little more stake than a new one (less than a stake account more) cannot be removed with
  `sync-validator-list`: `remove_validator_ixs` decreases any excess (`pool_config/sync_validator_list.rs:247-255`),
  the program refuses a decrease that small, the run panics, and so does each later one until the stake
  has grown.  `sync-pool` neither updates the pool first nor checks fees for more than 100%; a file
  with such a fee makes it fail every time, a delayed fee until the pool is updated.
- A late transaction of a dead `sync-delegation` run is executed in `SyncDelegation_plan`, but no
  property is about what it does together with the next run's: the code makes no promise for it.
- At most one: an increase, a deposit or a withdrawal that is repeated because its result was not
  learnt may happen twice.  Nothing in the code or its help promises otherwise, so no property says so.
- `list --verbose`: the validator list and the reserve as it prints them.
- Parsing (TOML, keys, amounts, program ids), printing, address lookup tables and the dispatch to the
  subcommands: no state and no order of steps.
- The help of `decrease-validator-stake` says "Amount of SOL stake to decrease by"
  (`decrease_validator_stake.rs:36`).  The planner takes the minimum active stake off every decrease
  (`sync_delegation.rs:247-250`), so that the validator keeps that much more than the amount says.  The
  model does the same; no property is about the amount to the lamport.

## 6. Disagreements between code and documentation

- **Two removals with stake** (`SyncValidatorList_two`).  `remove_validator_ixs` gives every decrease
  ephemeral seed 0 (`pool_config/sync_validator_list.rs:256`).  Two decreases in one transaction are
  refused, the run panics, and so does every later one: the list never becomes `self.validators`
  (line 29).
- **List from before the update** (`SyncValidatorList_stale`).  Removals are planned from
  `old_validators` (`subcmd/sync_validator_list.rs:119`), against "Assumes vsi has been updated for
  this epoch" (`pool_config/sync_validator_list.rs:206`).
- **"vsa should always exist"** (`SyncDelegation_vsa`, `subcmd/sync_delegation.rs:146`).  A listed
  validator that is being removed may have lost its account; the command panics before the planner
  can report it.
- **"No changes necessary"** (`SyncPool_pending`, `subcmd/sync_pool.rs:131`) is printed although a
  pending fee is about to replace one that is right.
- **"mint_to does not exist"** (`UserCommands_mint`).  `deposit-stake` looks up the wallet's associated
  token account (`subcmd/deposit_stake.rs:109`) where `deposit-sol` looks up `mint_to`, and says
  "mint_to does not exist and is not authority's ATA" (line 124) of a token account that exists.

## 7. Plan

Done: all modules of section 2, and the theorems of section 4, which leave no invariant and no
action property of the passing runs without a proof.

Left for the models, where a larger instance is affordable: UpdatePool in place of the one-step update in
SyncValidatorList and UserCommands.
