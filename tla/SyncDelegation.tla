--------------------------- MODULE SyncDelegation ---------------------------
(***************************************************************************)
(* `splsp sync-delegation`: one command reads the pool in three RPC calls, *)
(* plans a stake change per configured validator against a running copy of *)
(* the reserve, and sends the changes in transactions of a few             *)
(* instructions each, waiting for every one to be confirmed.               *)
(* `splsp increase-validator-stake` and `decrease-validator-stake` do the  *)
(* same for one validator, whose target they work out from what they read. *)
(* The chain is shared: epochs pass, anyone may run the update crank,      *)
(* users deposit and withdraw, and the command may die at any point and be *)
(* run again while a transaction of the dead run is still in flight.       *)
(*                                                                         *)
(* Code:     pool_config/sync_delegation.rs, subcmd/sync_delegation.rs,    *)
(*           subcmd/increase_validator_stake.rs,                           *)
(*           subcmd/decrease_validator_stake.rs,                           *)
(*           pool_config/utils.rs, handle_tx_full of tx_utils.rs.          *)
(* External: the stake pool program, the runtime and the other users.      *)
(***************************************************************************)
EXTENDS Integers, Sequences, FiniteSets

CONSTANTS
    Validators,          \* vote accounts a config may name
    Requests,            \* commands that may be given
    InitialLedgers,      \* stake accounts and reserve the command may find
    InitialStatuses,     \* validator lists the command may find
    Remainder,           \* ValidatorDelegationTarget::Remainder
    All,                 \* TokenAmtOrAll::All
    U64Max,              \* u64::MAX
    Rent,                \* rent-exempt minimum of a stake account
    MinDelegation,       \* min_delegation()
    LibNewVsa,           \* lamports_for_new_vsa() of sanctum_spl_stake_pool_lib
    MinActive,           \* MIN_ACTIVE_STAKE
    ChunkSize,           \* MAX_INCREASE_VALIDATOR_STAKE_IX_PER_TX
    UserAmount,          \* lamports another user moves in one go
    MaxEpoch,            \* bound: epochs that are modelled
    MaxRuns,             \* bound: times the command is started
    MaxInterference,     \* bound: steps other users take
    RerunWhileInFlight   \* may a run start before old transactions are settled?

Statuses == {"Active", "DeactivatingValidator", "DeactivatingAll",
             "DeactivatingTransient", "ReadyForRemoval"}
Absent   == "Absent"     \* no entry in the validator list
Never    == MaxEpoch + 1 \* a deactivation_epoch of u64::MAX

\* `target` is a number of lamports or Remainder.
SchemeItem == [vote : Validators, target : Nat \cup {Remainder}]

\* A sync comes with the delegation scheme of the config file.  The other two commands name
\* one validator, as a scheme of one without a target yet, and an amount.
Request == [kind : {"sync", "increase", "decrease"}, scheme : Seq(SchemeItem),
            amt : Nat \cup {All}]

\* A transient stake account; NoTsa when the account does not exist.
Tsa   == [stake : Nat, activation : 0 .. Never, deactivation : 0 .. Never]
NoTsa == [stake |-> 0, activation |-> 0, deactivation |-> 0]

\* What instructions of the stake pool program move lamports between.
Ledger == [stake : [Validators -> Nat], tsa : [Validators -> Tsa], reserve : Nat]

Ix == [kind : {"Increase", "Decrease"}, vote : Validators, amt : Nat, seed : Nat]
Tx == [run : Nat, ixs : Seq(Ix)]

ASSUME RemainderAssumption == Remainder \notin Nat /\ All \notin Nat
ASSUME LamportsAssumption ==
    /\ {U64Max, Rent, MinDelegation, MinActive} \subseteq Nat \ {0}
    /\ {UserAmount, LibNewVsa} \subseteq Nat
ASSUME BoundsAssumption ==
    /\ ChunkSize \in Nat \ {0}
    /\ {MaxEpoch, MaxRuns, MaxInterference} \subseteq Nat
    /\ MaxEpoch > 0
    /\ RerunWhileInFlight \in BOOLEAN
ASSUME RequestsAssumption == Requests \subseteq Request
ASSUME TargetsAssumption ==              \* targets are u64
    \A r \in Requests : \A i \in DOMAIN r.scheme :
        r.scheme[i].target # Remainder => r.scheme[i].target <= U64Max
ASSUME InitialAssumption ==
    /\ InitialLedgers \subseteq Ledger
    /\ InitialStatuses \subseteq [Validators -> Statuses \cup {Absent}]

VARIABLES
    (* the chain *)
    epoch,          \* the clock
    poolEpoch,      \* last_update_epoch of the pool
    isStaker,       \* does the pool's staker equal the command's signer?
    status,         \* [Validators -> status in the validator list or Absent]
    ledger,         \* stake accounts and reserve, committed
    inflight,       \* transactions sent and not settled
    exec,           \* the transaction the runtime is executing
    interference,   \* steps other users have taken
    (* the command *)
    pc, run, request, scheme,
    view,           \* what the run fetched
    reserveLamports,\* DelegationChangeset.reserve_lamports
    next,           \* position of the changeset iterator
    tx,             \* the chunk under construction
    outcome,        \* what became of the transaction last sent
    (* history *)
    plan,           \* changes the iterator has returned
    added,          \* stake a validator has gained from others since the run read it
    undisturbed     \* nothing but this run touched the pool since it began

chainVars   == <<epoch, poolEpoch, isStaker, status, ledger, inflight, exec, interference>>
commandVars == <<pc, run, request, scheme, view, reserveLamports, next, tx, outcome>>
vars        == <<chainVars, commandVars, plan, added, undisturbed>>

-----------------------------------------------------------------------------
(* Helpers of the planner.                                                 *)

SatAdd(a, b) == IF a + b > U64Max THEN U64Max ELSE a + b
SatSub(a, b) == IF a > b THEN a - b ELSE 0
Least(a, b)  == IF a < b THEN a ELSE b

SaRent == Rent + MinDelegation           \* lamports_for_new_vsa

\* Mutant: a transient account needs no more than what must be active.
MinTsaBalanceActive == MinActive

MinTsaBalance == MinActive + SaRent

TransientStatus(v) ==
    CASE view.tsa[v] = NoTsa                  -> "None"
      [] view.tsa[v] # NoTsa /\ view.tsa[v].activation = view.epoch -> "Activating"
      [] OTHER                                -> "Deactivating"

\* Mutants: forgets stake that is already on its way in or out, or takes both to be on its
\* way in.
NextEpochStakeOwn(v)  == view.stake[v]
NextEpochStakeBoth(v) == SatAdd(view.stake[v], view.tsa[v].stake)

NextEpochStake(v) ==
    CASE TransientStatus(v) = "None"       -> view.stake[v]
      [] TransientStatus(v) = "Activating" -> SatAdd(view.stake[v], view.tsa[v].stake)
      [] OTHER                             -> SatSub(view.stake[v], view.tsa[v].stake)

Desired(item) == IF item.target = Remainder THEN U64Max ELSE item.target

\* Mutants: keep no rent back, or the rent of one account only.
AvailableStakeAll     == reserveLamports
AvailableStakeOneRent == SatSub(reserveLamports, SaRent)

\* What the reserve can still give after rent for two new stake accounts.
AvailableStake == SatSub(reserveLamports, 2 * SaRent)

DecreaseAmt(item) ==
    SatSub(NextEpochStake(item.vote) - Desired(item), MinActive)
IncreaseAmt(item) ==
    Least(AvailableStake, Desired(item) - NextEpochStake(item.vote))

IsRemainder(item) == item.target = Remainder

\* Mutant: keeps the order of the config file.
RemainderUnsorted(s) == s

\* sort_by: stable, the Remainder entry moves to the end.
RemainderLast(s) ==
    IF \E i \in DOMAIN s : IsRemainder(s[i])
    THEN LET i == CHOOSE i \in DOMAIN s : IsRemainder(s[i])
         IN  SubSeq(s, 1, i - 1) \o SubSeq(s, i + 1, Len(s)) \o <<s[i]>>
    ELSE s

IsSchemeValid(s) ==
    \A i, j \in DOMAIN s : IsRemainder(s[i]) /\ IsRemainder(s[j]) => i = j

-----------------------------------------------------------------------------
(* The chain, as the command relies on it.                                 *)

Idle == [busy |-> FALSE, tx |-> [run |-> 0, ixs |-> <<>>], pos |-> 1,
         ledger |-> [stake |-> [v \in Validators |-> 0],
                     tsa |-> [v \in Validators |-> NoTsa], reserve |-> 0],
         seeds |-> {}]

HasVsa(v) == status[v] \in {"Active", "DeactivatingValidator", "DeactivatingAll"}

\* A transient account left from an earlier epoch that no crank has merged yet.
IsStale(t) == t # NoTsa /\ t.activation # epoch /\ t.deactivation # epoch

RentFor(t) == IF t = NoTsa THEN 2 * Rent ELSE Rent

ChainDecrease(l, ix) ==
    LET v == ix.vote
    IN  [stake   |-> [l.stake EXCEPT ![v] = @ - ix.amt],
         tsa     |-> [l.tsa EXCEPT ![v] = [stake |-> l.tsa[v].stake + ix.amt,
                                           activation |-> 0, deactivation |-> epoch]],
         reserve |-> l.reserve - RentFor(l.tsa[v])]

ChainIncrease(l, ix) ==
    LET v == ix.vote
    IN  [stake   |-> l.stake,
         tsa     |-> [l.tsa EXCEPT ![v] = [stake |-> l.tsa[v].stake + ix.amt,
                                           activation |-> epoch, deactivation |-> Never]],
         reserve |-> l.reserve - (ix.amt + RentFor(l.tsa[v]))]

\* The ephemeral account of a seed is not cleaned up before the transaction ends.
Accepts(e, ix) ==
    LET l == e.ledger
        t == l.tsa[ix.vote]
    IN  /\ isStaker
        /\ poolEpoch = epoch
        /\ status[ix.vote] = "Active"
        /\ ix.seed \notin e.seeds
        /\ \/ /\ ix.kind = "Decrease"
              /\ t = NoTsa \/ t.deactivation = epoch
              /\ ix.amt >= SaRent
              /\ l.stake[ix.vote] - ix.amt >= MinActive
              /\ l.reserve >= RentFor(t) + Rent
           \/ /\ ix.kind = "Increase"
              /\ t = NoTsa \/ t.activation = epoch
              /\ l.reserve >= ix.amt + RentFor(t) + Rent

BeginTx(t) ==
    /\ ~exec.busy
    /\ exec' = [busy |-> TRUE, tx |-> t, pos |-> 1, ledger |-> ledger, seeds |-> {}]
    /\ inflight' = inflight \ {t}
    /\ UNCHANGED <<epoch, poolEpoch, isStaker, status, ledger, interference,
                   commandVars, plan, added, undisturbed>>

ExecIx ==
    /\ exec.busy /\ exec.pos <= Len(exec.tx.ixs)
    /\ LET ix == exec.tx.ixs[exec.pos]
       IN  /\ Accepts(exec, ix)
           /\ exec' = [exec EXCEPT
                         !.pos = @ + 1,
                         !.seeds = @ \cup {ix.seed},
                         !.ledger = IF ix.kind = "Decrease"
                                    THEN ChainDecrease(@, ix)
                                    ELSE ChainIncrease(@, ix)]
    /\ UNCHANGED <<epoch, poolEpoch, isStaker, status, ledger, inflight, interference,
                   commandVars, plan, added, undisturbed>>

\* The command only sees the fate of the transaction it is waiting for.
Report(t, what) ==
    outcome' = IF t.run = run /\ pc = "confirm" THEN what ELSE outcome

AbortTx ==
    /\ exec.busy /\ exec.pos <= Len(exec.tx.ixs)
    /\ ~Accepts(exec, exec.tx.ixs[exec.pos])
    /\ exec' = Idle
    /\ Report(exec.tx, "aborted")
    /\ UNCHANGED <<epoch, poolEpoch, isStaker, status, ledger, inflight, interference,
                   pc, run, request, scheme, view, reserveLamports, next, tx,
                   plan, added, undisturbed>>

CommitTx ==
    /\ exec.busy /\ exec.pos > Len(exec.tx.ixs)
    /\ ledger' = exec.ledger
    /\ exec' = Idle
    /\ Report(exec.tx, "confirmed")
    /\ undisturbed' = (undisturbed /\ exec.tx.run = run)
    /\ UNCHANGED <<epoch, poolEpoch, isStaker, status, inflight, interference,
                   pc, run, request, scheme, view, reserveLamports, next, tx, plan, added>>

\* The blockhash runs out before the transaction is included in a block.
ExpireTx(t) ==
    /\ ~exec.busy
    /\ inflight' = inflight \ {t}
    /\ Report(t, "expired")
    /\ UNCHANGED <<epoch, poolEpoch, isStaker, status, ledger, exec, interference,
                   pc, run, request, scheme, view, reserveLamports, next, tx,
                   plan, added, undisturbed>>

-----------------------------------------------------------------------------
(* The rest of the world.                                                  *)

\* What a step of somebody else leaves alone.
NotTheCommand == UNCHANGED <<inflight, exec, commandVars, plan>>

AdvanceEpoch ==
    /\ ~exec.busy /\ epoch < MaxEpoch
    /\ epoch' = epoch + 1
    /\ undisturbed' = FALSE
    /\ NotTheCommand
    /\ UNCHANGED <<poolEpoch, isStaker, status, ledger, interference, added>>

\* The update crank, run by anyone, merges what an earlier epoch left behind ...
MergeTransient(v) ==
    LET t == ledger.tsa[v]
    IN  /\ ~exec.busy /\ IsStale(t)
        /\ ledger' =
             [stake   |-> [ledger.stake EXCEPT
                             ![v] = @ + (IF t.deactivation = Never THEN t.stake ELSE 0)],
              tsa     |-> [ledger.tsa EXCEPT ![v] = NoTsa],
              reserve |-> ledger.reserve
                          + (IF t.deactivation = Never THEN 0 ELSE t.stake)]
        /\ undisturbed' = FALSE
        /\ NotTheCommand
        /\ UNCHANGED <<epoch, poolEpoch, isStaker, status, interference, added>>

\* ... and closes the epoch's update, with --no-merge before all of them are merged.
FinishUpdate ==
    /\ ~exec.busy /\ poolEpoch < epoch
    /\ poolEpoch' = epoch
    /\ undisturbed' = FALSE
    /\ NotTheCommand
    /\ UNCHANGED <<epoch, isStaker, status, ledger, interference, added>>

Interfere ==
    /\ ~exec.busy /\ interference < MaxInterference
    /\ interference' = interference + 1
    /\ undisturbed' = FALSE
    /\ NotTheCommand /\ UNCHANGED <<epoch, poolEpoch>>

DepositSol ==
    /\ Interfere
    /\ ledger' = [ledger EXCEPT !.reserve = @ + UserAmount]
    /\ UNCHANGED <<isStaker, status, added>>

WithdrawSol ==
    /\ ledger.reserve >= UserAmount + Rent
    /\ Interfere
    /\ ledger' = [ledger EXCEPT !.reserve = @ - UserAmount]
    /\ UNCHANGED <<isStaker, status, added>>

WithdrawStake(v) ==
    /\ HasVsa(v) /\ ledger.stake[v] >= UserAmount + MinActive
    /\ Interfere
    /\ ledger' = [ledger EXCEPT !.stake = [ledger.stake EXCEPT ![v] = @ - UserAmount]]
    /\ UNCHANGED <<isStaker, status, added>>

\* Stake that is added to a validator: by a deposit of a user, which the program takes for an
\* active validator of an updated pool, or by rewards, which arrive in whatever state it is.
AddStake(v) ==
    /\ HasVsa(v)
    /\ Interfere
    /\ ledger' = [ledger EXCEPT !.stake = [ledger.stake EXCEPT ![v] = @ + UserAmount]]
    /\ added' = [added EXCEPT ![v] = @ + UserAmount]
    /\ UNCHANGED <<isStaker, status>>

RemoveValidator(v) ==
    /\ status[v] = "Active"
    /\ Interfere
    /\ status' = [status EXCEPT ![v] = IF ledger.tsa[v] = NoTsa
                                       THEN "DeactivatingValidator" ELSE "DeactivatingAll"]
    /\ UNCHANGED <<isStaker, ledger, added>>

ReplaceStaker ==
    /\ isStaker
    /\ Interfere
    /\ isStaker' = FALSE
    /\ UNCHANGED <<status, ledger, added>>

-----------------------------------------------------------------------------
(* The command.                                                            *)

Ended   == {"idle", "done", "panicked", "crashed"}
Running == {"fetch_list", "fetch_stakes", "aim", "plan", "confirm"}

\* handle_tx_full and every failed check unwrap or panic: the process is gone.
Panic == pc' = "panicked"

\* Read the config, put Remainder last, validate; then the first RPC call: pool and clock.
FetchPool ==
    /\ pc \in Ended /\ run < MaxRuns
    /\ ~exec.busy /\ (RerunWhileInFlight \/ inflight = {})
    /\ run' = run + 1
    /\ scheme' = RemainderLast(request.scheme)
    /\ \/ /\ ~(IsSchemeValid(scheme') /\ isStaker)
          /\ Panic
          /\ UNCHANGED view
       \/ /\ IsSchemeValid(scheme') /\ isStaker
          /\ view' = [view EXCEPT !.epoch = epoch]
          /\ pc' = "fetch_list"
    /\ next' = 1 /\ tx' = <<>> /\ outcome' = "none" /\ plan' = <<>>
    /\ undisturbed' = (/\ inflight = {} /\ poolEpoch = epoch
                       /\ \A v \in Validators : ~IsStale(ledger.tsa[v]))
    /\ UNCHANGED <<chainVars, request, reserveLamports, added>>

\* The second call: validator list and reserve, one consistent pair.
FetchList ==
    /\ pc = "fetch_list"
    /\ view' = [view EXCEPT !.status = status]
    /\ reserveLamports' = ledger.reserve
    /\ IF \E i \in DOMAIN scheme : status[scheme[i].vote] = Absent
       THEN Panic                               \* "not part of pool"
       ELSE pc' = "fetch_stakes"
    /\ UNCHANGED <<chainVars, run, request, scheme, next, tx, outcome, plan, added,
                   undisturbed>>

\* The third call: both stake accounts of every configured validator.
FetchStakes ==
    /\ pc = "fetch_stakes"
    /\ IF \E i \in DOMAIN scheme : ~HasVsa(scheme[i].vote)
       THEN Panic /\ UNCHANGED <<view, added>>  \* the unwrap of a missing account
       ELSE /\ view' = [view EXCEPT !.stake = ledger.stake, !.tsa = ledger.tsa]
            /\ added' = [v \in Validators |-> 0]
            /\ pc' = IF request.kind = "sync" THEN "plan" ELSE "aim"
    /\ UNCHANGED <<chainVars, run, request, scheme, reserveLamports, next, tx, outcome,
                   plan, undisturbed>>

\* What increase-validator-stake takes "all" for: it keeps back another lamports_for_new_vsa
\* than the planner does, the one of the library.
AllOfReserve == SatSub(reserveLamports, 2 * LibNewVsa)

\* desired_stake of increase-validator-stake and decrease-validator-stake: relative to what
\* the validator will have, and for "all" what the reserve can give, or nothing at all.
DesiredStake(v) ==
    CASE request.kind = "increase" ->
           SatAdd(NextEpochStake(v), IF request.amt = All THEN AllOfReserve ELSE request.amt)
      [] request.kind # "increase" /\ request.amt = All -> 0
      [] OTHER -> SatSub(NextEpochStake(v), request.amt)

Aim ==
    /\ pc = "aim"
    /\ scheme' = [i \in DOMAIN scheme |-> [vote   |-> scheme[i].vote,
                                           target |-> DesiredStake(scheme[i].vote)]]
    /\ pc' = "plan"
    /\ UNCHANGED <<chainVars, run, request, view, reserveLamports, next, tx, outcome,
                   plan, added, undisturbed>>

Item == scheme[next]

\* Chunks are lazy: the changeset is advanced only while the current chunk has room.
Advance(ty, amt) ==
    /\ next' = next + 1
    /\ plan' = Append(plan, [ty |-> ty, amt |-> amt])
    /\ UNCHANGED <<chainVars, pc, run, request, scheme, view, outcome, added, undisturbed>>

CanPlan == pc = "plan" /\ next <= Len(scheme) /\ Len(tx) < ChunkSize

\* Mutant: one seed for all.
EmitSeedZero(kind, amt) ==
    tx' = Append(tx, [kind |-> kind, vote |-> Item.vote, amt |-> amt, seed |-> 0])

\* The ephemeral stake seed is the position of the change, skipped ones included.
Emit(kind, amt) ==
    tx' = Append(tx, [kind |-> kind, vote |-> Item.vote, amt |-> amt, seed |-> next - 1])

\* A new transient account takes its rent from the reserve.
TsaRent == IF TransientStatus(Item.vote) = "None" THEN SaRent ELSE 0

PlanActive == CanPlan /\ view.status[Item.vote] = "Active"

WantsLess == /\ PlanActive
             /\ NextEpochStake(Item.vote) > Desired(Item)
WantsMore == /\ PlanActive
             /\ NextEpochStake(Item.vote) < Desired(Item)
MayDecrease == WantsLess /\ TransientStatus(Item.vote) \in {"Deactivating", "None"}
MayIncrease == WantsMore /\ TransientStatus(Item.vote) \in {"Activating", "None"}

PlanBeingRemoved ==
    /\ CanPlan /\ view.status[Item.vote] # "Active"
    /\ Advance("ValidatorBeingRemoved", 0)
    /\ UNCHANGED <<tx, reserveLamports>>

PlanTransientWrongState ==
    /\ \/ WantsLess /\ TransientStatus(Item.vote) = "Activating"
       \/ WantsMore /\ TransientStatus(Item.vote) = "Deactivating"
    /\ Advance("TransientWrongState", 0)
    /\ UNCHANGED <<tx, reserveLamports>>

PlanInsufficientReserve ==
    /\ \/ MayDecrease /\ reserveLamports < 2 * SaRent
       \/ MayIncrease /\ IncreaseAmt(Item) = 0
    /\ Advance("InsufficientReserveLamports", 0)
    /\ UNCHANGED <<tx, reserveLamports>>

PlanNoChange ==
    /\ \/ PlanActive /\ NextEpochStake(Item.vote) = Desired(Item)
       \/ /\ MayDecrease /\ reserveLamports >= 2 * SaRent
          /\ DecreaseAmt(Item) < MinTsaBalance
    /\ Advance("NoChange", 0)
    /\ UNCHANGED <<tx, reserveLamports>>

PlanDecrease ==
    /\ MayDecrease /\ reserveLamports >= 2 * SaRent
    /\ DecreaseAmt(Item) >= MinTsaBalance
    /\ reserveLamports' = reserveLamports - TsaRent
    /\ Emit("Decrease", DecreaseAmt(Item))
    /\ Advance("DecreaseStake", DecreaseAmt(Item))

PlanIncrease ==
    /\ MayIncrease /\ IncreaseAmt(Item) > 0
    /\ reserveLamports' = reserveLamports - IncreaseAmt(Item) - TsaRent
    /\ Emit("Increase", IncreaseAmt(Item))
    /\ Advance(IF IncreaseAmt(Item) = Desired(Item) - NextEpochStake(Item.vote)
               THEN "IncreaseStake" ELSE "PartialIncreaseStake", IncreaseAmt(Item))

\* A full chunk, or the last one, goes out as one transaction.
SendTx ==
    /\ pc = "plan" /\ tx # <<>>
    /\ Len(tx) = ChunkSize \/ next > Len(scheme)
    /\ inflight' = inflight \cup {[run |-> run, ixs |-> tx]}
    /\ outcome' = "pending"
    /\ pc' = "confirm"
    /\ UNCHANGED <<epoch, poolEpoch, isStaker, status, ledger, exec, interference,
                   run, request, scheme, view, reserveLamports, next, tx, plan, added,
                   undisturbed>>

Confirmed ==
    /\ pc = "confirm" /\ outcome = "confirmed"
    /\ pc' = "plan" /\ tx' = <<>>
    /\ UNCHANGED <<chainVars, run, request, scheme, view, reserveLamports, next, outcome,
                   plan, added, undisturbed>>

\* Mutant: keeps waiting for a transaction whose blockhash has expired.
RejectedIfAborted ==
    /\ pc = "confirm" /\ outcome = "aborted"
    /\ Panic
    /\ UNCHANGED <<chainVars, run, request, scheme, view, reserveLamports, next, tx,
                   outcome, plan, added, undisturbed>>

Rejected ==
    /\ pc = "confirm" /\ outcome \in {"aborted", "expired"}
    /\ Panic
    /\ UNCHANGED <<chainVars, run, request, scheme, view, reserveLamports, next, tx,
                   outcome, plan, added, undisturbed>>

Finish ==
    /\ pc = "plan" /\ tx = <<>> /\ next > Len(scheme)
    /\ pc' = "done"
    /\ UNCHANGED <<chainVars, run, request, scheme, view, reserveLamports, next, tx,
                   outcome, plan, added, undisturbed>>

\* The process is killed or loses its connection; what it sent stays in flight.
Crash ==
    /\ pc \in Running
    /\ pc' = "crashed"
    /\ UNCHANGED <<chainVars, run, request, scheme, view, reserveLamports, next, tx,
                   outcome, plan, added, undisturbed>>

-----------------------------------------------------------------------------

Init ==
    /\ epoch = 1 /\ poolEpoch \in {0, 1} /\ isStaker = TRUE
    /\ status \in InitialStatuses
    /\ ledger \in InitialLedgers
    /\ inflight = {} /\ exec = Idle /\ interference = 0
    /\ pc = "idle" /\ run = 0
    /\ request \in Requests /\ scheme = <<>>
    /\ view = [epoch |-> 0, status |-> [v \in Validators |-> Absent],
               stake |-> [v \in Validators |-> 0], tsa |-> [v \in Validators |-> NoTsa]]
    /\ reserveLamports = 0 /\ next = 1 /\ tx = <<>> /\ outcome = "none"
    /\ plan = <<>> /\ added = [v \in Validators |-> 0] /\ undisturbed = FALSE

PlanNext ==
    \/ PlanBeingRemoved \/ PlanTransientWrongState \/ PlanInsufficientReserve
    \/ PlanNoChange \/ PlanDecrease \/ PlanIncrease

Command == FetchPool \/ FetchList \/ FetchStakes \/ Aim \/ PlanNext \/ SendTx \/ Confirmed
           \/ Rejected \/ Finish

Runtime ==
    \/ \E t \in inflight : BeginTx(t) \/ ExpireTx(t)
    \/ ExecIx \/ AbortTx \/ CommitTx

World ==
    \/ AdvanceEpoch \/ FinishUpdate \/ DepositSol \/ WithdrawSol \/ ReplaceStaker
    \/ \E v \in Validators :
          MergeTransient(v) \/ WithdrawStake(v) \/ AddStake(v) \/ RemoveValidator(v)

Next == Command \/ Crash \/ Runtime \/ World

\* A running process keeps going, and a transaction executes or its blockhash expires.
Fairness ==
    /\ WF_vars(pc \in Running /\ Command)
    /\ WF_vars(Runtime)

Spec == Init /\ [][Next]_vars /\ Fairness

-----------------------------------------------------------------------------
(* Properties.                                                             *)

ViewType == [epoch : 0 .. MaxEpoch, status : [Validators -> Statuses \cup {Absent}],
             stake : [Validators -> Nat], tsa : [Validators -> Tsa]]
Changes  == [ty : {"DecreaseStake", "IncreaseStake", "PartialIncreaseStake",
                   "InsufficientReserveLamports", "NoChange", "TransientWrongState",
                   "ValidatorBeingRemoved"}, amt : Nat]

\* Every variable has its type; in particular no amount of lamports is ever negative,
\* on the chain or in the plan, although the code subtracts with a plain `-`.
TypeOK ==
    /\ epoch \in 1 .. MaxEpoch /\ poolEpoch \in 0 .. MaxEpoch /\ isStaker \in BOOLEAN
    /\ status \in [Validators -> Statuses \cup {Absent}]
    /\ ledger \in Ledger
    /\ inflight \subseteq Tx
    /\ exec \in [busy : BOOLEAN, tx : Tx, pos : Nat \ {0}, ledger : Ledger,
                 seeds : SUBSET Nat]
    /\ interference \in 0 .. MaxInterference
    /\ pc \in Ended \cup Running /\ run \in 0 .. MaxRuns
    /\ request \in Request /\ scheme \in Seq(SchemeItem)
    /\ view \in ViewType
    /\ reserveLamports \in Nat /\ next \in Nat \ {0}
    /\ tx \in Seq(Ix)
    /\ outcome \in {"none", "pending", "confirmed", "aborted", "expired"}
    /\ plan \in Seq(Changes) /\ added \in [Validators -> Nat] /\ undisturbed \in BOOLEAN

\* What the pool will have delegated to v once its transient account has settled:
\* stake that is on its way out no longer counts, stake on its way in does.
Effective(l, v) ==
    l.stake[v] + (IF l.tsa[v].deactivation = Never THEN l.tsa[v].stake ELSE 0)

\* The planner never spends the rent of the next stake account: once it has emitted an
\* instruction, the running reserve still holds lamports_for_new_vsa, so the unchecked
\* subtractions of DelegationChangeset::next cannot wrap around.
ReserveKeepsRent ==
    \A i \in DOMAIN plan :
        plan[i].amt > 0 => reserveLamports >= SaRent

\* No two instructions of one transaction share an ephemeral stake account.
\* ("cannot use same ephemeral stake seed in same tx because solana accounts are not
\* cleaned up until the end of the tx")
EphemeralSeedsDistinct ==
    \A t \in inflight \cup {exec.tx, [run |-> run, ixs |-> tx]} :
        \A i, j \in DOMAIN t.ixs : t.ixs[i].seed = t.ixs[j].seed => i = j

\* While nobody else touches the pool the chain accepts every transaction of the run:
\* the plan made from the three reads stays within what the program checks when the
\* instructions execute, chunk after chunk.
UndisturbedRunNeverAborts ==
    undisturbed => outcome # "aborted"

\* The Remainder validator gets a stake increase only after every fixed target has had
\* all it asked for.
RemainderYields ==
    \A i, j \in DOMAIN plan :
        /\ IsRemainder(scheme[j])
        /\ plan[j].ty \in {"IncreaseStake", "PartialIncreaseStake"}
        => \/ i = j
           \/ plan[i].ty \notin {"PartialIncreaseStake", "InsufficientReserveLamports"}

\* After an undisturbed run that ended, every validator it could serve has its target, or
\* exceeds it by less than what is too little to split off.
SettledAfterRun ==
    pc = "done" /\ undisturbed =>
        \A i \in DOMAIN plan :
            LET v == scheme[i].vote
            IN  plan[i].ty \in {"DecreaseStake", "IncreaseStake", "NoChange"}
                /\ TransientStatus(v) # "Deactivating"
                => /\ Effective(ledger, v) >= Desired(scheme[i])
                   /\ Effective(ledger, v) < Desired(scheme[i]) + MinActive + MinTsaBalance

\* No transaction of the command lifts a validator above its target by more than the stake
\* others have added to it since the run read it, whatever else happened between the reads and
\* the execution, and after crashes and reruns too (as long as a run starts only once the
\* transactions of the previous one are settled).
NeverOvershoots ==
    [][CommitTx =>
         \A i \in DOMAIN scheme :
            LET v == scheme[i].vote
            IN  \/ Effective(ledger', v) <= Effective(ledger, v)
                \/ Effective(ledger', v) <= Desired(scheme[i]) + added[v]]_vars

\* A decrease never takes a validator below its target, although the plan counts stake that
\* has left the validator stake account as if it still had to leave.
NeverUndershoots ==
    [][CommitTx /\ undisturbed' =>
         \A i \in DOMAIN scheme :
            LET v == scheme[i].vote
            IN  \/ Effective(ledger', v) >= Effective(ledger, v)
                \/ Effective(ledger', v) >= Desired(scheme[i])]_vars

\* "vsa should always exist": every validator of the list that the config names has its
\* validator stake account when the third call asks for it.
VsaAlwaysExists ==
    pc = "fetch_stakes" => \A i \in DOMAIN scheme : HasVsa(scheme[i].vote)

\* A run that is started ends: it finishes or its process is gone.
RunEnds == (pc \in Running) ~> (pc \in Ended)

=============================================================================
