------------------------------ MODULE SyncPool ------------------------------
(***************************************************************************)
(* `splsp sync-pool`: the manager brings the settings of a pool in line    *)
(* with a config file.  The command fetches the pool once, fills what the  *)
(* file leaves open from it, and sends all changes in one transaction.     *)
(* Between fetch and execution another holder of the manager's key may     *)
(* change the pool, the staker may hand over the role with                 *)
(* `splsp set-staker` and the same file, the transaction of a run that was *)
(* killed may land during a later one, and some fees take two epochs to    *)
(* come into force while the command is run again and again.               *)
(*                                                                         *)
(* Code:     subcmd/sync_pool.rs, subcmd/set_staker.rs, on top of          *)
(*           PoolSettings.                                                 *)
(* External: the stake pool program, other holders of the manager's key.   *)
(***************************************************************************)
EXTENDS PoolSettings

CONSTANTS
    Unset,           \* an option the config file leaves out
    Payer,           \* the config wallet
    Starts,          \* config files with pools the command may find
    OtherTargets,    \* settings other holders of the manager's key want
    MaxInterference, \* bound: steps of theirs
    MaxHandovers,    \* bound: runs of set-staker
    MaxLosses        \* bound: transactions lost and processes killed

\* A signer in a file is a keypair, which stands for its key, or only a public key.
Signer == Keys \cup [pubkey : Keys] \cup {Unset}

\* ConfigRaw.  An authority that is left out is None, there is no Unset for it.
File == [manager : Signer, oldManager : Signer, oldStaker : Signer,
         staker : Keys \cup {Unset}, feeAccount : Keys \cup {Unset},
         auth : [FundingTypes -> Keys \cup {None, DefaultAuth}],
         fee : [FeeTypes -> Fees \cup {Unset}]]

ASSUME SyncConstants ==
    /\ Unset \notin Keys \cup Fees /\ Payer \in Keys
    /\ Keys \cap [pubkey : Keys] = {}
    /\ Starts \subseteq [file : File, settings : Settings]
    /\ OtherTargets \subseteq Target
    /\ {MaxInterference, MaxHandovers, MaxLosses} \subseteq Nat

VARIABLES
    (* the chain *)
    settings,   \* of the pool
    due,        \* an epoch has begun for which the pool is not updated
    late,       \* transactions of killed runs, which may still be executed
    interference, losses,
    (* the command *)
    file, pc,
    fetched,    \* the settings the run fetched
    target, changes,
    (* set-staker *)
    setter, handovers,
    (* history *)
    undisturbed \* nobody else has changed the pool since the fetch

chain   == <<settings, due, late, interference, losses>>
command == <<file, pc, fetched, target, changes>>
handing == <<setter, handovers>>
vars    == <<chain, command, handing, undisturbed>>

-----------------------------------------------------------------------------
(* The command.                                                            *)

Or(option, default) == IF option = Unset THEN default ELSE option

\* parse_signer_pubkey_none: a public key is ignored, "to ignore pubkeys in toml files created
\* from view dumps and fallback to payer".
SignerOr(option, default) == IF option \in Keys THEN option ELSE default

OldManager == SignerOr(file.oldManager, Payer)

\* Mutants: the new staker is read from the old one's option, or is not filled in.
TargetOfOldStaker(f, p) ==
    [manager    |-> SignerOr(f.manager, SignerOr(f.oldManager, Payer)),
     staker     |-> SignerOr(f.oldStaker, p.staker),
     feeAccount |-> Or(f.feeAccount, p.feeAccount),
     auth       |-> f.auth,
     fee        |-> [t \in FeeTypes |-> Or(f.fee[t], p.fee[t])]]
TargetOfNoDefault(f, p) ==
    [manager    |-> SignerOr(f.manager, SignerOr(f.oldManager, Payer)),
     staker     |-> f.staker,
     feeAccount |-> Or(f.feeAccount, p.feeAccount),
     auth       |-> f.auth,
     fee        |-> [t \in FeeTypes |-> Or(f.fee[t], p.fee[t])]]

\* What a file f asks of a pool p.
TargetOf(f, p) ==
    [manager    |-> SignerOr(f.manager, SignerOr(f.oldManager, Payer)),
     staker     |-> Or(f.staker, p.staker),
     feeAccount |-> Or(f.feeAccount, p.feeAccount),
     auth       |-> f.auth,
     fee        |-> [t \in FeeTypes |-> Or(f.fee[t], p.fee[t])]]

\* Mutant: the authority over SOL deposits is not printed.
ListedWithoutSolDeposit(p) ==
    [manager |-> [pubkey |-> p.manager], oldManager |-> Unset, oldStaker |-> Unset,
     staker |-> p.staker, feeAccount |-> p.feeAccount,
     auth |-> [a \in FundingTypes |-> IF a = "SolDeposit" THEN None ELSE Authority(p, a)],
     fee |-> p.fee]

\* The file that `splsp list` prints of a pool: ConfigRaw::set_pool.
Listed(p) ==
    [manager |-> [pubkey |-> p.manager], oldManager |-> Unset, oldStaker |-> Unset,
     staker |-> p.staker, feeAccount |-> p.feeAccount, auth |-> [a \in FundingTypes |-> Authority(p, a)],
     fee |-> p.fee]

Ended == {"idle", "unneeded", "done", "wrong_manager", "rejected", "lost", "dead"}

Fetch ==
    /\ pc \in Ended
    /\ fetched' = settings
    /\ undisturbed' = TRUE
    /\ IF settings.manager # OldManager
       THEN pc' = "wrong_manager" /\ UNCHANGED <<target, changes>>
       ELSE /\ target' = TargetOf(file, settings)
            /\ changes' = Changeset(target', settings)
            /\ pc' = IF changes' = <<>> THEN "unneeded" ELSE "send"
    /\ UNCHANGED <<chain, file, handing>>

Send ==
    /\ pc = "send"
    /\ pc' = "confirm"
    /\ UNCHANGED <<chain, file, fetched, target, changes, handing, undisturbed>>

\* Killed; a transaction that has been sent may still be executed, at any time.
Crash ==
    /\ pc \in {"send", "confirm"} /\ losses < MaxLosses
    /\ losses' = losses + 1
    /\ late' = IF pc = "confirm"
               THEN late \cup {[loss |-> losses, target |-> target, changes |-> changes]} ELSE late
    /\ pc' = "dead"
    /\ UNCHANGED <<settings, due, interference, file, fetched, target, changes, handing, undisturbed>>

-----------------------------------------------------------------------------
(* The chain.                                                              *)

\* What comes of a transaction that is executed now.
Outcome(t, cs) == PerformAll(settings, OldManager, ~due, t, cs)
Result         == Outcome(target, changes)

\* The run that waits for its transaction learns what has become of it.
Learn(how) ==
    /\ pc = "confirm" /\ pc' = how
    /\ UNCHANGED <<due, late, interference, file, fetched, target, changes, handing, undisturbed>>

CommitTx ==
    /\ Learn("done") /\ Result.ok
    /\ settings' = Result.settings
    /\ UNCHANGED losses

AbortTx ==
    /\ Learn("rejected") /\ ~Result.ok
    /\ UNCHANGED <<settings, losses>>

LoseTx ==
    /\ Learn("lost") /\ losses < MaxLosses
    /\ losses' = losses + 1
    /\ UNCHANGED settings

\* The transaction of a killed run is executed, perhaps in the middle of a later run,
LandLate(t) ==
    /\ late' = late \ {t} /\ Outcome(t.target, t.changes).ok
    /\ settings' = Outcome(t.target, t.changes).settings
    /\ undisturbed' = FALSE
    /\ UNCHANGED <<due, interference, losses, command, handing>>

\* or it never is, because it expires or is refused.
DropLate(t) ==
    /\ late' = late \ {t}
    /\ UNCHANGED <<settings, due, interference, losses, command, handing, undisturbed>>

AdvanceEpoch ==
    /\ ~due /\ due' = TRUE
    /\ UNCHANGED <<settings, late, interference, losses, command, handing, undisturbed>>

Update ==
    /\ due /\ due' = FALSE
    /\ settings' = NextEpoch(settings)
    /\ UNCHANGED <<late, interference, losses, command, handing, undisturbed>>

\* Another holder of the manager's key makes one change.
OtherManager(t, c) ==
    /\ interference < MaxInterference
    /\ interference' = interference + 1
    /\ Needs(t, settings, c) /\ Permits(settings, settings.manager, ~due, t, c)
    /\ settings' = Perform(settings, settings.manager, t, c)
    /\ undisturbed' = FALSE
    /\ UNCHANGED <<due, late, losses, command, handing>>

-----------------------------------------------------------------------------
(* set-staker: the staker of the file's old_staker gives the role away.    *)

OldStaker == SignerOr(file.oldStaker, Payer)
NewStaker == Or(file.staker, Payer)

HandoverEnded == {"idle", "unneeded", "wrong_staker", "done", "rejected", "lost"}
OnlyHandover  == UNCHANGED <<due, late, interference, command>>

\* "Curr staker already" is said before the pool is looked at.
SetStaker ==
    /\ setter \in HandoverEnded /\ handovers < MaxHandovers
    /\ handovers' = handovers + 1
    /\ setter' = CASE OldStaker = NewStaker         -> "unneeded"
                   [] OldStaker # settings.staker   -> "wrong_staker"
                   [] OTHER                         -> "confirm"
    /\ UNCHANGED <<settings, losses, undisturbed>> /\ OnlyHandover

\* The program takes it from the staker or the manager.
MaySetStaker == OldStaker \in {settings.staker, settings.manager}

CommitHandover ==
    /\ setter = "confirm" /\ MaySetStaker
    /\ settings' = [settings EXCEPT !.staker = NewStaker]
    /\ setter' = "done" /\ undisturbed' = FALSE
    /\ UNCHANGED <<handovers, losses>> /\ OnlyHandover

FailHandover ==
    /\ setter = "confirm"
    /\ \/ ~MaySetStaker /\ setter' = "rejected" /\ UNCHANGED losses
       \/ losses < MaxLosses /\ losses' = losses + 1 /\ setter' = "lost"
    /\ UNCHANGED <<settings, handovers, undisturbed>> /\ OnlyHandover

-----------------------------------------------------------------------------

Init ==
    /\ \E s \in Starts : file = s.file /\ settings = s.settings
    /\ due = FALSE /\ late = {} /\ interference = 0 /\ losses = 0
    /\ pc = "idle" /\ fetched = settings /\ target = TargetOf(file, settings) /\ changes = <<>>
    /\ setter = "idle" /\ handovers = 0
    /\ undisturbed = FALSE

Runtime == CommitTx \/ AbortTx

Next ==
    \/ Fetch \/ Send \/ Crash \/ Runtime \/ LoseTx \/ AdvanceEpoch \/ Update
    \/ \E t \in late : LandLate(t) \/ DropLate(t)
    \/ SetStaker \/ CommitHandover \/ FailHandover
    \/ \E t \in OtherTargets, c \in Changes : OtherManager(t, c)

\* The fees in force are those of the file.
FeesInForce ==
    \A f \in FeeTypes : file.fee[f] # Unset => SameFee(settings.fee[f], file.fee[f])

\* A process runs on, every transaction is executed, refused or lost, epochs pass, somebody
\* cranks, and the manager runs the command again as long as a fee is not the file's; if that
\* is for ever, not all of its transactions are executed while the pool is not updated.
Fairness ==
    /\ WF_vars(Send) /\ WF_pc(pc = "confirm" /\ pc' \in Ended)
    /\ WF_late(\E t \in late : late' = late \ {t})
    /\ WF_vars(AdvanceEpoch) /\ WF_vars(Update)
    /\ WF_vars(~FeesInForce /\ Fetch)
    /\ []<>(pc = "confirm") => []<><<~due /\ pc = "confirm" /\ pc' \in {"done", "rejected"}>>_pc

Spec == Init /\ [][Next]_vars /\ Fairness

-----------------------------------------------------------------------------
(* Properties.                                                             *)

\* Every variable has its type; at most the "worst case" of 13 changes are sent.
TypeOK ==
    /\ settings \in Settings /\ due \in BOOLEAN
    /\ late \subseteq [loss : 0 .. MaxLosses, target : Target, changes : Seq(Changes)]
    /\ interference \in 0 .. MaxInterference /\ losses \in 0 .. MaxLosses
    /\ file \in File /\ pc \in Ended \cup {"send", "confirm"}
    /\ fetched \in Settings /\ target \in Target
    /\ changes \in Seq(Changes) /\ Len(changes) <= 13
    /\ setter \in HandoverEnded \cup {"confirm"} /\ handovers \in 0 .. MaxHandovers
    /\ undisturbed \in BOOLEAN

\* After a run that confirmed its transaction or found nothing to do, the pool has what the
\* file says, or will have once the delays are over; unless a fee that was right when it was
\* fetched had been set to become something else.
SettledAfterRun ==
    /\ pc \in {"done", "unneeded"} /\ undisturbed
    /\ ~PendingAway(fetched, target)
    => Settles(settings, target)

\* A withdrawal fee goes up too far from the one that was in force when the pool was fetched,
\* or from the one that was pending then and may have come into force since.
TooFar(f) ==
    \E g \in {fetched.fee[f], Coming(fetched, f)} :
        ~AtMost(file.fee[f], g) /\ <<g, file.fee[f]>> \notin Raises

\* If nobody else acts the transaction fails for nothing but one of the file's fees, never for
\* the order of the changes or for what was read: a fee above 100%, a delayed fee on a pool
\* that nobody has updated for the epoch, or a withdrawal fee that goes up too far.
UndisturbedSyncSucceeds ==
    [][AbortTx /\ undisturbed =>
          \E f \in FeeTypes : /\ file.fee[f] # Unset
                            /\ \/ TooHigh(file.fee[f])
                               \/ f \in DelayedFees /\ due
                               \/ f \in WithdrawalFees /\ TooFar(f)]_vars

\* A setting the file leaves out keeps its value, even one that somebody else changed after
\* it was fetched, and however late the transaction; only the fee account falls back when the
\* manager changes.
UnsetIsKept ==
    [][CommitTx \/ (\E t \in late : LandLate(t)) =>
         /\ file.staker = Unset => settings'.staker = settings.staker
         /\ file.feeAccount = Unset /\ TargetOf(file, settings).manager = OldManager
            => settings'.feeAccount = settings.feeAccount
         /\ \A f \in FeeTypes : file.fee[f] = Unset =>
               /\ settings'.fee[f] = settings.fee[f]
               /\ Coming(settings', f) = Coming(settings, f)]_vars

\* The withdrawal fees of the file can be reached in one step, and none of its fees is too high.
WithinReach ==
    \A f \in FeeTypes : file.fee[f] # Unset =>
        /\ ~TooHigh(file.fee[f])
        /\ f \in WithdrawalFees => AtMost(file.fee[f], settings.fee[f])
                                   \/ <<settings.fee[f], file.fee[f]>> \in Raises

\* The staker that set-staker has put in place stays, whatever the two commands make of the
\* same file and in whatever order they land; only another manager can put somebody else there.
HandoverSticks ==
    [][setter = "done" /\ settings.staker = NewStaker /\ UNCHANGED interference
       => settings'.staker = NewStaker]_vars

\* What list prints is a file that sync-pool, run by the manager, takes for the pool's own, at
\* any time and with any fee pending: nothing in it is taken away and the manager's public key
\* is not taken for a new manager.
ListedNeedsNoSync ==
    settings.manager = Payer =>
        Changeset(TargetOf(Listed(settings), settings), settings) = <<>>

\* As long as the command's manager is the pool's and no fee goes up too far, the fees of the
\* file come into force however often the command is run while they are pending or the pool is
\* not updated, dies, lands late or is interfered with.
FeesComeIntoForce ==
    [](settings.manager = OldManager /\ WithinReach) => <>[]FeesInForce

\* "No changes necessary": the pool is what the file says and stays so on its own.
NoChangesNecessary ==
    pc = "unneeded" /\ undisturbed => Settles(settings, target)

=============================================================================
