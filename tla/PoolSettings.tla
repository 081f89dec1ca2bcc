---------------------------- MODULE PoolSettings ----------------------------
(***************************************************************************)
(* The settings of a stake pool that its manager controls, and how the CLI *)
(* brings them in line with a target: the changeset that SyncPoolConfig    *)
(* computes from the settings it was given, in the order in which the      *)
(* instructions go into one transaction.  Used by SyncPool, which plans    *)
(* from fetched settings, and by CreatePool, which plans from a dummy.     *)
(*                                                                         *)
(* Code:     pool_config/sync_pool.rs.                                     *)
(* External: the fee comparison of sanctum_spl_stake_pool_lib and the      *)
(*           instructions of the stake pool program.                       *)
(***************************************************************************)
EXTENDS Integers, Sequences, SequencesExt, Selection

CONSTANTS
    Keys,         \* public keys
    None,         \* no key
    DefaultAuth,  \* the pool's default stake deposit authority, a PDA
    Fees,         \* fees, [numerator, denominator]
    Raises        \* pairs <<old, new>> by which a withdrawal fee may go up at once

FundingTypes   == {"StakeDeposit", "SolDeposit", "SolWithdraw"}
WithdrawalFees == {"SolWithdrawal", "StakeWithdrawal"}
DelayedFees    == WithdrawalFees \cup {"Epoch"}
FeeTypes       == DelayedFees \cup {"SolDeposit", "SolReferral", "StakeDeposit", "StakeReferral"}

\* FutureEpochFee: a fee that comes into force in so many epochs, or None.
NotPending == [epochs |-> 0, fee |-> None]
FutureFee  == {NotPending} \cup [epochs : {1, 2}, fee : Fees]

\* What the pool account holds.  A pool without stake deposit authority has the default one.
Settings == [manager : Keys, staker : Keys, feeAccount : Keys,
             auth : [FundingTypes -> Keys \cup {None, DefaultAuth}],
             fee : [FeeTypes -> Fees], next : [DelayedFees -> FutureFee]]

\* What it should hold.
Target == [manager : Keys, staker : Keys, feeAccount : Keys,
           auth : [FundingTypes -> Keys \cup {None, DefaultAuth}], fee : [FeeTypes -> Fees]]

ASSUME SettingsConstants ==
    /\ None \notin Keys /\ DefaultAuth \notin Keys \cup {None}
    /\ Fees \subseteq [numerator : Nat, denominator : Nat] /\ None \notin Fees
    /\ Raises \subseteq Fees \X Fees

-----------------------------------------------------------------------------
(* CmpFee compares fees as fractions; a referral fee of n is n/100 here.   *)

IsZero(f)        == f.numerator = 0 \/ f.denominator = 0
AtMost(f, g)     == \/ IsZero(f)
                    \/ ~IsZero(g) /\ f.numerator * g.denominator <= g.numerator * f.denominator
SameFee(f, g)    == AtMost(f, g) /\ AtMost(g, f)

-----------------------------------------------------------------------------
(* The changeset.                                                          *)

FilterDefault(auth) == IF auth = DefaultAuth THEN None ELSE auth

\* Mutants: a pending fee does not count, or any pending fee will do.
FeeNeedsNoPendingCheck(t, p, f) == ~SameFee(p.fee[f], t.fee[f])
FeeNeedsNothingPending(t, p, f) ==
    /\ ~SameFee(p.fee[f], t.fee[f])
    /\ f \in DelayedFees => p.next[f] = NotPending

\* A fee that is already on its way to the target is not set again.
FeeNeeds(t, p, f) ==
    /\ ~SameFee(p.fee[f], t.fee[f])
    /\ ~(f \in DelayedFees /\ p.next[f] # NotPending /\ SameFee(p.next[f].fee, t.fee[f]))

\* Only for stake deposits is there a default authority, which means none.
Authority(p, a)    == IF a = "StakeDeposit" THEN FilterDefault(p.auth[a]) ELSE p.auth[a]
AuthNeeds(t, p, a) == Authority(p, a) # Authority(t, a)

Change(kind, what) == [kind |-> kind, what |-> what]

\* Mutant: the manager goes first.
OrderManagerFirst ==
    <<Change("Manager", ""),
      Change("Auth", "StakeDeposit"), Change("Auth", "SolDeposit"), Change("Auth", "SolWithdraw"),
      Change("Fee", "Epoch"), Change("Fee", "SolWithdrawal"), Change("Fee", "StakeWithdrawal"),
      Change("Fee", "SolDeposit"), Change("Fee", "SolReferral"),
      Change("Fee", "StakeDeposit"), Change("Fee", "StakeReferral"),
      Change("Staker", ""), Change("FeeAccount", "")>>

\* "do manager last so previous changes can be applied first"
Order ==
    <<Change("Auth", "StakeDeposit"), Change("Auth", "SolDeposit"), Change("Auth", "SolWithdraw"),
      Change("Fee", "Epoch"), Change("Fee", "SolWithdrawal"), Change("Fee", "StakeWithdrawal"),
      Change("Fee", "SolDeposit"), Change("Fee", "SolReferral"),
      Change("Fee", "StakeDeposit"), Change("Fee", "StakeReferral"),
      Change("Staker", ""), Change("FeeAccount", ""), Change("Manager", "")>>

Changes == {Order[i] : i \in DOMAIN Order}

Needs(t, p, c) ==
    CASE c.kind = "Auth"       -> AuthNeeds(t, p, c.what)
      [] c.kind = "Fee"        -> FeeNeeds(t, p, c.what)
      [] c.kind = "Staker"     -> p.staker # t.staker
      [] c.kind = "FeeAccount" -> p.feeAccount # t.feeAccount
      [] c.kind = "Manager"    -> p.manager # t.manager

Changeset(t, p) == Select(Order, {c \in Changes : Needs(t, p, c)})

-----------------------------------------------------------------------------
(* What the program makes of it.                                           *)

\* More than 100%.
TooHigh(f) == f.numerator > f.denominator

\* `signer` is the manager that signs, for every change is the manager's to make; a fee that
\* comes into force with an epoch is only taken when the pool is updated for this one.
Permits(p, signer, updated, t, c) ==
    /\ p.manager = signer
    /\ c.kind = "Fee" => ~TooHigh(t.fee[c.what])
    /\ c.kind = "Fee" /\ c.what \in DelayedFees => updated
    /\ c.kind = "Fee" /\ c.what \in WithdrawalFees =>
          (AtMost(t.fee[c.what], p.fee[c.what]) \/ <<p.fee[c.what], t.fee[c.what]>> \in Raises)

\* The instruction of a change: change_ix with what the program does on it.  Both changes
\* of manager and fee account are SetManager, which always writes the two of them.
Perform(p, signer, t, c) ==
    CASE c.kind = "Auth" ->
           [p EXCEPT !.auth = [p.auth EXCEPT ![c.what] =
               IF c.what = "StakeDeposit" /\ FilterDefault(t.auth[c.what]) = None
               THEN DefaultAuth ELSE t.auth[c.what]]]
      [] c.kind = "Fee" /\ c.what \in DelayedFees ->
           [p EXCEPT !.next = [p.next EXCEPT ![c.what] = [epochs |-> 2, fee |-> t.fee[c.what]]]]
      [] c.kind = "Fee" /\ c.what \notin DelayedFees ->
           [p EXCEPT !.fee = [p.fee EXCEPT ![c.what] = t.fee[c.what]]]
      [] c.kind = "Staker"     -> [p EXCEPT !.staker = t.staker]
      [] c.kind = "FeeAccount" -> [p EXCEPT !.manager = signer, !.feeAccount = t.feeAccount]
      [] c.kind = "Manager"    -> [p EXCEPT !.manager = t.manager, !.feeAccount = t.feeAccount]

\* One transaction: all of the changes, or none.
PerformAll(p, signer, updated, t, cs) ==
    FoldLeft(LAMBDA e, c : IF e.ok /\ Permits(e.settings, signer, updated, t, c)
                           THEN [ok |-> TRUE, settings |-> Perform(e.settings, signer, t, c)]
                           ELSE [ok |-> FALSE, settings |-> p],
             [ok |-> TRUE, settings |-> p], cs)

\* The first update of an epoch puts the fees into force that were one epoch away.
NextEpoch(p) ==
    [p EXCEPT !.fee  = [f \in FeeTypes |-> IF f \in DelayedFees /\ p.next[f].epochs = 1
                                           THEN p.next[f].fee ELSE p.fee[f]],
              !.next = [f \in DelayedFees |-> IF p.next[f].epochs = 2
                                              THEN [p.next[f] EXCEPT !.epochs = 1]
                                              ELSE NotPending]]

-----------------------------------------------------------------------------
(* What a sync is for.                                                     *)

\* The fee that will be in force if nobody changes it again.
Coming(p, f) == IF f \in DelayedFees /\ p.next[f] # NotPending THEN p.next[f].fee ELSE p.fee[f]

\* But for delays the settings are the target's.
Settles(p, t) ==
    /\ p.manager = t.manager /\ p.staker = t.staker /\ p.feeAccount = t.feeAccount
    /\ \A a \in FundingTypes : Authority(p, a) = Authority(t, a)
    /\ \A f \in FeeTypes : SameFee(Coming(p, f), t.fee[f])

\* A fee is what it should be, but something else is pending for it.
PendingAway(p, t) ==
    \E f \in DelayedFees : SameFee(p.fee[f], t.fee[f]) /\ ~SameFee(Coming(p, f), t.fee[f])

=============================================================================
