--------------------------- MODULE SyncPool_proofs ---------------------------
(***************************************************************************)
(* What holds of sync-pool and set-staker for all files, pools, fees and   *)
(* bounds.  The facts about changesets are those of PoolSettings_proofs;   *)
(* here they are carried along a run, from the fetch to the transaction.   *)
(***************************************************************************)
EXTENDS SyncPool, PoolSettings_proofs

-----------------------------------------------------------------------------
(* The invariant.                                                          *)

\* A transaction is the changeset of what the file asks of a pool of the command's manager.
MadeFrom(t, cs, p) ==
    p.manager = OldManager /\ t = TargetOf(file, p) /\ cs = Changeset(t, p)

\* A run that got as far as a target keeps it, and the transactions of killed runs were made
\* of what those had fetched.
PlanInv ==
    /\ pc \notin {"idle", "wrong_manager"} => MadeFrom(target, changes, fetched)
    /\ \A t \in late : \E p \in Settings : MadeFrom(t.target, t.changes, p)

\* While nobody else acts, only time passes over the fetched settings until the transaction
\* has settled them.
AloneInv ==
    undisturbed =>
        /\ pc \in {"send", "confirm", "unneeded"} => Alike(settings, fetched)
        /\ pc = "unneeded" => changes = <<>>
        /\ pc = "done" /\ ~PendingAway(fetched, target) => Settles(settings, target)

-----------------------------------------------------------------------------
(* Types.                                                                  *)

\* A signer stands for a key.
LEMMA SignerOrType ==
    ASSUME NEW option, NEW default \in Keys
    PROVE  SignerOr(option, default) \in Keys
BY DEF SignerOr

\* What a file asks of a pool is a target.
LEMMA TargetOfType ==
    ASSUME NEW f \in File, NEW p \in Settings
    PROVE  TargetOf(f, p) \in Target
<1>1. Payer \in Keys
  BY SyncConstants
<1>2. SignerOr(f.manager, SignerOr(f.oldManager, Payer)) \in Keys
  BY <1>1, SignerOrType
<1>3. Or(f.staker, p.staker) \in Keys /\ Or(f.feeAccount, p.feeAccount) \in Keys
  BY DEF Or, File, Settings
<1>4. f.auth \in [FundingTypes -> Keys \cup {None, DefaultAuth}]
  BY DEF File
<1>5. [t \in FeeTypes |-> Or(f.fee[t], p.fee[t])] \in [FeeTypes -> Fees]
  BY DEF Or, File, Settings
<1> QED  BY <1>2, <1>3, <1>4, <1>5 DEF TargetOf, Target

\* The manager that signs has a key.
LEMMA OldManagerType == OldManager \in Keys
BY SignerOrType, SyncConstants DEF OldManager

\* A changeset is a sequence of changes.
LEMMA ChangesetType ==
    ASSUME NEW t, NEW p
    PROVE  Changeset(t, p) \in Seq(Changes) /\ Len(Changeset(t, p)) <= 13
BY ChangesetIs

\* A transaction leaves the pool with settings.
LEMMA OutcomeType ==
    ASSUME TypeOK, NEW t \in Target, NEW cs, NEW p \in Settings, MadeFrom(t, cs, p),
           Outcome(t, cs).ok
    PROVE  Outcome(t, cs).settings \in Settings
BY CarriedOut, OldManagerType DEF Outcome, TypeOK, MadeFrom

\* Initially every variable has its type.
LEMMA TypeInit == Init => TypeOK
<1> SUFFICES ASSUME Init PROVE TypeOK
  OBVIOUS
<1>1. settings \in Settings /\ file \in File /\ fetched = settings
  BY SyncConstants DEF Init
<1>2. target \in Target /\ late = {} /\ due = FALSE
  BY <1>1, TargetOfType DEF Init
<1>3. changes \in Seq(Changes) /\ Len(changes) <= 13
  BY DEF Init
<1>4. interference \in 0 .. MaxInterference /\ losses \in 0 .. MaxLosses
      /\ handovers \in 0 .. MaxHandovers
  BY SyncConstants DEF Init
<1>5. pc \in Ended /\ setter \in HandoverEnded /\ undisturbed \in BOOLEAN
  BY DEF Init, Ended, HandoverEnded
<1> QED  BY <1>1, <1>2, <1>3, <1>4, <1>5 DEF TypeOK

\* Every step keeps the types and the plan.
LEMMA TypeStep == TypeOK /\ PlanInv /\ [Next]_vars => TypeOK'
<1> SUFFICES ASSUME TypeOK, PlanInv, [Next]_vars
             PROVE  TypeOK'
  OBVIOUS
<1>0. {MaxInterference, MaxHandovers, MaxLosses} \subseteq Nat
  BY SyncConstants
<1> USE DEF TypeOK
<1>1. CASE Fetch
  <2>1. fetched' = settings /\ file' = file /\ undisturbed' = TRUE
    BY <1>1 DEF Fetch
  <2>2. CASE settings.manager # OldManager
    <3>1. pc' = "wrong_manager" /\ target' = target /\ changes' = changes
      BY <1>1, <2>2 DEF Fetch
    <3> QED  BY <1>1, <2>1, <3>1 DEF Fetch, chain, handing, Ended
  <2>3. CASE settings.manager = OldManager
    <3>1. target' = TargetOf(file, settings) /\ changes' = Changeset(target', settings)
          /\ pc' \in {"unneeded", "send"}
      BY <1>1, <2>3 DEF Fetch
    <3>2. target' \in Target /\ changes' \in Seq(Changes) /\ Len(changes') <= 13
      BY <3>1, TargetOfType, ChangesetType
    <3> QED  BY <1>1, <2>1, <3>1, <3>2 DEF Fetch, chain, handing, Ended
  <2> QED  BY <2>2, <2>3
<1>2. CASE Send
  BY <1>2 DEF Send, chain, handing
<1>3. CASE Crash
  <2>1. losses \in 0 .. MaxLosses /\ losses' \in 0 .. MaxLosses
    BY <1>0, <1>3 DEF Crash
  <2>2. late' \subseteq [loss : 0 .. MaxLosses, target : Target, changes : Seq(Changes)]
    BY <1>3, <2>1 DEF Crash
  <2> QED  BY <1>3, <2>1, <2>2 DEF Crash, handing, Ended
<1>4. CASE CommitTx
  <2>1. settings' \in Settings
    BY <1>4, OutcomeType DEF CommitTx, Learn, Result, PlanInv
  <2> QED  BY <1>4, <2>1 DEF CommitTx, Learn, handing, Ended
<1>5. CASE AbortTx
  BY <1>5 DEF AbortTx, Learn, handing, Ended
<1>6. CASE LoseTx
  BY <1>0, <1>6 DEF LoseTx, Learn, handing, Ended
<1>7. ASSUME NEW t \in late, LandLate(t)
       PROVE  TypeOK'
  <2>1. t.target \in Target /\ \E p \in Settings : MadeFrom(t.target, t.changes, p)
    BY DEF PlanInv
  <2>2. settings' \in Settings
    BY <1>7, <2>1, OutcomeType DEF LandLate
  <2> QED  BY <1>7, <2>2 DEF LandLate, command, handing
<1>8. ASSUME NEW t \in late, DropLate(t)
       PROVE  TypeOK'
  BY <1>8 DEF DropLate, command, handing
<1>9. CASE AdvanceEpoch
  BY <1>9 DEF AdvanceEpoch, command, handing
<1>10. CASE Update
  <2>1. settings' \in Settings
    BY <1>10, NextEpochIs DEF Update
  <2> QED  BY <1>10, <2>1 DEF Update, command, handing
<1>11. CASE SetStaker
  BY <1>0, <1>11 DEF SetStaker, OnlyHandover, command, HandoverEnded
<1>12. CASE CommitHandover
  <2>1. NewStaker \in Keys
    BY SyncConstants DEF NewStaker, Or, File
  <2>2. settings' \in Settings
    BY <1>12, <2>1 DEF CommitHandover, Settings
  <2> QED  BY <1>12, <2>2 DEF CommitHandover, OnlyHandover, command, HandoverEnded
<1>13. CASE FailHandover
  BY <1>0, <1>13 DEF FailHandover, OnlyHandover, command, HandoverEnded
<1>14. ASSUME NEW t \in OtherTargets, NEW c \in Changes, OtherManager(t, c)
       PROVE  TypeOK'
  <2>1. t \in Target /\ settings.manager \in Keys
    BY SyncConstants DEF Settings
  <2>2. Perform(settings, settings.manager, t, c) \in Settings
    BY <2>1, PerformIs
  <2>3. settings' \in Settings
    BY <1>14, <2>2 DEF OtherManager
  <2>4. interference' \in 0 .. MaxInterference
    BY <1>0, <1>14 DEF OtherManager
  <2>5. UNCHANGED <<due, late, losses, file, pc, fetched, target, changes, setter, handovers>>
        /\ undisturbed' \in BOOLEAN
    BY <1>14 DEF OtherManager, command, handing
  <2> QED  BY <2>3, <2>4, <2>5
<1>15. CASE UNCHANGED vars
  BY <1>15 DEF vars, chain, command, handing
<1> QED
  BY <1>1, <1>2, <1>3, <1>4, <1>5, <1>6, <1>9, <1>10, <1>11, <1>12, <1>13, <1>14, <1>15, <1>7,
     <1>8
     DEF Next, Runtime

-----------------------------------------------------------------------------
(* The plan.                                                               *)

\* There is no plan before the first fetch.
LEMMA PlanInit == Init => PlanInv
BY DEF Init, PlanInv

\* A plan stays as it is until the next fetch, and what a killed run has sent stays for ever.
LEMMA PlanStep == TypeOK /\ PlanInv /\ [Next]_vars => PlanInv'
<1> SUFFICES ASSUME TypeOK, PlanInv, [Next]_vars
             PROVE  PlanInv'
  OBVIOUS
<1>1. file' = file
  BY DEF Next, Runtime, Fetch, Send, Crash, CommitTx, AbortTx, LoseTx, Learn, AdvanceEpoch, Update,
         LandLate, DropLate, SetStaker, CommitHandover, FailHandover, OnlyHandover, OtherManager,
         vars, command
<1>2. OldManager' = OldManager
  BY <1>1 DEF OldManager
<1>3. ASSUME NEW t \in late, NEW p \in Settings, MadeFrom(t.target, t.changes, p)
      PROVE  /\ p.manager = OldManager' /\ t.target = TargetOf(file', p)
             /\ t.changes = Changeset(t.target, p)
  BY <1>1, <1>2, <1>3 DEF MadeFrom
<1>4. ASSUME late' \subseteq late
      PROVE  \A t \in late' : \E p \in Settings : MadeFrom(t.target, t.changes, p)'
  BY <1>3, <1>4 DEF PlanInv, MadeFrom
<1>5. ASSUME pc \notin {"idle", "wrong_manager"}, UNCHANGED <<fetched, target, changes>>
      PROVE  MadeFrom(target, changes, fetched)'
  BY <1>1, <1>2, <1>5 DEF PlanInv, MadeFrom
<1>6. CASE Fetch
  <2>1. fetched' = settings /\ late' = late
    BY <1>6 DEF Fetch, chain
  <2>2. CASE settings.manager # OldManager
    BY <1>4, <1>6, <2>1, <2>2 DEF Fetch, PlanInv
  <2>3. CASE settings.manager = OldManager
    <3>1. target' = TargetOf(file, settings) /\ changes' = Changeset(target', settings)
      BY <1>6, <2>3 DEF Fetch
    <3>2. MadeFrom(target, changes, fetched)'
      BY <1>1, <1>2, <2>1, <2>3, <3>1 DEF MadeFrom
    <3> QED  BY <1>4, <2>1, <3>2 DEF PlanInv
  <2> QED  BY <2>2, <2>3
<1>7. CASE Crash
  <2>1. pc \in {"send", "confirm"} /\ UNCHANGED <<fetched, target, changes>> /\ fetched \in Settings
    BY <1>7 DEF Crash, TypeOK
  <2>2. MadeFrom(target, changes, fetched)'
    BY <1>5, <2>1
  <2>3. ASSUME NEW t \in late', t \notin late
        PROVE  t.target = target /\ t.changes = changes
    BY <1>7, <2>3 DEF Crash
  <2>4. \A t \in late' : \E p \in Settings : MadeFrom(t.target, t.changes, p)'
    <3> SUFFICES ASSUME NEW t \in late'
                 PROVE  \E p \in Settings : MadeFrom(t.target, t.changes, p)'
      OBVIOUS
    <3>1. CASE t \in late
      BY <1>3, <3>1 DEF PlanInv, MadeFrom
    <3>2. CASE t \notin late
      <4>1. t.target = target' /\ t.changes = changes' /\ fetched' \in Settings
        BY <2>1, <2>3, <3>2
      <4> QED  BY <2>2, <4>1 DEF MadeFrom
    <3> QED  BY <3>1, <3>2
  <2> QED  BY <2>2, <2>4 DEF PlanInv
<1>8. CASE ~Fetch /\ ~Crash
  <2>1. UNCHANGED <<fetched, target, changes>> /\ late' \subseteq late
    BY <1>8 DEF Next, Runtime, Send, CommitTx, AbortTx, LoseTx, Learn, AdvanceEpoch, Update,
         LandLate, DropLate, SetStaker, CommitHandover, FailHandover, OnlyHandover, OtherManager,
         vars, chain, command
  <2>2. pc' \notin {"idle", "wrong_manager"} => pc \notin {"idle", "wrong_manager"}
    BY <1>8 DEF Next, Runtime, Send, CommitTx, AbortTx, LoseTx, Learn, AdvanceEpoch, Update,
         LandLate, DropLate, SetStaker, CommitHandover, FailHandover, OnlyHandover, OtherManager,
         vars, command
  <2> QED  BY <1>4, <1>5, <2>1, <2>2 DEF PlanInv
<1> QED  BY <1>6, <1>7, <1>8

-----------------------------------------------------------------------------
(* A run that is let alone.                                                *)

\* Nothing is undisturbed before the first fetch.
LEMMA AloneInit == Init => AloneInv
BY DEF Init, AloneInv

\* Settings are like themselves.
LEMMA AlikeSelf == ASSUME NEW p PROVE Alike(p, p)
BY DEF Alike

\* A manager's own transaction settles the fetched settings, over which time may have passed.
LEMMA CommitSettles ==
    ASSUME TypeOK, PlanInv, AloneInv, undisturbed, CommitTx, ~PendingAway(fetched, target)
    PROVE  Settles(settings', target)
<1>1. Alike(settings, fetched) /\ changes = Changeset(target, fetched)
  BY DEF AloneInv, PlanInv, MadeFrom, CommitTx, Learn
<1>2. settings' = PerformAll(settings, OldManager, ~due, target, Changeset(target, fetched)).settings
      /\ PerformAll(settings, OldManager, ~due, target, Changeset(target, fetched)).ok
  BY <1>1 DEF CommitTx, Result, Outcome
<1> QED  BY <1>1, <1>2, CarriedOut, OldManagerType DEF TypeOK

\* It is only refused for a fee of the file.
LEMMA AbortForFee ==
    ASSUME TypeOK, PlanInv, AloneInv, undisturbed, AbortTx
    PROVE  \E f \in FeeTypes : /\ file.fee[f] # Unset
                              /\ \/ TooHigh(file.fee[f])
                                 \/ f \in DelayedFees /\ due
                                 \/ f \in WithdrawalFees /\ TooFar(f)
<1>1. /\ Alike(settings, fetched) /\ changes = Changeset(target, fetched)
      /\ fetched.manager = OldManager /\ target = TargetOf(file, fetched)
  BY DEF AloneInv, PlanInv, MadeFrom, AbortTx, Learn
<1>2. settings.manager = OldManager
  BY <1>1 DEF Alike
<1>3. ~PerformAll(settings, settings.manager, ~due, target, Changeset(target, fetched)).ok
  BY <1>1, <1>2 DEF AbortTx, Result, Outcome
<1>4. PICK f \in FeeTypes :
         /\ FeeNeeds(target, fetched, f)
         /\ \/ TooHigh(target.fee[f])
            \/ f \in DelayedFees /\ ~~due
            \/ /\ f \in WithdrawalFees
               /\ ~AtMost(target.fee[f], settings.fee[f])
               /\ <<settings.fee[f], target.fee[f]>> \notin Raises
  BY <1>3, Refused DEF TypeOK
<1>5. file.fee[f] # Unset /\ target.fee[f] = file.fee[f]
  <2>1. target.fee[f] = Or(file.fee[f], fetched.fee[f])
    BY <1>1 DEF TargetOf
  <2>2. SameFee(fetched.fee[f], fetched.fee[f])
    BY SameFeeIs DEF TypeOK, Settings
  <2>3. ~SameFee(fetched.fee[f], target.fee[f])
    BY <1>4 DEF FeeNeeds
  <2> QED  BY <2>1, <2>2, <2>3 DEF Or
<1>6. f \in WithdrawalFees => settings.fee[f] \in {fetched.fee[f], Coming(fetched, f)}
  BY <1>1 DEF Alike, FeeTypes, DelayedFees
<1> QED  BY <1>4, <1>5, <1>6 DEF TooFar

\* Every step of the command and of time keeps it.
LEMMA AloneStep == TypeOK /\ PlanInv /\ AloneInv /\ [Next]_vars => AloneInv'
<1> SUFFICES ASSUME TypeOK, PlanInv, AloneInv, [Next]_vars, undisturbed'
             PROVE  AloneInv'
  BY DEF AloneInv
<1>1. CASE Fetch
  <2>1. fetched' = settings /\ settings' = settings
    BY <1>1 DEF Fetch, chain
  <2>2. Alike(settings', fetched')
    BY <2>1, AlikeSelf
  <2>3. pc' \in {"wrong_manager", "unneeded", "send"} /\ (pc' = "unneeded" => changes' = <<>>)
    BY <1>1 DEF Fetch
  <2> QED  BY <2>2, <2>3 DEF AloneInv
<1>2. CASE Send
  BY <1>2 DEF Send, chain, AloneInv
<1>3. CASE Crash \/ AbortTx \/ LoseTx
  BY <1>3 DEF Crash, AbortTx, LoseTx, Learn, AloneInv
<1>4. CASE CommitTx
  <2>1. pc' = "done" /\ undisturbed /\ UNCHANGED <<fetched, target, changes>>
    BY <1>4 DEF CommitTx, Learn
  <2>2. ~PendingAway(fetched, target) => Settles(settings', target)
    BY <1>4, <2>1, CommitSettles
  <2> QED  BY <2>1, <2>2 DEF AloneInv
<1>5. CASE Update
  <2>1. settings' = NextEpoch(settings) /\ UNCHANGED <<pc, fetched, target, changes>> /\ undisturbed
    BY <1>5 DEF Update, command
  <2>2. Alike(settings', settings)
    BY <2>1, NextEpochIs DEF TypeOK
  <2>3. Alike(settings, fetched) => Alike(settings', fetched)
    BY <2>2, AlikeTrans
  <2>4. Settles(settings, target) => Settles(settings', target)
    BY <2>2, AlikeSettles
  <2> QED  BY <2>1, <2>3, <2>4 DEF AloneInv
<1>6. CASE AdvanceEpoch \/ SetStaker \/ FailHandover \/ UNCHANGED vars
           \/ \E t \in late : DropLate(t)
  <2>1. UNCHANGED <<settings, pc, fetched, target, changes, undisturbed>>
    BY <1>6 DEF AdvanceEpoch, SetStaker, FailHandover, OnlyHandover, DropLate, vars, chain, command
  <2> QED  BY <2>1 DEF AloneInv
<1>7. CASE \/ CommitHandover \/ (\E t \in OtherTargets, c \in Changes : OtherManager(t, c))
           \/ \E t \in late : LandLate(t)
  BY <1>7 DEF CommitHandover, OtherManager, LandLate
<1> QED  BY <1>1, <1>2, <1>3, <1>4, <1>5, <1>6, <1>7 DEF Next, Runtime

-----------------------------------------------------------------------------
(* The theorems.                                                           *)

\* All of it together, with the types that every step relies on.
Invariant == TypeOK /\ PlanInv /\ AloneInv

\* It holds of every state of every behaviour.
LEMMA InvariantHolds == Spec => []Invariant
<1>1. Init => Invariant
  BY TypeInit, PlanInit, AloneInit DEF Invariant
<1>2. Invariant /\ [Next]_vars => Invariant'
  BY TypeStep, PlanStep, AloneStep DEF Invariant
<1> QED  BY <1>1, <1>2, PTL DEF Spec

\* Whatever files, pools and interference there are, every variable keeps its type, and no
\* transaction has more than the 13 changes that the code calls the worst case.
THEOREM TypeCorrect == Spec => []TypeOK
<1>1. Invariant => TypeOK
  BY DEF Invariant
<1> QED  BY <1>1, InvariantHolds, PTL

\* A run that nobody interfered with, and that reports success, has settled the pool, however
\* many epochs have passed meanwhile; unless a fee it found right was on its way out.
THEOREM SettledCorrect == Spec => []SettledAfterRun
<1>1. Invariant => SettledAfterRun
  <2> SUFFICES ASSUME Invariant, pc \in {"done", "unneeded"}, undisturbed,
                      ~PendingAway(fetched, target)
               PROVE  Settles(settings, target)
    BY DEF SettledAfterRun
  <2>1. CASE pc = "done"
    BY <2>1 DEF Invariant, AloneInv
  <2>2. CASE pc = "unneeded"
    <3>1. Alike(settings, fetched) /\ Changeset(target, fetched) = <<>>
      BY <2>2 DEF Invariant, AloneInv, PlanInv, MadeFrom
    <3>2. Settles(fetched, target)
      BY <3>1, UnneededSettles DEF Invariant, TypeOK
    <3> QED  BY <3>1, <3>2, AlikeSettles
  <2> QED  BY <2>1, <2>2
<1> QED  BY <1>1, InvariantHolds, PTL

\* For all files, pools and fees the transaction of a run that is let alone is only refused for
\* a fee of the file, never for the order of its changes, with the manager last, nor for what
\* the run read: one above 100%, a delayed one on a pool that is not updated, or a withdrawal
\* fee that goes up too far.
THEOREM UndisturbedCorrect == Spec => UndisturbedSyncSucceeds
<1>1. Invariant /\ [Next]_vars =>
         [AbortTx /\ undisturbed =>
            \E f \in FeeTypes : /\ file.fee[f] # Unset
                              /\ \/ TooHigh(file.fee[f])
                                 \/ f \in DelayedFees /\ due
                                 \/ f \in WithdrawalFees /\ TooFar(f)]_vars
  BY AbortForFee DEF Invariant
<1> QED  BY <1>1, InvariantHolds, PTL DEF Spec, UndisturbedSyncSucceeds

\* An authority that has been printed and read again is the one that was printed.
LEMMA FilterDefaultTwice ==
    ASSUME NEW auth
    PROVE  FilterDefault(FilterDefault(auth)) = FilterDefault(auth)
BY DEF FilterDefault

\* What list prints of any pool needs no sync by its manager.
LEMMA ListedIsOwn ==
    ASSUME NEW p \in Settings, p.manager = Payer
    PROVE  Changeset(TargetOf(Listed(p), p), p) = <<>>
<1> DEFINE t == TargetOf(Listed(p), p)
<1>1. t.manager = p.manager
  <2>1. Unset \notin Keys /\ [pubkey |-> p.manager] \notin Keys
    BY SyncConstants DEF Settings
  <2> QED  BY <2>1 DEF TargetOf, Listed, SignerOr
<1>2. t.staker = p.staker /\ t.feeAccount = p.feeAccount
  BY DEF TargetOf, Listed, Or
<1>3. \A a \in FundingTypes : ~AuthNeeds(t, p, a)
  <2> SUFFICES ASSUME NEW a \in FundingTypes
               PROVE  Authority(p, a) = Authority(t, a)
    BY DEF AuthNeeds
  <2>1. t.auth[a] = Authority(p, a)
    BY DEF TargetOf, Listed
  <2> HIDE DEF t
  <2> QED  BY <2>1, FilterDefaultTwice DEF Authority
<1>4. \A f \in FeeTypes : ~FeeNeeds(t, p, f)
  <2> SUFFICES ASSUME NEW f \in FeeTypes
               PROVE  ~FeeNeeds(t, p, f)
    OBVIOUS
  <2>1. t.fee[f] = p.fee[f] /\ p.fee[f] \in Fees
    BY DEF TargetOf, Listed, Or, Settings
  <2>2. SameFee(p.fee[f], t.fee[f])
    BY <2>1, SameFeeIs
  <2> HIDE DEF t
  <2> QED  BY <2>2 DEF FeeNeeds
<1> HIDE DEF t
<1>5. ASSUME NEW c \in Changes
      PROVE  ~Needs(t, p, c)
  BY <1>1, <1>2, <1>3, <1>4, ChangeIs, NeedsIs
<1>6. Changeset(t, p) \in Seq(Changes)
      /\ \A j \in 1 .. Len(Changeset(t, p)) : Needs(t, p, Changeset(t, p)[j])
  BY ChangesetIs
<1>7. Len(Changeset(t, p)) = 0
  <2> SUFFICES ASSUME Len(Changeset(t, p)) # 0
               PROVE  FALSE
    OBVIOUS
  <2>1. 1 \in 1 .. Len(Changeset(t, p)) /\ Changeset(t, p)[1] \in Changes
    BY <1>6
  <2> QED  BY <1>5, <1>6, <2>1
<1>8. Changeset(t, p) = <<>>
  BY <1>6, <1>7
<1> QED  BY <1>8 DEF t

\* For every pool that can be reached, printing its settings and syncing them by its manager
\* changes nothing.
THEOREM ListedCorrect == Spec => []ListedNeedsNoSync
<1>1. Invariant => ListedNeedsNoSync
  BY ListedIsOwn DEF Invariant, TypeOK, ListedNeedsNoSync
<1> QED  BY <1>1, InvariantHolds, PTL

\* A transaction leaves alone what the file leaves out, whichever pool it was made from.
LEMMA UnsetOutcome ==
    ASSUME TypeOK, NEW t \in Target, NEW cs, NEW p \in Settings, MadeFrom(t, cs, p),
           Outcome(t, cs).ok, NEW r, r = Outcome(t, cs).settings
    PROVE  /\ r.staker = IF file.staker = Unset THEN settings.staker
                         ELSE IF p.staker # file.staker THEN file.staker ELSE settings.staker
           /\ file.feeAccount = Unset /\ TargetOf(file, settings).manager = OldManager
              => r.feeAccount = settings.feeAccount
           /\ \A f \in FeeTypes : file.fee[f] = Unset =>
                 r.fee[f] = settings.fee[f] /\ Coming(r, f) = Coming(settings, f)
<1>1. p.manager = OldManager /\ t = TargetOf(file, p) /\ cs = Changeset(t, p)
  BY DEF MadeFrom
<1>2. PerformAll(settings, OldManager, ~due, t, Changeset(t, p)).ok
      /\ r = PerformAll(settings, OldManager, ~due, t, Changeset(t, p)).settings
  BY <1>1 DEF Outcome
<1>3. /\ r.staker = IF p.staker # t.staker THEN t.staker ELSE settings.staker
      /\ p.feeAccount = t.feeAccount /\ p.manager = t.manager => r.feeAccount = settings.feeAccount
      /\ \A f \in FeeTypes : ~FeeNeeds(t, p, f) =>
            r.fee[f] = settings.fee[f] /\ Coming(r, f) = Coming(settings, f)
  BY <1>2, CarriedOut, OldManagerType DEF TypeOK
<1>4. t.staker = IF file.staker = Unset THEN p.staker ELSE file.staker
  BY <1>1 DEF TargetOf, Or
<1>5. /\ file.feeAccount = Unset => t.feeAccount = p.feeAccount
      /\ t.manager = TargetOf(file, settings).manager
  BY <1>1 DEF TargetOf, Or
<1>6. ASSUME NEW f \in FeeTypes, file.fee[f] = Unset
      PROVE  ~FeeNeeds(t, p, f)
  <2>1. t.fee[f] = p.fee[f] /\ p.fee[f] \in Fees
    BY <1>1, <1>6 DEF TargetOf, Or, TypeOK, Settings
  <2> QED  BY <2>1, SameFeeIs DEF FeeNeeds
<1> QED  BY <1>1, <1>3, <1>4, <1>5, <1>6

\* So does every transaction of the command, also one that lands late.
LEMMA UnsetStep ==
    ASSUME Invariant, CommitTx \/ \E t \in late : LandLate(t)
    PROVE  /\ file.staker = Unset => settings'.staker = settings.staker
           /\ settings'.staker \in {settings.staker, file.staker}
           /\ file.feeAccount = Unset /\ TargetOf(file, settings).manager = OldManager
              => settings'.feeAccount = settings.feeAccount
           /\ \A f \in FeeTypes : file.fee[f] = Unset =>
                 /\ settings'.fee[f] = settings.fee[f]
                 /\ Coming(settings', f) = Coming(settings, f)
<1>1. \E t \in Target, p \in Settings : \E cs :
         MadeFrom(t, cs, p) /\ Outcome(t, cs).ok /\ settings' = Outcome(t, cs).settings
  <2>1. CASE CommitTx
    <3>1. target \in Target /\ fetched \in Settings /\ MadeFrom(target, changes, fetched)
      BY <2>1 DEF CommitTx, Learn, Invariant, PlanInv, TypeOK
    <3>2. Outcome(target, changes).ok /\ settings' = Outcome(target, changes).settings
      BY <2>1 DEF CommitTx, Result
    <3> QED  BY <3>1, <3>2
  <2>2. ASSUME NEW t \in late, LandLate(t)
        PROVE  \E x \in Target, p \in Settings : \E cs :
                  MadeFrom(x, cs, p) /\ Outcome(x, cs).ok /\ settings' = Outcome(x, cs).settings
    <3>1. t.target \in Target
      BY DEF Invariant, TypeOK
    <3>2. PICK p \in Settings : MadeFrom(t.target, t.changes, p)
      BY DEF Invariant, PlanInv
    <3>3. Outcome(t.target, t.changes).ok /\ settings' = Outcome(t.target, t.changes).settings
      BY <2>2 DEF LandLate
    <3> QED  BY <3>1, <3>2, <3>3
  <2> QED  BY <2>1, <2>2
<1>2. PICK t \in Target, p \in Settings : \E cs : MadeFrom(t, cs, p)
         /\ Outcome(t, cs).ok /\ settings' = Outcome(t, cs).settings
  BY <1>1
<1>3. PICK cs : MadeFrom(t, cs, p) /\ Outcome(t, cs).ok /\ settings' = Outcome(t, cs).settings
  BY <1>2
<1>4. PICK r : r = Outcome(t, cs).settings
  OBVIOUS
<1>5. settings' = r
  BY <1>3, <1>4
<1>6. /\ r.staker = IF file.staker = Unset THEN settings.staker
                    ELSE IF p.staker # file.staker THEN file.staker ELSE settings.staker
      /\ file.feeAccount = Unset /\ TargetOf(file, settings).manager = OldManager
         => r.feeAccount = settings.feeAccount
      /\ \A f \in FeeTypes : file.fee[f] = Unset =>
            r.fee[f] = settings.fee[f] /\ Coming(r, f) = Coming(settings, f)
  BY <1>3, <1>4, UnsetOutcome DEF Invariant
<1>7. \A f \in FeeTypes : Coming(settings', f) = Coming(r, f)
  BY <1>5
<1> QED  BY <1>5, <1>6, <1>7

\* A setting that the file leaves out keeps its value through every transaction, also when
\* others have changed it after it was fetched, and however late it lands.
THEOREM UnsetCorrect == Spec => UnsetIsKept
<1>1. Invariant /\ [Next]_vars =>
         [CommitTx \/ (\E t \in late : LandLate(t)) =>
            /\ file.staker = Unset => settings'.staker = settings.staker
            /\ file.feeAccount = Unset /\ TargetOf(file, settings).manager = OldManager
               => settings'.feeAccount = settings.feeAccount
            /\ \A f \in FeeTypes : file.fee[f] = Unset =>
                  /\ settings'.fee[f] = settings.fee[f]
                  /\ Coming(settings', f) = Coming(settings, f)]_vars
  BY UnsetStep
<1> QED  BY <1>1, InvariantHolds, PTL DEF Spec, UnsetIsKept

\* Neither command takes the role from the staker that set-staker has put in place.
LEMMA HandoverStep ==
    ASSUME Invariant, [Next]_vars, settings.staker = NewStaker, UNCHANGED interference
    PROVE  settings'.staker = NewStaker
<1>1. CASE CommitTx \/ \E t \in late : LandLate(t)
  <2>1. settings'.staker \in {settings.staker, file.staker}
        /\ (file.staker = Unset => settings'.staker = settings.staker)
    BY <1>1, UnsetStep
  <2>2. file.staker # Unset => NewStaker = file.staker
    BY DEF NewStaker, Or
  <2> QED  BY <2>1, <2>2
<1>2. CASE Update
  BY <1>2 DEF Update, NextEpoch, Invariant, TypeOK, Settings
<1>3. CASE CommitHandover
  BY <1>3 DEF CommitHandover, Invariant, TypeOK, Settings
<1>4. ASSUME NEW t \in OtherTargets, NEW c \in Changes, OtherManager(t, c)
      PROVE  FALSE
  BY <1>4, SyncConstants DEF OtherManager, Invariant, TypeOK
<1>5. CASE Fetch \/ Send \/ Crash \/ AbortTx \/ LoseTx \/ AdvanceEpoch \/ SetStaker
           \/ FailHandover \/ UNCHANGED vars \/ \E t \in late : DropLate(t)
  BY <1>5 DEF Fetch, Send, Crash, AbortTx, LoseTx, DropLate, AdvanceEpoch, SetStaker, FailHandover,
              vars, chain
<1> QED  BY <1>1, <1>2, <1>3, <1>4, <1>5 DEF Next, Runtime

\* Whatever the two commands make of the same file, and in whatever order they land, the staker
\* put in place stays until another manager acts.
THEOREM HandoverCorrect == Spec => HandoverSticks
<1>1. Invariant /\ [Next]_vars =>
         [setter = "done" /\ settings.staker = NewStaker /\ UNCHANGED interference
            => settings'.staker = NewStaker]_vars
  BY HandoverStep
<1> QED  BY <1>1, InvariantHolds, PTL DEF Spec, HandoverSticks

=============================================================================
