------------------------ MODULE SyncDelegation_proofs ------------------------
(***************************************************************************)
(* Proofs about SyncDelegation for every choice of its constants.          *)
(***************************************************************************)
EXTENDS SyncDelegation, SequenceTheorems, TLAPS

-----------------------------------------------------------------------------
(* The amounts the planner computes.                                       *)

\* lamports_for_new_vsa and the smallest worthwhile decrease are positive numbers.
LEMMA ConstantsType ==
    /\ SaRent \in Nat \ {0} /\ MinTsaBalance \in Nat \ {0}
    /\ Never \in Nat /\ Never = MaxEpoch + 1
    /\ U64Max \in Nat /\ Rent \in Nat \ {0} /\ MinActive \in Nat \ {0} /\ UserAmount \in Nat
    /\ LibNewVsa \in Nat
BY LamportsAssumption, BoundsAssumption DEF SaRent, MinTsaBalance, Never

\* The next epoch's stake is a number of lamports whatever the transient account holds.
LEMMA NextEpochStakeType ==
    ASSUME view \in ViewType, NEW v \in Validators
    PROVE  NextEpochStake(v) \in Nat
<1>1. view.stake[v] \in Nat /\ view.tsa[v].stake \in Nat
  BY DEF ViewType, Tsa
<1>2. SatSub(view.stake[v], view.tsa[v].stake) \in Nat
  BY <1>1 DEF SatSub
<1>3. SatAdd(view.stake[v], view.tsa[v].stake) \in Nat
  BY <1>1, ConstantsType DEF SatAdd
<1> QED  BY <1>1, <1>2, <1>3 DEF NextEpochStake

\* A target is a number of lamports, u64::MAX for Remainder.
LEMMA DesiredType ==
    ASSUME NEW item \in SchemeItem
    PROVE  Desired(item) \in Nat
BY ConstantsType, RemainderAssumption DEF Desired, SchemeItem

\* An increase takes no more than the reserve holds beyond rent for two stake accounts.
LEMMA IncreaseFits ==
    ASSUME view \in ViewType, reserveLamports \in Nat, NEW item \in SchemeItem,
           NextEpochStake(item.vote) < Desired(item), IncreaseAmt(item) > 0
    PROVE  /\ IncreaseAmt(item) \in Nat
           /\ IncreaseAmt(item) + 2 * SaRent <= reserveLamports
<1>1. item.vote \in Validators
  BY DEF SchemeItem
<1>2. NextEpochStake(item.vote) \in Nat /\ Desired(item) \in Nat
  BY <1>1, NextEpochStakeType, DesiredType
<1> QED  BY <1>2, ConstantsType DEF IncreaseAmt, Least, AvailableStake, SatSub

\* A decrease is a number of lamports.
LEMMA DecreaseType ==
    ASSUME view \in ViewType, NEW item \in SchemeItem
    PROVE  DecreaseAmt(item) \in Nat
<1>1. NextEpochStake(item.vote) \in Nat /\ Desired(item) \in Nat
  BY NextEpochStakeType, DesiredType DEF SchemeItem
<1> QED  BY <1>1, ConstantsType DEF DecreaseAmt, SatSub

\* Moving the Remainder entry to the end yields a delegation scheme again.
LEMMA RemainderLastType ==
    ASSUME NEW s \in Seq(SchemeItem)
    PROVE  RemainderLast(s) \in Seq(SchemeItem)
<1>1. CASE \E i \in DOMAIN s : IsRemainder(s[i])
  <2> DEFINE i == CHOOSE i \in DOMAIN s : IsRemainder(s[i])
  <2>1. i \in 1 .. Len(s) /\ \A k \in 1 .. Len(s) : s[k] \in SchemeItem
    BY <1>1
  <2> HIDE DEF i
  <2>2. SubSeq(s, 1, i - 1) \in Seq(SchemeItem) /\ SubSeq(s, i + 1, Len(s)) \in Seq(SchemeItem)
    BY <2>1, SubSeqProperties
  <2>3. <<s[i]>> \in Seq(SchemeItem)
    BY <2>1
  <2>4. SubSeq(s, 1, i - 1) \o SubSeq(s, i + 1, Len(s)) \o <<s[i]>> \in Seq(SchemeItem)
    BY <2>2, <2>3
  <2> QED  BY <1>1, <2>4 DEF RemainderLast, i
<1>2. CASE ~ \E i \in DOMAIN s : IsRemainder(s[i])
  BY <1>2 DEF RemainderLast
<1> QED  BY <1>1, <1>2

-----------------------------------------------------------------------------
(* What the chain does to a ledger.                                        *)

\* An executed decrease leaves a ledger without negative amounts.
LEMMA ChainDecreaseType ==
    ASSUME NEW l \in Ledger, NEW ix \in Ix, epoch \in 1 .. MaxEpoch,
           l.stake[ix.vote] - ix.amt >= MinActive,
           l.reserve >= RentFor(l.tsa[ix.vote]) + Rent
    PROVE  ChainDecrease(l, ix) \in Ledger
<1> DEFINE v == ix.vote
<1> DEFINE d == [stake |-> l.tsa[v].stake + ix.amt, activation |-> 0, deactivation |-> epoch]
<1>1. v \in Validators /\ ix.amt \in Nat
  BY DEF Ix
<1>2. /\ l.stake \in [Validators -> Nat] /\ l.tsa \in [Validators -> Tsa] /\ l.reserve \in Nat
      /\ l = [stake |-> l.stake, tsa |-> l.tsa, reserve |-> l.reserve]
  BY DEF Ledger
<1>3. l.tsa[v].stake \in Nat
  BY <1>1, <1>2 DEF Tsa
<1>4. d \in Tsa
  BY <1>1, <1>3, ConstantsType, BoundsAssumption DEF Tsa
<1>5. RentFor(l.tsa[v]) \in Nat
  BY ConstantsType DEF RentFor
<1>6. l.stake[v] - ix.amt \in Nat /\ l.reserve - RentFor(l.tsa[v]) \in Nat
  BY <1>1, <1>2, <1>5, ConstantsType
<1>7. ChainDecrease(l, ix) = [stake |-> [l.stake EXCEPT ![v] = @ - ix.amt],
                              tsa |-> [l.tsa EXCEPT ![v] = d],
                              reserve |-> l.reserve - RentFor(l.tsa[v])]
  BY DEF ChainDecrease
<1>8. [l.stake EXCEPT ![v] = @ - ix.amt] \in [Validators -> Nat]
  BY <1>1, <1>2, <1>6
<1>9. [l.tsa EXCEPT ![v] = d] \in [Validators -> Tsa]
  BY <1>2, <1>4
<1> HIDE DEF d, v
<1> QED  BY <1>6, <1>7, <1>8, <1>9 DEF Ledger

\* An executed increase leaves a ledger without negative amounts.
LEMMA ChainIncreaseType ==
    ASSUME NEW l \in Ledger, NEW ix \in Ix, epoch \in 1 .. MaxEpoch,
           l.reserve >= ix.amt + RentFor(l.tsa[ix.vote]) + Rent
    PROVE  ChainIncrease(l, ix) \in Ledger
<1> DEFINE v == ix.vote
<1> DEFINE d == [stake |-> l.tsa[v].stake + ix.amt, activation |-> epoch, deactivation |-> Never]
<1>1. v \in Validators /\ ix.amt \in Nat
  BY DEF Ix
<1>2. /\ l.stake \in [Validators -> Nat] /\ l.tsa \in [Validators -> Tsa] /\ l.reserve \in Nat
      /\ l = [stake |-> l.stake, tsa |-> l.tsa, reserve |-> l.reserve]
  BY DEF Ledger
<1>3. l.tsa[v].stake \in Nat
  BY <1>1, <1>2 DEF Tsa
<1>4. d \in Tsa
  BY <1>1, <1>3, ConstantsType, BoundsAssumption DEF Tsa
<1>5. RentFor(l.tsa[v]) \in Nat
  BY ConstantsType DEF RentFor
<1>6. l.reserve - (ix.amt + RentFor(l.tsa[v])) \in Nat
  BY <1>1, <1>2, <1>5, ConstantsType
<1>7. ChainIncrease(l, ix) = [stake |-> l.stake,
                              tsa |-> [l.tsa EXCEPT ![v] = d],
                              reserve |-> l.reserve - (ix.amt + RentFor(l.tsa[v]))]
  BY DEF ChainIncrease
<1>9. [l.tsa EXCEPT ![v] = d] \in [Validators -> Tsa]
  BY <1>2, <1>4
<1> HIDE DEF d, v
<1> QED  BY <1>2, <1>6, <1>7, <1>9 DEF Ledger

-----------------------------------------------------------------------------
(* Type correctness, one lemma per group of actions.                       *)

\* Every state the command may be started in is well typed.
LEMMA InitTypeOK == Init => TypeOK
<1> SUFFICES ASSUME Init PROVE TypeOK
  OBVIOUS
<1>1. epoch \in 1 .. MaxEpoch /\ poolEpoch \in 0 .. MaxEpoch /\ isStaker \in BOOLEAN
  BY BoundsAssumption DEF Init
<1>2. NoTsa \in Tsa
  BY ConstantsType, BoundsAssumption DEF NoTsa, Tsa
<1>3. Idle \in [busy : BOOLEAN, tx : Tx, pos : Nat \ {0}, ledger : Ledger, seeds : SUBSET Nat]
  <2>1. [stake |-> [v \in Validators |-> 0], tsa |-> [v \in Validators |-> NoTsa],
         reserve |-> 0] \in Ledger
    BY <1>2 DEF Ledger
  <2>2. [run |-> 0, ixs |-> <<>>] \in Tx
    BY DEF Tx
  <2> QED  BY <2>1, <2>2 DEF Idle
<1>4. view \in ViewType
  BY <1>2, BoundsAssumption DEF Init, ViewType
<1>5. status \in [Validators -> Statuses \cup {Absent}] /\ ledger \in Ledger
  BY InitialAssumption DEF Init
<1>6. interference \in 0 .. MaxInterference /\ run \in 0 .. MaxRuns
  BY BoundsAssumption DEF Init
<1>7. request \in Request /\ scheme \in Seq(SchemeItem) /\ tx \in Seq(Ix) /\ plan \in Seq(Changes)
  BY RequestsAssumption DEF Init
<1>8. inflight \subseteq Tx /\ exec = Idle /\ pc \in Ended \cup Running
  BY DEF Init, Ended
<1>9. reserveLamports = 0 /\ next = 1 /\ outcome = "none"
  BY DEF Init
<1>10. undisturbed \in BOOLEAN /\ added \in [Validators -> Nat]
  BY DEF Init
<1> QED  BY <1>1, <1>3, <1>4, <1>5, <1>6, <1>7, <1>8, <1>9, <1>10 DEF TypeOK

\* The start of a run: the sorted scheme and the clock that was read.
LEMMA FetchPoolTypeOK == TypeOK /\ FetchPool => TypeOK'
<1> SUFFICES ASSUME TypeOK, FetchPool PROVE TypeOK'
  OBVIOUS
<1>1. scheme' \in Seq(SchemeItem)
  BY RemainderLastType DEF TypeOK, FetchPool, Request
<1>2. view' \in ViewType
  <2>1. view \in ViewType /\ epoch \in 0 .. MaxEpoch
    BY DEF TypeOK
  <2>2. [view EXCEPT !.epoch = epoch] \in ViewType
    BY <2>1 DEF ViewType
  <2> QED  BY <2>1, <2>2 DEF FetchPool
<1>3. run' \in 0 .. MaxRuns
  BY BoundsAssumption DEF TypeOK, FetchPool
<1>4. undisturbed' \in BOOLEAN
  BY DEF FetchPool
<1>5. pc' \in Ended \cup Running
  BY DEF FetchPool, Panic, Ended, Running
<1> QED
  BY <1>1, <1>2, <1>3, <1>4, <1>5 DEF TypeOK, FetchPool, chainVars

\* The second and third read, or the panic instead of them.
LEMMA FetchTypeOK == TypeOK /\ (FetchList \/ FetchStakes) => TypeOK'
<1>1. ASSUME TypeOK, FetchList PROVE TypeOK'
  <2>1. view' \in ViewType
    BY <1>1 DEF TypeOK, FetchList, ViewType
  <2>2. reserveLamports' \in Nat
    BY <1>1 DEF TypeOK, FetchList, Ledger
  <2>3. pc' \in Ended \cup Running
    BY <1>1 DEF FetchList, Panic, Ended, Running
  <2> QED  BY <1>1, <2>1, <2>2, <2>3 DEF TypeOK, FetchList, chainVars
<1>2. ASSUME TypeOK, FetchStakes PROVE TypeOK'
  <2>1. view' \in ViewType
    BY <1>2 DEF TypeOK, FetchStakes, ViewType, Ledger
  <2>2. pc' \in Ended \cup Running
    BY <1>2 DEF FetchStakes, Panic, Ended, Running
  <2> QED  BY <1>2, <2>1, <2>2 DEF TypeOK, FetchStakes, chainVars
<1> QED  BY <1>1, <1>2

\* The target of a single validator is a number of lamports.
LEMMA DesiredStakeType ==
    ASSUME TypeOK, NEW v \in Validators
    PROVE  DesiredStake(v) \in Nat
<1>1. /\ request.kind \in {"sync", "increase", "decrease"}
      /\ request.amt # All => request.amt \in Nat
  BY DEF TypeOK, Request
<1>2. NextEpochStake(v) \in Nat
  BY NextEpochStakeType DEF TypeOK
<1>3. AllOfReserve \in Nat
  BY ConstantsType DEF TypeOK, AllOfReserve, SatSub
<1>4. ASSUME NEW n \in Nat PROVE SatAdd(NextEpochStake(v), n) \in Nat
  BY <1>2, <1>4, ConstantsType DEF SatAdd
<1>5. ASSUME NEW n \in Nat PROVE SatSub(NextEpochStake(v), n) \in Nat
  BY <1>2, <1>5 DEF SatSub
<1>6. CASE request.kind = "increase"
  BY <1>1, <1>3, <1>4, <1>6 DEF DesiredStake
<1>7. CASE request.kind # "increase"
  BY <1>1, <1>5, <1>7 DEF DesiredStake
<1> QED  BY <1>6, <1>7

\* The scheme a single-validator command plans with.
LEMMA AimScheme ==
    ASSUME TypeOK, Aim
    PROVE  /\ scheme' \in Seq(SchemeItem) /\ Len(scheme') = Len(scheme)
           /\ \A i \in DOMAIN scheme' : ~IsRemainder(scheme'[i])
           /\ \A i \in DOMAIN scheme :
                 scheme'[i] = [vote |-> scheme[i].vote, target |-> DesiredStake(scheme[i].vote)]
<1>1. scheme' = [i \in 1 .. Len(scheme) |-> [vote   |-> scheme[i].vote,
                                            target |-> DesiredStake(scheme[i].vote)]]
  BY DEF TypeOK, Aim
<1>2. ASSUME NEW i \in 1 .. Len(scheme)
      PROVE  scheme[i].vote \in Validators /\ DesiredStake(scheme[i].vote) \in Nat
  <2>1. scheme[i] \in SchemeItem
    BY <1>2, ElementOfSeq DEF TypeOK
  <2>2. scheme[i].vote \in Validators
    BY <2>1 DEF SchemeItem
  <2> QED  BY <2>2, DesiredStakeType
<1>3. scheme' \in Seq(SchemeItem) /\ Len(scheme') = Len(scheme)
  BY <1>1, <1>2 DEF TypeOK, SchemeItem
<1>4. \A i \in DOMAIN scheme' : ~IsRemainder(scheme'[i])
  BY <1>1, <1>2, RemainderAssumption DEF IsRemainder
<1> QED  BY <1>1, <1>3, <1>4 DEF TypeOK

\* Working out the target leaves everything else alone.
LEMMA AimTypeOK == TypeOK /\ Aim => TypeOK'
<1> SUFFICES ASSUME TypeOK, Aim PROVE TypeOK'
  OBVIOUS
<1>1. pc' \in Ended \cup Running
  BY DEF Aim, Running
<1> QED  BY <1>1, AimScheme DEF TypeOK, Aim, chainVars

\* The part of the type invariant that planning one more change touches.
LEMMA AdvanceTypeOK ==
    ASSUME TypeOK, NEW ty, NEW amt \in Nat, Advance(ty, amt),
           [ty |-> ty, amt |-> amt] \in Changes,
           reserveLamports' \in Nat, tx' \in Seq(Ix)
    PROVE  TypeOK'
<1>1. next' \in Nat \ {0} /\ plan' \in Seq(Changes)
  BY DEF TypeOK, Advance
<1> QED  BY <1>1 DEF TypeOK, Advance, chainVars

\* The item the changeset iterator is at.
LEMMA ItemType ==
    ASSUME TypeOK, CanPlan
    PROVE  Item \in SchemeItem /\ Item.vote \in Validators
<1>1. next \in 1 .. Len(scheme)
  BY DEF TypeOK, CanPlan
<1>2. scheme[next] \in SchemeItem
  BY <1>1, ElementOfSeq DEF TypeOK
<1> QED  BY <1>2 DEF Item, SchemeItem

\* Adding an instruction to the chunk keeps it a sequence of instructions.
LEMMA EmitType ==
    ASSUME TypeOK, CanPlan, NEW kind \in {"Increase", "Decrease"}, NEW amt \in Nat,
           Emit(kind, amt)
    PROVE  tx' \in Seq(Ix)
<1>1. Item.vote \in Validators /\ next - 1 \in Nat
  BY ItemType DEF TypeOK
<1>2. [kind |-> kind, vote |-> Item.vote, amt |-> amt, seed |-> next - 1] \in Ix
  BY <1>1 DEF Ix
<1> QED  BY <1>2 DEF TypeOK, Emit

\* Every kind of change leaves a well-typed plan, chunk and running reserve; the plain `-`
\* of DelegationChangeset::next never goes below zero.
LEMMA PlanNextTypeOK == TypeOK /\ PlanNext => TypeOK'
<1>1. ASSUME TypeOK,
             PlanBeingRemoved \/ PlanTransientWrongState \/ PlanInsufficientReserve \/ PlanNoChange
      PROVE  TypeOK'
  <2>1. UNCHANGED <<tx, reserveLamports>>
    BY <1>1 DEF PlanBeingRemoved, PlanTransientWrongState, PlanInsufficientReserve, PlanNoChange
  <2>2. PICK ty \in {"ValidatorBeingRemoved", "TransientWrongState",
                     "InsufficientReserveLamports", "NoChange"} : Advance(ty, 0)
    BY <1>1 DEF PlanBeingRemoved, PlanTransientWrongState, PlanInsufficientReserve, PlanNoChange
  <2>3. reserveLamports' \in Nat /\ tx' \in Seq(Ix)
    BY <1>1, <2>1 DEF TypeOK
  <2> QED  BY <1>1, <2>2, <2>3, AdvanceTypeOK DEF Changes
<1>2. ASSUME TypeOK, PlanDecrease PROVE TypeOK'
  <2>1. CanPlan
    BY <1>2 DEF PlanDecrease, MayDecrease, WantsLess, PlanActive
  <2>2. DecreaseAmt(Item) \in Nat
    BY <1>2, <2>1, ItemType, DecreaseType DEF TypeOK
  <2>3. reserveLamports' \in Nat
    <3>1. reserveLamports' = reserveLamports - TsaRent /\ reserveLamports >= 2 * SaRent
      BY <1>2 DEF PlanDecrease
    <3>2. TsaRent \in {0, SaRent}
      BY DEF TsaRent
    <3>3. reserveLamports \in Nat
      BY <1>2 DEF TypeOK
    <3> QED  BY <3>1, <3>2, <3>3, ConstantsType
  <2>4. tx' \in Seq(Ix)
    BY <1>2, <2>1, <2>2, EmitType DEF PlanDecrease
  <2> QED  BY <1>2, <2>2, <2>3, <2>4, AdvanceTypeOK DEF PlanDecrease, Changes
<1>3. ASSUME TypeOK, PlanIncrease PROVE TypeOK'
  <2>1. CanPlan /\ NextEpochStake(Item.vote) < Desired(Item)
    BY <1>3 DEF PlanIncrease, MayIncrease, WantsMore, PlanActive
  <2>2. /\ IncreaseAmt(Item) \in Nat
        /\ IncreaseAmt(Item) + 2 * SaRent <= reserveLamports
    BY <1>3, <2>1, ItemType, IncreaseFits DEF TypeOK, PlanIncrease
  <2>3. reserveLamports' \in Nat
    <3>1. reserveLamports' = reserveLamports - IncreaseAmt(Item) - TsaRent
      BY <1>3 DEF PlanIncrease
    <3>2. TsaRent \in {0, SaRent}
      BY DEF TsaRent
    <3>3. reserveLamports \in Nat
      BY <1>3 DEF TypeOK
    <3> QED  BY <2>2, <3>1, <3>2, <3>3, ConstantsType
  <2>4. tx' \in Seq(Ix)
    BY <1>3, <2>1, <2>2, EmitType DEF PlanIncrease
  <2>5. PICK ty \in {"IncreaseStake", "PartialIncreaseStake"} : Advance(ty, IncreaseAmt(Item))
    BY <1>3 DEF PlanIncrease
  <2> QED  BY <1>3, <2>2, <2>3, <2>4, <2>5, AdvanceTypeOK DEF Changes
<1> QED  BY <1>1, <1>2, <1>3 DEF PlanNext

\* Sending, learning the outcome, finishing and dying.
LEMMA CommandTypeOK ==
    TypeOK /\ (SendTx \/ Confirmed \/ Rejected \/ Finish \/ Crash) => TypeOK'
<1>1. ASSUME TypeOK, SendTx PROVE TypeOK'
  <2>1. [run |-> run, ixs |-> tx] \in Tx
    BY <1>1, BoundsAssumption DEF TypeOK, Tx
  <2> QED  BY <1>1, <2>1 DEF TypeOK, SendTx, Running
<1>2. ASSUME TypeOK, Confirmed PROVE TypeOK'
  BY <1>2 DEF TypeOK, Confirmed, Running, chainVars
<1>3. ASSUME TypeOK, Rejected PROVE TypeOK'
  BY <1>3 DEF TypeOK, Rejected, Panic, Ended, chainVars
<1>4. ASSUME TypeOK, Finish PROVE TypeOK'
  BY <1>4 DEF TypeOK, Finish, Ended, chainVars
<1>5. ASSUME TypeOK, Crash PROVE TypeOK'
  BY <1>5 DEF TypeOK, Crash, Ended, chainVars
<1> QED  BY <1>1, <1>2, <1>3, <1>4, <1>5

\* The execution of a transaction, instruction by instruction.
LEMMA RuntimeTypeOK == TypeOK /\ Runtime => TypeOK'
<1> USE DEF chainVars, commandVars
<1> DEFINE ExecType == [busy : BOOLEAN, tx : Tx, pos : Nat \ {0}, ledger : Ledger,
                        seeds : SUBSET Nat]
<1>i. Idle \in ExecType
  <2>1. NoTsa \in Tsa
    BY ConstantsType, BoundsAssumption DEF NoTsa, Tsa
  <2>2. [stake |-> [v \in Validators |-> 0], tsa |-> [v \in Validators |-> NoTsa],
         reserve |-> 0] \in Ledger
    BY <2>1 DEF Ledger
  <2>3. [run |-> 0, ixs |-> <<>>] \in Tx
    BY DEF Tx
  <2> QED  BY <2>2, <2>3 DEF Idle
<1>1. ASSUME TypeOK, NEW t \in inflight, BeginTx(t) PROVE TypeOK'
  <2>1. exec' \in ExecType
    BY <1>1 DEF TypeOK, BeginTx
  <2> QED  BY <1>1, <2>1 DEF TypeOK, BeginTx
<1>2. ASSUME TypeOK, NEW t \in inflight, ExpireTx(t) PROVE TypeOK'
  BY <1>2 DEF TypeOK, ExpireTx, Report
<1>3. ASSUME TypeOK, ExecIx PROVE TypeOK'
  <2> DEFINE ix == exec.tx.ixs[exec.pos]
  <2>1. exec \in ExecType /\ exec.ledger \in Ledger
    BY <1>3 DEF TypeOK
  <2>2. ix \in Ix
    <3>1. exec.tx.ixs \in Seq(Ix) /\ exec.pos \in 1 .. Len(exec.tx.ixs)
      BY <1>3, <2>1 DEF ExecIx, Tx
    <3> QED  BY <3>1, ElementOfSeq
  <2>3. Accepts(exec, ix)
    BY <1>3 DEF ExecIx
  <2> DEFINE l == IF ix.kind = "Decrease" THEN ChainDecrease(exec.ledger, ix)
                  ELSE ChainIncrease(exec.ledger, ix)
  <2>4. l \in Ledger
    <3>1. epoch \in 1 .. MaxEpoch
      BY <1>3 DEF TypeOK
    <3>2. ASSUME ix.kind = "Decrease" PROVE ChainDecrease(exec.ledger, ix) \in Ledger
      BY <2>1, <2>2, <2>3, <3>1, <3>2, ChainDecreaseType DEF Accepts
    <3>3. ASSUME ix.kind # "Decrease" PROVE ChainIncrease(exec.ledger, ix) \in Ledger
      BY <2>1, <2>2, <2>3, <3>1, <3>3, ChainIncreaseType DEF Accepts
    <3> QED  BY <3>2, <3>3
  <2>5. exec' = [exec EXCEPT !.pos = @ + 1, !.seeds = @ \cup {ix.seed}, !.ledger = l]
    BY <1>3 DEF ExecIx
  <2>6. ix.seed \in Nat
    BY <2>2 DEF Ix
  <2> HIDE DEF l, ix
  <2>7. exec.pos + 1 \in Nat \ {0} /\ exec.seeds \cup {ix.seed} \in SUBSET Nat
    BY <2>1, <2>6
  <2>8. exec' = [exec EXCEPT !.pos = exec.pos + 1, !.seeds = exec.seeds \cup {ix.seed},
                             !.ledger = l]
    BY <2>5
  <2>9. exec' \in ExecType
    BY <2>1, <2>4, <2>7, <2>8
  <2> QED  BY <1>3, <2>9 DEF TypeOK, ExecIx
<1>4. ASSUME TypeOK, AbortTx PROVE TypeOK'
  BY <1>4, <1>i DEF TypeOK, AbortTx, Report
<1>5. ASSUME TypeOK, CommitTx PROVE TypeOK'
  <2>1. ledger' \in Ledger
    BY <1>5 DEF TypeOK, CommitTx
  <2>2. undisturbed' \in BOOLEAN
    BY <1>5 DEF TypeOK, CommitTx
  <2> QED  BY <1>5, <1>i, <2>1, <2>2 DEF TypeOK, CommitTx, Report
<1> QED  BY <1>1, <1>2, <1>3, <1>4, <1>5 DEF Runtime

\* Epochs, the update crank and the other users.
LEMMA WorldTypeOK == TypeOK /\ World => TypeOK'
<1> USE DEF NotTheCommand, commandVars
<1>1. ASSUME TypeOK, AdvanceEpoch PROVE TypeOK'
  <2>1. epoch' \in 1 .. MaxEpoch
    BY <1>1, BoundsAssumption DEF TypeOK, AdvanceEpoch
  <2> QED  BY <1>1, <2>1 DEF TypeOK, AdvanceEpoch
<1>2. ASSUME TypeOK, FinishUpdate PROVE TypeOK'
  <2>1. poolEpoch' \in 0 .. MaxEpoch
    BY <1>2, BoundsAssumption DEF TypeOK, FinishUpdate
  <2> QED  BY <1>2, <2>1 DEF TypeOK, FinishUpdate
<1>3. ASSUME TypeOK, NEW v \in Validators, MergeTransient(v) PROVE TypeOK'
  <2>1. /\ ledger.stake \in [Validators -> Nat] /\ ledger.tsa \in [Validators -> Tsa]
        /\ ledger.reserve \in Nat
    BY <1>3 DEF TypeOK, Ledger
  <2>2. NoTsa \in Tsa /\ ledger.tsa[v].stake \in Nat
    BY <2>1, ConstantsType, BoundsAssumption DEF NoTsa, Tsa
  <2>3. ledger' \in Ledger
    BY <1>3, <2>1, <2>2 DEF MergeTransient, Ledger
  <2> QED  BY <1>3, <2>3 DEF TypeOK, MergeTransient
<1>4. ASSUME TypeOK, Interfere PROVE interference' \in 0 .. MaxInterference
  BY <1>4, BoundsAssumption DEF TypeOK, Interfere
<1>5. ASSUME TypeOK, DepositSol \/ WithdrawSol PROVE TypeOK'
  <2>1. ledger' \in Ledger
    <3>1. /\ ledger = [stake |-> ledger.stake, tsa |-> ledger.tsa, reserve |-> ledger.reserve]
          /\ ledger.stake \in [Validators -> Nat] /\ ledger.tsa \in [Validators -> Tsa]
          /\ ledger.reserve \in Nat
      BY <1>5 DEF TypeOK, Ledger
    <3>2. PICK r \in Nat : ledger' = [ledger EXCEPT !.reserve = r]
      BY <1>5, <3>1, ConstantsType DEF DepositSol, WithdrawSol
    <3> QED  BY <3>1, <3>2 DEF Ledger
  <2>2. Interfere /\ UNCHANGED <<isStaker, status, added>>
    BY <1>5 DEF DepositSol, WithdrawSol
  <2> QED  BY <1>4, <1>5, <2>1, <2>2 DEF TypeOK, Interfere
<1>6. ASSUME TypeOK, NEW v \in Validators, WithdrawStake(v) PROVE TypeOK'
  <2>1. ledger' \in Ledger
    <3>0. /\ ledger \in Ledger /\ ledger.stake \in [Validators -> Nat]
          /\ ledger.stake[v] >= UserAmount + MinActive
      BY <1>6 DEF TypeOK, WithdrawStake, Ledger
    <3>1. ledger.stake[v] - UserAmount \in Nat
      BY <3>0, ConstantsType
    <3>2. [ledger.stake EXCEPT ![v] = @ - UserAmount] \in [Validators -> Nat]
      BY <3>0, <3>1
    <3>3. ledger' = [ledger EXCEPT !.stake = [ledger.stake EXCEPT ![v] = @ - UserAmount]]
      BY <1>6 DEF WithdrawStake
    <3> QED  BY <3>0, <3>2, <3>3 DEF Ledger
  <2>2. Interfere
    BY <1>6 DEF WithdrawStake
  <2> QED  BY <1>4, <1>6, <2>1, <2>2 DEF TypeOK, WithdrawStake, Interfere
<1>9. ASSUME TypeOK, NEW v \in Validators, AddStake(v) PROVE TypeOK'
  <2>1. ledger' \in Ledger
    <3>0. ledger \in Ledger /\ ledger.stake \in [Validators -> Nat]
      BY <1>9 DEF TypeOK, Ledger
    <3>1. ledger.stake[v] + UserAmount \in Nat
      BY <3>0, ConstantsType
    <3>2. [ledger.stake EXCEPT ![v] = @ + UserAmount] \in [Validators -> Nat]
      BY <3>0, <3>1
    <3>3. ledger' = [ledger EXCEPT !.stake = [ledger.stake EXCEPT ![v] = @ + UserAmount]]
      BY <1>9 DEF AddStake
    <3> QED  BY <3>0, <3>2, <3>3 DEF Ledger
  <2>2. added' \in [Validators -> Nat]
    <3>1. added \in [Validators -> Nat] /\ added[v] + UserAmount \in Nat
      BY <1>9, ConstantsType DEF TypeOK
    <3> QED  BY <1>9, <3>1 DEF AddStake
  <2>3. Interfere
    BY <1>9 DEF AddStake
  <2> QED  BY <1>4, <1>9, <2>1, <2>2, <2>3 DEF TypeOK, AddStake, Interfere
<1>7. ASSUME TypeOK, NEW v \in Validators, RemoveValidator(v) PROVE TypeOK'
  <2>1. status' \in [Validators -> Statuses \cup {Absent}]
    BY <1>7 DEF TypeOK, RemoveValidator, Statuses
  <2>2. Interfere
    BY <1>7 DEF RemoveValidator
  <2> QED  BY <1>4, <1>7, <2>1, <2>2 DEF TypeOK, RemoveValidator, Interfere
<1>8. ASSUME TypeOK, ReplaceStaker PROVE TypeOK'
  <2>1. Interfere
    BY <1>8 DEF ReplaceStaker
  <2> QED  BY <1>4, <1>8, <2>1 DEF TypeOK, ReplaceStaker, Interfere
<1> QED  BY <1>1, <1>2, <1>3, <1>5, <1>6, <1>7, <1>8, <1>9 DEF World

\* Steps that change nothing.
LEMMA StutterTypeOK == TypeOK /\ UNCHANGED vars => TypeOK'
BY DEF TypeOK, vars, chainVars, commandVars

\* Every variable keeps its type: no reachable state has a negative amount of lamports,
\* in the plan or on the chain (the code subtracts u64 values without a check).
THEOREM TypeCorrect == Spec => []TypeOK
<1>1. Init => TypeOK
  BY InitTypeOK
<1>2. TypeOK /\ [Next]_vars => TypeOK'
  BY FetchPoolTypeOK, FetchTypeOK, AimTypeOK, PlanNextTypeOK, CommandTypeOK, RuntimeTypeOK, WorldTypeOK,
     StutterTypeOK DEF Next, Command
<1> QED  BY <1>1, <1>2, PTL DEF Spec

-----------------------------------------------------------------------------
(* The reserve the planner spends.  A plan is made of changes whose order  *)
(* matters: each one lowers the reserve that the later ones may use.       *)

Fetching == {"fetch_list", "fetch_stakes", "aim"}

\* Nothing is planned before the reserve has been read.
PlanStartsEmpty == pc \in Fetching => plan = <<>> /\ next = 1

\* The plan follows the scheme item by item.
PlanFollowsScheme == pc \in {"plan", "confirm"} => Len(plan) = next - 1

\* sort_by did its work.
RemainderAtEnd ==
    pc \in Running => \A i \in DOMAIN scheme : IsRemainder(scheme[i]) => i = Len(scheme)

\* A change that had to make do with less leaves nothing for a later increase.
ShortLeavesNothing ==
    \A i \in DOMAIN plan :
        plan[i].ty \in {"PartialIncreaseStake", "InsufficientReserveLamports"}
        => reserveLamports <= 2 * SaRent

PlanInv == /\ PlanStartsEmpty /\ PlanFollowsScheme /\ RemainderAtEnd /\ ShortLeavesNothing
           /\ ReserveKeepsRent /\ RemainderYields

\* In a valid scheme whose Remainder has been moved, Remainder is the last entry.
LEMMA RemainderLastSorts ==
    ASSUME NEW s \in Seq(SchemeItem), IsSchemeValid(RemainderLast(s))
    PROVE  \A i \in DOMAIN RemainderLast(s) :
              IsRemainder(RemainderLast(s)[i]) => i = Len(RemainderLast(s))
<1>1. CASE \E i \in DOMAIN s : IsRemainder(s[i])
  <2> DEFINE i == CHOOSE i \in DOMAIN s : IsRemainder(s[i])
  <2>1. i \in 1 .. Len(s) /\ IsRemainder(s[i]) /\ \A k \in 1 .. Len(s) : s[k] \in SchemeItem
    BY <1>1
  <2> HIDE DEF i
  <2> DEFINE a == SubSeq(s, 1, i - 1) \o SubSeq(s, i + 1, Len(s))
  <2>2. a \in Seq(SchemeItem)
    <3>1. SubSeq(s, 1, i - 1) \in Seq(SchemeItem) /\ SubSeq(s, i + 1, Len(s)) \in Seq(SchemeItem)
      BY <2>1, SubSeqProperties
    <3> QED  BY <3>1
  <2>3. RemainderLast(s) = a \o <<s[i]>>
    BY <1>1 DEF RemainderLast, i
  <2> HIDE DEF a
  <2>4. /\ Len(a \o <<s[i]>>) = Len(a) + 1 /\ (a \o <<s[i]>>)[Len(a) + 1] = s[i]
        /\ DOMAIN (a \o <<s[i]>>) = 1 .. Len(a) + 1
    <3> PICK e \in SchemeItem : e = s[i]
      BY <2>1
    <3>1. a \o <<e>> = Append(a, e)
      BY <2>2, AppendIsConcat
    <3>2. Append(a, e) \in Seq(SchemeItem) /\ Len(Append(a, e)) = Len(a) + 1
      BY <2>2, AppendProperties
    <3>3. Append(a, e)[Len(a) + 1] = e
      BY <2>2, AppendProperties
    <3>4. DOMAIN Append(a, e) = 1 .. Len(a) + 1
      BY <3>2
    <3> QED  BY <3>1, <3>2, <3>3, <3>4
  <2>5. \A j, k \in DOMAIN RemainderLast(s) :
           IsRemainder(RemainderLast(s)[j]) /\ IsRemainder(RemainderLast(s)[k]) => j = k
    BY DEF IsSchemeValid
  <2>6. Len(a) + 1 \in 1 .. Len(a) + 1
    BY <2>2
  <2>7. /\ Len(RemainderLast(s)) \in DOMAIN RemainderLast(s)
        /\ IsRemainder(RemainderLast(s)[Len(RemainderLast(s))])
    BY <2>1, <2>3, <2>4, <2>6
  <2> QED  BY <2>5, <2>7
<1>2. CASE ~ \E i \in DOMAIN s : IsRemainder(s[i])
  BY <1>2 DEF RemainderLast
<1> QED  BY <1>1, <1>2

\* One more change in the plan: the new entry is the last one, the others stay.
LEMMA AppendPlan ==
    ASSUME TypeOK, CanPlan, PlanFollowsScheme, NEW ty, NEW amt, Advance(ty, amt)
    PROVE  /\ DOMAIN plan = 1 .. next - 1 /\ DOMAIN plan' = 1 .. next
           /\ plan'[next] = [ty |-> ty, amt |-> amt]
           /\ \A i \in 1 .. next - 1 : plan'[i] = plan[i]
           /\ next' = next + 1 /\ Len(plan') = next
           /\ UNCHANGED <<pc, scheme>>
<1>1. plan \in Seq(Changes) /\ Len(plan) = next - 1 /\ next \in Nat \ {0}
  BY DEF TypeOK, CanPlan, PlanFollowsScheme
<1>2. plan' = Append(plan, [ty |-> ty, amt |-> amt]) /\ next' = next + 1
      /\ UNCHANGED <<pc, scheme>>
  BY DEF Advance
<1> QED  BY <1>1, <1>2

\* What a change owes the invariant: it never raises the reserve, what it takes leaves rent
\* for a stake account, an increase needs more than two rents to begin with, and whatever
\* fell short leaves no more than that.
LEMMA ChangeKeepsPlanInv ==
    ASSUME TypeOK, PlanInv, CanPlan, NEW ty, NEW amt \in Nat, Advance(ty, amt),
           reserveLamports' \in Nat, reserveLamports' <= reserveLamports,
           (reserveLamports' = reserveLamports /\ amt = 0) \/ reserveLamports' >= SaRent,
           ty \in {"IncreaseStake", "PartialIncreaseStake"} => reserveLamports > 2 * SaRent,
           ty \in {"PartialIncreaseStake", "InsufficientReserveLamports"}
              => reserveLamports' <= 2 * SaRent
    PROVE  PlanInv'
<1>1. /\ DOMAIN plan = 1 .. next - 1 /\ DOMAIN plan' = 1 .. next
      /\ plan'[next] = [ty |-> ty, amt |-> amt]
      /\ \A i \in 1 .. next - 1 : plan'[i] = plan[i]
      /\ next' = next + 1 /\ Len(plan') = next
      /\ UNCHANGED <<pc, scheme>>
  BY AppendPlan DEF PlanInv
<1>2. next \in 1 .. Len(scheme) /\ pc = "plan" /\ reserveLamports \in Nat
  BY DEF TypeOK, CanPlan
<1>3. PlanStartsEmpty' /\ PlanFollowsScheme' /\ RemainderAtEnd'
  BY <1>1, <1>2 DEF PlanInv, PlanStartsEmpty, PlanFollowsScheme, RemainderAtEnd, Fetching, IsRemainder
<1>4. ShortLeavesNothing'
  BY <1>1, <1>2, ConstantsType DEF PlanInv, ShortLeavesNothing
<1>5. ReserveKeepsRent'
  BY <1>1, <1>2, ConstantsType DEF PlanInv, ReserveKeepsRent
<1>6. RemainderYields'
  <2> SUFFICES ASSUME NEW i \in 1 .. next, NEW j \in 1 .. next, IsRemainder(scheme[j]),
                      plan'[j].ty \in {"IncreaseStake", "PartialIncreaseStake"}, i # j
               PROVE  plan'[i].ty \notin {"PartialIncreaseStake", "InsufficientReserveLamports"}
    BY <1>1 DEF RemainderYields, IsRemainder
  <2>1. j = Len(scheme) /\ j = next
    <3>1. j \in DOMAIN scheme
      BY <1>2 DEF TypeOK
    <3>2. j = Len(scheme)
      BY <1>2, <3>1 DEF PlanInv, RemainderAtEnd, Running
    <3> QED  BY <1>2, <3>2
  <2>2. reserveLamports > 2 * SaRent
    BY <1>1, <2>1
  <2>3. i \in DOMAIN plan /\ plan'[i] = plan[i]
    BY <1>1, <1>2, <2>1
  <2> QED  BY <1>2, <2>2, <2>3, ConstantsType DEF PlanInv, ShortLeavesNothing
<1> QED  BY <1>3, <1>4, <1>5, <1>6 DEF PlanInv

\* Every kind of change keeps the inductive invariant of the plan.
LEMMA PlanNextPlanInv == TypeOK /\ PlanInv /\ PlanNext => PlanInv'
<1>0. ASSUME TypeOK, PlanActive
      PROVE  /\ CanPlan /\ reserveLamports \in Nat /\ Item \in SchemeItem
             /\ NextEpochStake(Item.vote) \in Nat /\ Desired(Item) \in Nat
  BY <1>0, ItemType, NextEpochStakeType, DesiredType DEF PlanActive, TypeOK
<1>1. ASSUME TypeOK, PlanInv, PlanBeingRemoved \/ PlanTransientWrongState \/ PlanNoChange
      PROVE  PlanInv'
  <2>1. CanPlan /\ UNCHANGED reserveLamports
    BY <1>1 DEF PlanBeingRemoved, PlanTransientWrongState, PlanNoChange, WantsLess, WantsMore,
                MayDecrease, PlanActive
  <2>2. PICK ty \in {"ValidatorBeingRemoved", "TransientWrongState", "NoChange"} : Advance(ty, 0)
    BY <1>1 DEF PlanBeingRemoved, PlanTransientWrongState, PlanNoChange
  <2> QED  BY <1>1, <2>1, <2>2, ChangeKeepsPlanInv DEF TypeOK
<1>2. ASSUME TypeOK, PlanInv, PlanInsufficientReserve PROVE PlanInv'
  <2>1. PlanActive /\ UNCHANGED reserveLamports /\ Advance("InsufficientReserveLamports", 0)
    BY <1>2 DEF PlanInsufficientReserve, MayDecrease, MayIncrease, WantsLess, WantsMore
  <2>2. reserveLamports <= 2 * SaRent
    <3>1. CASE MayDecrease /\ reserveLamports < 2 * SaRent
      BY <1>0, <1>2, <2>1, <3>1, ConstantsType
    <3>2. CASE MayIncrease /\ IncreaseAmt(Item) = 0
      <4>1. NextEpochStake(Item.vote) < Desired(Item)
        BY <3>2 DEF MayIncrease, WantsMore
      <4> QED  BY <1>0, <1>2, <2>1, <3>2, <4>1, ConstantsType
               DEF IncreaseAmt, Least, AvailableStake, SatSub
    <3> QED  BY <1>2, <3>1, <3>2 DEF PlanInsufficientReserve
  <2>3. CanPlan /\ reserveLamports \in Nat
    BY <1>0, <1>2, <2>1
  <2> QED  BY <1>2, <2>1, <2>2, <2>3, ChangeKeepsPlanInv
<1>3. ASSUME TypeOK, PlanInv, PlanDecrease PROVE PlanInv'
  <2>1. /\ PlanActive /\ reserveLamports >= 2 * SaRent
        /\ reserveLamports' = reserveLamports - TsaRent
        /\ Advance("DecreaseStake", DecreaseAmt(Item))
    BY <1>3 DEF PlanDecrease, MayDecrease, WantsLess
  <2>2. CanPlan /\ reserveLamports \in Nat /\ DecreaseAmt(Item) \in Nat
    BY <1>0, <1>3, <2>1, DecreaseType DEF TypeOK
  <2>3. TsaRent \in {0, SaRent}
    BY DEF TsaRent
  <2>4. reserveLamports' \in Nat /\ reserveLamports' <= reserveLamports /\ reserveLamports' >= SaRent
    BY <2>1, <2>2, <2>3, ConstantsType
  <2> QED  BY <1>3, <2>1, <2>2, <2>4, ChangeKeepsPlanInv
<1>4. ASSUME TypeOK, PlanInv, PlanIncrease PROVE PlanInv'
  <2> DEFINE n == NextEpochStake(Item.vote)
             d == Desired(Item)
             inc == IncreaseAmt(Item)
             ty == IF inc = d - n THEN "IncreaseStake" ELSE "PartialIncreaseStake"
  <2>1. /\ PlanActive /\ n < d /\ inc > 0
        /\ reserveLamports' = reserveLamports - inc - TsaRent
        /\ Advance(ty, inc)
    BY <1>4 DEF PlanIncrease, MayIncrease, WantsMore
  <2>2. CanPlan /\ reserveLamports \in Nat /\ n \in Nat /\ d \in Nat /\ Item \in SchemeItem
    BY <1>0, <1>4, <2>1
  <2>3. inc \in Nat /\ inc + 2 * SaRent <= reserveLamports
    BY <1>4, <2>1, <2>2, IncreaseFits DEF TypeOK
  <2>4. inc # d - n => inc = reserveLamports - 2 * SaRent
    BY <2>1, <2>2, <2>3, ConstantsType DEF IncreaseAmt, Least, AvailableStake, SatSub
  <2>5. TsaRent \in {0, SaRent}
    BY DEF TsaRent
  <2> HIDE DEF n, d, inc
  <2>6. /\ reserveLamports' \in Nat /\ reserveLamports' <= reserveLamports
        /\ reserveLamports' >= SaRent /\ reserveLamports > 2 * SaRent
        /\ inc # d - n => reserveLamports' <= 2 * SaRent
    BY <2>1, <2>2, <2>3, <2>4, <2>5, ConstantsType
  <2> QED  BY <1>4, <2>1, <2>2, <2>3, <2>6, ChangeKeepsPlanInv
<1> QED  BY <1>1, <1>2, <1>3, <1>4 DEF PlanNext

\* Steps that change neither the plan nor what it was made from.
LEMMA OtherPlanInv ==
    ASSUME PlanInv, UNCHANGED <<plan, scheme, reserveLamports, next>>,
           pc' \in Fetching => pc \in Fetching,
           pc' \in {"plan", "confirm"} => pc \in {"plan", "confirm"}
    PROVE  PlanInv'
<1>1. pc' \in Running => pc \in Running
  BY DEF Fetching, Running
<1> QED
  BY <1>1 DEF PlanInv, PlanStartsEmpty, PlanFollowsScheme, RemainderAtEnd, ShortLeavesNothing,
              ReserveKeepsRent, RemainderYields, IsRemainder

\* Every step of the system keeps the inductive invariant of the plan.
LEMMA NextPlanInv == TypeOK /\ PlanInv /\ [Next]_vars => PlanInv'
<1> SUFFICES ASSUME TypeOK, PlanInv, [Next]_vars PROVE PlanInv'
  OBVIOUS
<1>1. CASE FetchPool
  <2>1. plan' = <<>> /\ next' = 1 /\ scheme' = RemainderLast(request.scheme)
    BY <1>1 DEF FetchPool
  <2>2. (pc' = "fetch_list" /\ IsSchemeValid(scheme')) \/ pc' = "panicked"
    BY <1>1 DEF FetchPool, Panic
  <2>3. request.scheme \in Seq(SchemeItem)
    BY DEF TypeOK, Request
  <2>4. RemainderAtEnd'
    BY <2>1, <2>2, <2>3, RemainderLastSorts DEF RemainderAtEnd, Running, IsRemainder
  <2> QED
    BY <2>1, <2>2, <2>4 DEF PlanInv, PlanStartsEmpty, PlanFollowsScheme, ShortLeavesNothing,
                            ReserveKeepsRent, RemainderYields, Fetching
<1>2. CASE FetchList
  <2>1. /\ pc = "fetch_list" /\ plan = <<>> /\ UNCHANGED <<plan, next, scheme>>
        /\ pc' \in {"fetch_stakes", "panicked"}
    BY <1>2 DEF FetchList, Panic, PlanInv, PlanStartsEmpty, Fetching
  <2> QED
    BY <2>1 DEF PlanInv, PlanStartsEmpty, PlanFollowsScheme, ShortLeavesNothing, RemainderAtEnd,
                ReserveKeepsRent, RemainderYields, Fetching, Running, IsRemainder
<1>3. CASE FetchStakes
  <2>1. /\ pc = "fetch_stakes" /\ plan = <<>> /\ next = 1
        /\ UNCHANGED <<plan, next, scheme, reserveLamports>>
        /\ pc' \in {"plan", "aim", "panicked"}
    BY <1>3 DEF FetchStakes, Panic, PlanInv, PlanStartsEmpty, Fetching
  <2> QED
    BY <2>1 DEF PlanInv, PlanStartsEmpty, PlanFollowsScheme, ShortLeavesNothing, RemainderAtEnd,
                ReserveKeepsRent, RemainderYields, Fetching, Running, IsRemainder
<1>3a. CASE Aim
  <2>1. /\ pc = "aim" /\ plan = <<>> /\ next = 1 /\ pc' = "plan"
        /\ UNCHANGED <<plan, next, reserveLamports>>
    BY <1>3a DEF Aim, PlanInv, PlanStartsEmpty, Fetching
  <2>2. RemainderAtEnd'
    BY <1>3a, AimScheme DEF RemainderAtEnd, IsRemainder
  <2> QED
    BY <2>1, <2>2 DEF PlanInv, PlanStartsEmpty, PlanFollowsScheme, ShortLeavesNothing,
                      ReserveKeepsRent, RemainderYields, Fetching, IsRemainder
<1>4. CASE PlanNext
  BY <1>4, PlanNextPlanInv
<1>5. CASE SendTx \/ Confirmed \/ Rejected \/ Finish \/ Crash
  <2>1. /\ UNCHANGED <<plan, scheme, reserveLamports, next>>
        /\ pc' \in {"plan", "confirm"} => pc \in {"plan", "confirm"}
        /\ pc' \notin Fetching
    BY <1>5 DEF SendTx, Confirmed, Rejected, Finish, Crash, Panic, Fetching
  <2> QED  BY <2>1, OtherPlanInv
<1>6. CASE Runtime
  <2>1. UNCHANGED <<plan, scheme, reserveLamports, next, pc>>
    BY <1>6 DEF Runtime, BeginTx, ExpireTx, ExecIx, AbortTx, CommitTx, commandVars
  <2> QED  BY <2>1, OtherPlanInv
<1>7. CASE World
  <2>1. UNCHANGED <<plan, scheme, reserveLamports, next, pc>>
    BY <1>7 DEF World, AdvanceEpoch, FinishUpdate, MergeTransient, DepositSol, WithdrawSol,
                WithdrawStake, AddStake, RemoveValidator, ReplaceStaker, Interfere, NotTheCommand, commandVars
  <2> QED  BY <2>1, OtherPlanInv
<1>8. CASE UNCHANGED vars
  <2>1. UNCHANGED <<plan, scheme, reserveLamports, next, pc>>
    BY <1>8 DEF vars, commandVars
  <2> QED  BY <2>1, OtherPlanInv
<1> QED  BY <1>1, <1>2, <1>3, <1>3a, <1>4, <1>5, <1>6, <1>7, <1>8 DEF Next, Command

\* Before the first run nothing is planned.
LEMMA InitPlanInv == Init => PlanInv
BY DEF Init, PlanInv, PlanStartsEmpty, PlanFollowsScheme, RemainderAtEnd, ShortLeavesNothing,
       ReserveKeepsRent, RemainderYields, Fetching, Running

\* The inductive invariant of the plan: what was returned so far follows the sorted scheme,
\* and whatever was cut short left no more than rent in the running reserve.
THEOREM PlanCorrect == Spec => []PlanInv
<1>1. TypeOK /\ PlanInv /\ [Next]_vars => PlanInv'
  BY NextPlanInv
<1> QED  BY <1>1, InitPlanInv, TypeCorrect, PTL DEF Spec

\* The running reserve of the changeset never falls below the rent of the next stake account
\* once something has been planned, for every pool, scheme and number of validators.
THEOREM ReserveCorrect == Spec => []ReserveKeepsRent
<1>1. PlanInv => ReserveKeepsRent
  BY DEF PlanInv
<1> QED  BY <1>1, PlanCorrect, PTL

\* Remainder receives stake only if no other validator was short-changed, for every scheme.
THEOREM RemainderCorrect == Spec => []RemainderYields
<1>1. PlanInv => RemainderYields
  BY DEF PlanInv
<1> QED  BY <1>1, PlanCorrect, PTL

-----------------------------------------------------------------------------
(* Ephemeral stake seeds.  The seed of an instruction is its position in   *)
(* the changeset, so the seeds of a chunk increase.                        *)

SeedsIncrease(ixs) ==
    \A i, j \in DOMAIN ixs : i < j => ixs[i].seed < ixs[j].seed

SeedInv ==
    /\ \A t \in inflight : SeedsIncrease(t.ixs)
    /\ SeedsIncrease(exec.tx.ixs)
    /\ SeedsIncrease(tx)
    /\ \A i \in DOMAIN tx : tx[i].seed < next - 1

\* Seeds are numbers.
LEMMA SeedType ==
    ASSUME NEW ixs \in Seq(Ix), NEW i \in DOMAIN ixs
    PROVE  i \in Nat /\ ixs[i].seed \in Nat
<1>1. i \in 1 .. Len(ixs)
  OBVIOUS
<1>2. ixs[i] \in Ix
  BY <1>1, ElementOfSeq
<1> QED  BY <1>1, <1>2 DEF Ix

\* An emitted instruction has a larger seed than every one before it.
LEMMA EmitKeepsSeedInv ==
    ASSUME TypeOK, SeedInv, CanPlan, NEW kind, NEW amt, Emit(kind, amt), next' = next + 1,
           UNCHANGED <<inflight, exec>>
    PROVE  SeedInv'
<1> DEFINE ix == [kind |-> kind, vote |-> Item.vote, amt |-> amt, seed |-> next - 1]
<1>1. tx' = Append(tx, ix) /\ tx \in Seq(Ix) /\ next \in Nat \ {0}
  BY DEF Emit, TypeOK
<1>2. ix.seed = next - 1
  OBVIOUS
<1>3. \A i \in DOMAIN tx : tx[i].seed \in Nat
  BY <1>1, SeedType
<1> HIDE DEF ix
<1>4. /\ DOMAIN tx = 1 .. Len(tx) /\ Len(tx) \in Nat /\ DOMAIN tx' = 1 .. Len(tx) + 1
      /\ tx'[Len(tx) + 1] = ix
      /\ \A i \in 1 .. Len(tx) : tx'[i] = tx[i]
  BY <1>1
<1>5. SeedsIncrease(tx')
  BY <1>1, <1>2, <1>3, <1>4 DEF SeedInv, SeedsIncrease
<1>6. \A i \in DOMAIN tx' : tx'[i].seed < next' - 1
  BY <1>1, <1>2, <1>3, <1>4 DEF SeedInv
<1> QED  BY <1>5, <1>6 DEF SeedInv, SeedsIncrease

\* Every kind of change keeps the seeds of the chunk increasing.
LEMMA PlanNextSeedInv == TypeOK /\ SeedInv /\ PlanNext => SeedInv'
<1> SUFFICES ASSUME TypeOK, SeedInv, PlanNext PROVE SeedInv'
  OBVIOUS
<1>1. CASE PlanDecrease \/ PlanIncrease
  <2>1. CanPlan /\ next' = next + 1 /\ UNCHANGED <<inflight, exec>>
    BY <1>1 DEF PlanDecrease, PlanIncrease, MayDecrease, MayIncrease, WantsLess, WantsMore,
                PlanActive, Advance, chainVars
  <2>2. PICK kind \in {"Increase", "Decrease"}, amt \in {IncreaseAmt(Item), DecreaseAmt(Item)} :
           Emit(kind, amt)
    BY <1>1 DEF PlanDecrease, PlanIncrease
  <2> QED  BY <2>1, <2>2, EmitKeepsSeedInv
<1>2. CASE PlanBeingRemoved \/ PlanTransientWrongState \/ PlanInsufficientReserve \/ PlanNoChange
  <2>1. next' = next + 1 /\ UNCHANGED <<tx, inflight, exec>>
    BY <1>2 DEF PlanBeingRemoved, PlanTransientWrongState, PlanInsufficientReserve, PlanNoChange,
                Advance, chainVars
  <2>2. next \in Nat /\ \A i \in DOMAIN tx : tx[i].seed \in Nat
    BY SeedType DEF TypeOK
  <2>3. \A i \in DOMAIN tx' : tx'[i].seed < next' - 1
    BY <2>1, <2>2 DEF SeedInv
  <2> QED  BY <2>1, <2>3 DEF SeedInv
<1> QED  BY <1>1, <1>2 DEF PlanNext

\* Every step of the system keeps the seeds of every transaction increasing.
LEMMA NextSeedInv == TypeOK /\ SeedInv /\ [Next]_vars => SeedInv'
<1> SUFFICES ASSUME TypeOK, SeedInv, [Next]_vars PROVE SeedInv'
  OBVIOUS
<1> USE DEF chainVars, commandVars
<1>1. CASE FetchPool \/ Confirmed
  <2>1. tx' = <<>> /\ UNCHANGED <<inflight, exec>>
    BY <1>1 DEF FetchPool, Confirmed
  <2> QED  BY <2>1 DEF SeedInv, SeedsIncrease
<1>2. CASE PlanNext
  BY <1>2, PlanNextSeedInv
<1>3. CASE SendTx
  <2>1. inflight' = inflight \cup {[run |-> run, ixs |-> tx]} /\ UNCHANGED <<exec, tx, next>>
    BY <1>3 DEF SendTx
  <2> QED  BY <2>1 DEF SeedInv
<1>4. CASE FetchList \/ FetchStakes \/ Aim \/ Rejected \/ Finish \/ Crash
  <2>1. UNCHANGED <<inflight, exec, tx, next>>
    BY <1>4 DEF FetchList, FetchStakes, Aim, Rejected, Finish, Crash
  <2> QED  BY <2>1 DEF SeedInv
<1>5. ASSUME NEW t \in inflight, BeginTx(t) PROVE SeedInv'
  <2>1. exec'.tx = t /\ inflight' \subseteq inflight /\ UNCHANGED <<tx, next>>
    BY <1>5 DEF BeginTx
  <2> QED  BY <2>1 DEF SeedInv
<1>6. ASSUME NEW t \in inflight, ExpireTx(t) PROVE SeedInv'
  BY <1>6 DEF ExpireTx, SeedInv
<1>7. CASE ExecIx
  <2>1. exec'.tx = exec.tx /\ UNCHANGED <<inflight, tx, next>>
    BY <1>7 DEF ExecIx, TypeOK
  <2> QED  BY <2>1 DEF SeedInv
<1>8. CASE AbortTx \/ CommitTx
  <2>1. exec'.tx.ixs = <<>> /\ UNCHANGED <<inflight, tx, next>>
    BY <1>8 DEF AbortTx, CommitTx, Idle
  <2> QED  BY <2>1 DEF SeedInv, SeedsIncrease
<1>9. CASE World
  <2>1. UNCHANGED <<inflight, exec, tx, next>>
    BY <1>9 DEF World, AdvanceEpoch, FinishUpdate, MergeTransient, DepositSol, WithdrawSol,
                WithdrawStake, AddStake, RemoveValidator, ReplaceStaker, Interfere, NotTheCommand
  <2> QED  BY <2>1 DEF SeedInv
<1>10. CASE UNCHANGED vars
  BY <1>10 DEF vars, SeedInv
<1> QED
  BY <1>1, <1>2, <1>3, <1>4, <1>5, <1>6, <1>7, <1>8, <1>9, <1>10 DEF Next, Command, Runtime

\* Increasing seeds are distinct seeds.
LEMMA SeedInvSuffices == TypeOK /\ SeedInv => EphemeralSeedsDistinct
<1> SUFFICES ASSUME TypeOK, SeedInv,
                    NEW t \in inflight \cup {exec.tx, [run |-> run, ixs |-> tx]},
                    NEW i \in DOMAIN t.ixs, NEW j \in DOMAIN t.ixs, t.ixs[i].seed = t.ixs[j].seed
             PROVE  i = j
  BY DEF EphemeralSeedsDistinct
<1>1. SeedsIncrease(t.ixs) /\ t.ixs \in Seq(Ix)
  BY DEF SeedInv, TypeOK, Tx
<1>2. i \in Nat /\ j \in Nat /\ t.ixs[i].seed \in Nat /\ t.ixs[j].seed \in Nat
  BY <1>1, SeedType
<1>3. ~(i < j) /\ ~(j < i)
  BY <1>1, <1>2 DEF SeedsIncrease
<1> QED  BY <1>2, <1>3

\* No transaction, sent or under construction, uses an ephemeral stake account twice, for
\* every scheme and every chunk size.
THEOREM SeedsCorrect == Spec => []EphemeralSeedsDistinct
<1>1. Init => SeedInv
  BY DEF Init, Idle, SeedInv, SeedsIncrease
<1>2. TypeOK /\ SeedInv /\ [Next]_vars => SeedInv'
  BY NextSeedInv
<1> QED  BY <1>1, <1>2, SeedInvSuffices, TypeCorrect, PTL DEF Spec

-----------------------------------------------------------------------------
(* What a transaction may still do to a validator.  As long as the command *)
(* is alone with its own transactions, at most one of them is on its way,  *)
(* every instruction of it was planned for one entry of the scheme, and    *)
(* that entry's validator is still as it was read.                         *)

\* No transaction of an earlier run can reach the chain.
Alone == ~RerunWhileInFlight \/ undisturbed

\* A request names every validator at most once; nothing in the command checks it.
Distinct(s)      == \A i, j \in DOMAIN s : s[i].vote = s[j].vote => i = j
DistinctRequests == \A r \in Requests : Distinct(r.scheme)

\* Targets are u64; what decrease-validator-stake aims at is no more than what it read.
TargetsFit ==
    \A i \in DOMAIN scheme :
        \/ Desired(scheme[i]) <= U64Max
        \/ pc \notin Fetching /\ Desired(scheme[i]) <= NextEpochStake(scheme[i].vote)

\* Everything v has, on its way in or out included.
Total(l, v) == l.stake[v] + l.tsa[v].stake

\* An instruction of the chunk belongs to the entry of the scheme its seed is the position of.
Place(ix) == ix.seed + 1

IxFollows(ix) ==
    /\ Place(ix) \in DOMAIN scheme /\ Place(ix) < next
    /\ ix.vote = scheme[Place(ix)].vote
    /\ ix.kind = "Increase" => ix.amt + Total(view, ix.vote) <= Desired(scheme[Place(ix)])
    /\ ix.kind = "Decrease" => ix.amt + Desired(scheme[Place(ix)]) <= view.stake[ix.vote]

ChunkFollowsScheme ==
    /\ pc \in Fetching => tx = <<>>
    /\ \A k \in DOMAIN tx : IxFollows(tx[k])

\* The chunk is the only transaction there is, and the command waits for it or is gone.
Mine       == [run |-> run, ixs |-> tx]
OnItsWay   == inflight # {} \/ exec.busy
OnlyMine   ==
    /\ inflight \subseteq {Mine}
    /\ exec.busy => exec.tx = Mine /\ inflight = {}
    /\ OnItsWay => (pc = "confirm" /\ outcome = "pending") \/ pc = "crashed"

\* Entries of the scheme for which nothing has been executed yet but may be.
Pending(i) ==
    \/ pc \in {"aim", "plan", "confirm"} /\ i >= next
    \/ /\ pc = "plan" \/ OnItsWay
       /\ \E k \in DOMAIN tx : Place(tx[k]) = i

\* Others may take stake away from a validator after it was read; what they add is known.
AsRead(v) ==
    /\ Total(ledger, v) <= Total(view, v) + added[v]
    /\ undisturbed => ledger.stake[v] = view.stake[v] /\ ledger.tsa[v] = view.tsa[v]

PendingAsRead == \A i \in DOMAIN scheme : Pending(i) => AsRead(scheme[i].vote)

\* The transaction that is executing has done to each validator it has reached what its
\* instruction says, and nothing to any other.
Untouched(v) ==
    /\ exec.ledger.stake[v] = ledger.stake[v]
    /\ exec.ledger.tsa[v] = ledger.tsa[v]
Increased(ix) ==
    /\ exec.ledger.stake[ix.vote] = ledger.stake[ix.vote]
    /\ exec.ledger.tsa[ix.vote].stake = ledger.tsa[ix.vote].stake + ix.amt
    /\ exec.ledger.tsa[ix.vote].deactivation = Never
Decreased(ix) ==
    /\ exec.ledger.stake[ix.vote] = ledger.stake[ix.vote] - ix.amt
    /\ exec.ledger.tsa[ix.vote].deactivation # Never
    /\ ledger.tsa[ix.vote].deactivation # Never

Executed(k) == k \in DOMAIN tx /\ k < exec.pos

ExecFollowsChunk ==
    exec.busy =>
        /\ \A k \in DOMAIN tx :
              Executed(k) => /\ tx[k].kind = "Increase" => Increased(tx[k])
                             /\ tx[k].kind = "Decrease" => Decreased(tx[k])
        /\ \A v \in Validators :
              (\A k \in DOMAIN tx : Executed(k) => tx[k].vote # v) => Untouched(v)

RunInv ==
    /\ request \in Requests /\ Distinct(scheme)
    /\ TargetsFit
    /\ ChunkFollowsScheme
    /\ Alone => OnlyMine /\ PendingAsRead /\ ExecFollowsChunk

\* Putting Remainder last only reorders the entries of a scheme.
LEMMA RemainderLastPermutes ==
    ASSUME NEW s \in Seq(SchemeItem)
    PROVE  \E f \in [1 .. Len(s) -> 1 .. Len(s)] :
              /\ \A j, k \in 1 .. Len(s) : f[j] = f[k] => j = k
              /\ Len(RemainderLast(s)) = Len(s)
              /\ \A k \in 1 .. Len(s) : RemainderLast(s)[k] = s[f[k]]
<1> DEFINE n == Len(s)
<1>0. n \in Nat
  OBVIOUS
<1>1. CASE \E i \in DOMAIN s : IsRemainder(s[i])
  <2> DEFINE i == CHOOSE i \in DOMAIN s : IsRemainder(s[i])
             a == SubSeq(s, 1, i - 1)
             b == SubSeq(s, i + 1, n)
             f == [k \in 1 .. n |-> IF k < i THEN k ELSE IF k < n THEN k + 1 ELSE i]
  <2>1. i \in 1 .. n /\ \A k \in 1 .. n : s[k] \in SchemeItem
    BY <1>1
  <2>2. RemainderLast(s) = a \o b \o <<s[i]>>
    BY <1>1 DEF RemainderLast
  <2> HIDE DEF i
  <2>3. /\ a \in Seq(SchemeItem) /\ Len(a) = i - 1
        /\ \A k \in 1 .. i - 1 : a[k] = s[k]
    BY <1>0, <2>1, SubSeqProperties
  <2>4. /\ b \in Seq(SchemeItem) /\ Len(b) = n - i
        /\ \A k \in 1 .. n - i : b[k] = s[i + k]
    <3>1. CASE i = n
      <4>1. b = <<>>
        BY <1>0, <2>1, <3>1, SubSeqProperties
      <4> QED  BY <2>1, <3>1, <4>1
    <3>2. CASE i < n
      BY <1>0, <2>1, <3>2, SubSeqProperties
    <3> QED  BY <1>0, <2>1, <3>1, <3>2
  <2> HIDE DEF a, b, n
  <2>5. /\ a \o b \in Seq(SchemeItem) /\ Len(a \o b) = n - 1
        /\ \A k \in 1 .. i - 1 : (a \o b)[k] = a[k]
        /\ \A k \in i .. n - 1 : (a \o b)[k] = b[k - (i - 1)]
    <3>1. /\ a \o b \in Seq(SchemeItem) /\ Len(a \o b) = Len(a) + Len(b)
          /\ \A k \in 1 .. Len(a) + Len(b) :
                (a \o b)[k] = IF k <= Len(a) THEN a[k] ELSE b[k - Len(a)]
      BY <2>3, <2>4, ConcatProperties
    <3>2. i \in Nat /\ Len(a) = i - 1 /\ Len(a) + Len(b) = n - 1
      BY <1>0, <2>1, <2>3, <2>4
    <3>3. \A k \in 1 .. i - 1 : k \in 1 .. n - 1 /\ k <= i - 1
      BY <1>0, <2>1
    <3>4. \A k \in i .. n - 1 : k \in 1 .. n - 1 /\ ~(k <= i - 1)
      BY <1>0, <2>1
    <3>5. \A k \in 1 .. i - 1 : (a \o b)[k] = a[k]
      BY <3>1, <3>2, <3>3
    <3>6. \A k \in i .. n - 1 : (a \o b)[k] = b[k - (i - 1)]
      BY <3>1, <3>2, <3>4
    <3> QED  BY <3>1, <3>2, <3>5, <3>6
  <2> DEFINE c == a \o b
  <2> HIDE DEF c
  <2>5a. /\ c \in Seq(SchemeItem) /\ Len(c) = n - 1
         /\ \A k \in 1 .. i - 1 : c[k] = a[k]
         /\ \A k \in i .. n - 1 : c[k] = b[k - (i - 1)]
    BY <2>5 DEF c
  <2>6. /\ Len(c \o <<s[i]>>) = n /\ (c \o <<s[i]>>)[n] = s[i]
        /\ \A k \in 1 .. n - 1 : (c \o <<s[i]>>)[k] = c[k]
    <3> DEFINE d == <<s[i]>>
    <3>1. d \in Seq(SchemeItem) /\ Len(d) = 1 /\ d[1] = s[i]
      BY <2>1
    <3> HIDE DEF d
    <3>2. /\ Len(c \o d) = n
          /\ \A k \in 1 .. n : (c \o d)[k] = IF k <= n - 1 THEN c[k] ELSE d[k - (n - 1)]
      <4>1. /\ Len(c \o d) = Len(c) + Len(d)
            /\ \A k \in 1 .. Len(c) + Len(d) :
                  (c \o d)[k] = IF k <= Len(c) THEN c[k] ELSE d[k - Len(c)]
        BY <2>5a, <3>1, ConcatProperties
      <4> QED  BY <1>0, <2>1, <2>5a, <3>1, <4>1
    <3>3. Len(c \o d) = n /\ (c \o d)[n] = s[i] /\ \A k \in 1 .. n - 1 : (c \o d)[k] = c[k]
      BY <1>0, <2>1, <3>1, <3>2
    <3> QED  BY <3>3 DEF d
  <2>7. RemainderLast(s) = c \o <<s[i]>>
    BY <2>2 DEF c
  <2>8. f \in [1 .. n -> 1 .. n] /\ \A j, k \in 1 .. n : f[j] = f[k] => j = k
    BY <1>0, <2>1
  <2>9. ASSUME NEW k \in 1 .. n PROVE RemainderLast(s)[k] = s[f[k]]
    <3>1. CASE k < i
      BY <1>0, <2>1, <2>3, <2>5a, <2>6, <2>7, <2>9, <3>1
    <3>2. CASE k >= i /\ k < n
      <4>1. RemainderLast(s)[k] = b[k - (i - 1)]
        BY <1>0, <2>1, <2>5a, <2>6, <2>7, <2>9, <3>2
      <4>2. k - (i - 1) \in 1 .. n - i /\ i + (k - (i - 1)) = k + 1 /\ f[k] = k + 1
        BY <1>0, <2>1, <2>9, <3>2
      <4> QED  BY <2>4, <4>1, <4>2
    <3>3. CASE k = n
      BY <1>0, <2>1, <2>6, <2>7, <2>9, <3>3
    <3> QED  BY <1>0, <2>1, <2>9, <3>1, <3>2, <3>3
  <2> HIDE DEF f
  <2> QED  BY <2>6, <2>7, <2>8, <2>9 DEF n
<1>2. CASE ~ \E i \in DOMAIN s : IsRemainder(s[i])
  <2> DEFINE f == [k \in 1 .. n |-> k]
  <2>1. RemainderLast(s) = s
    BY <1>2 DEF RemainderLast
  <2>2. f \in [1 .. n -> 1 .. n] /\ \A k \in 1 .. n : f[k] = k
    OBVIOUS
  <2> QED  BY <2>1, <2>2
<1> QED  BY <1>1, <1>2

\* The sorted scheme names the same validators with the same targets, each still once.
LEMMA RemainderLastKeeps ==
    ASSUME NEW s \in Seq(SchemeItem)
    PROVE  /\ Distinct(s) => Distinct(RemainderLast(s))
           /\ \A k \in DOMAIN RemainderLast(s) : \E i \in DOMAIN s : RemainderLast(s)[k] = s[i]
<1>1. PICK f \in [1 .. Len(s) -> 1 .. Len(s)] :
              /\ \A j, k \in 1 .. Len(s) : f[j] = f[k] => j = k
              /\ Len(RemainderLast(s)) = Len(s)
              /\ \A k \in 1 .. Len(s) : RemainderLast(s)[k] = s[f[k]]
  BY RemainderLastPermutes
<1>2. DOMAIN RemainderLast(s) = 1 .. Len(s) /\ DOMAIN s = 1 .. Len(s)
  BY <1>1, RemainderLastType
<1> QED  BY <1>1, <1>2 DEF Distinct

\* Instructions of the chunk have positions and names.
LEMMA ChunkType ==
    ASSUME TypeOK, NEW k \in DOMAIN tx
    PROVE  /\ k \in Nat /\ tx[k] \in Ix /\ tx[k].vote \in Validators
           /\ tx[k].amt \in Nat /\ tx[k].seed \in Nat /\ tx[k].kind \in {"Increase", "Decrease"}
<1>1. tx \in Seq(Ix) /\ k \in 1 .. Len(tx)
  BY DEF TypeOK
<1>2. tx[k] \in Ix
  BY <1>1, ElementOfSeq
<1> QED  BY <1>1, <1>2 DEF Ix

\* Entries of the scheme name validators.
LEMMA SchemeType ==
    ASSUME TypeOK, NEW i \in DOMAIN scheme
    PROVE  /\ i \in Nat /\ scheme[i] \in SchemeItem /\ scheme[i].vote \in Validators
           /\ Desired(scheme[i]) \in Nat
<1>1. scheme \in Seq(SchemeItem) /\ i \in 1 .. Len(scheme)
  BY DEF TypeOK
<1>2. scheme[i] \in SchemeItem
  BY <1>1, ElementOfSeq
<1> QED  BY <1>1, <1>2, DesiredType DEF SchemeItem

\* An instruction for the validator of an entry was planned for that entry.
LEMMA PlaceOfVote ==
    ASSUME RunInv, NEW k \in DOMAIN tx, NEW i \in DOMAIN scheme, tx[k].vote = scheme[i].vote
    PROVE  Place(tx[k]) = i
BY DEF RunInv, ChunkFollowsScheme, IxFollows, Distinct

\* No two instructions of the chunk are for one validator.
LEMMA VotesDiffer ==
    ASSUME TypeOK, SeedInv, RunInv, NEW j \in DOMAIN tx, NEW k \in DOMAIN tx,
           tx[j].vote = tx[k].vote
    PROVE  j = k
<1>1. Place(tx[j]) \in DOMAIN scheme /\ scheme[Place(tx[j])].vote = tx[j].vote
  BY DEF RunInv, ChunkFollowsScheme, IxFollows
<1>2. Place(tx[k]) = Place(tx[j])
  BY <1>1, PlaceOfVote
<1>3. tx[k].seed = tx[j].seed /\ j \in Nat /\ k \in Nat
  BY <1>2, ChunkType DEF Place
<1>4. ~(j < k) /\ ~(k < j)
  BY <1>3, ChunkType DEF SeedInv, SeedsIncrease
<1> QED  BY <1>3, <1>4

\* Amounts in a ledger and in what was read of it are numbers.
LEMMA LedgerType ==
    ASSUME TypeOK, NEW v \in Validators
    PROVE  /\ ledger.stake[v] \in Nat /\ ledger.tsa[v] \in Tsa /\ ledger.tsa[v].stake \in Nat
           /\ view.stake[v] \in Nat /\ view.tsa[v] \in Tsa /\ view.tsa[v].stake \in Nat
           /\ exec.ledger.stake[v] \in Nat /\ exec.ledger.tsa[v] \in Tsa
           /\ exec.ledger.tsa[v].stake \in Nat
<1>1. ledger \in Ledger /\ exec.ledger \in Ledger /\ view \in ViewType
  BY DEF TypeOK
<1> QED  BY <1>1 DEF Ledger, ViewType, Tsa

\* What the reserve holds is a number.
LEMMA ReserveType ==
    ASSUME TypeOK
    PROVE  ledger.reserve \in Nat /\ exec.ledger.reserve \in Nat /\ reserveLamports \in Nat
<1>1. ledger \in Ledger /\ exec.ledger \in Ledger /\ reserveLamports \in Nat
  BY DEF TypeOK
<1> QED  BY <1>1 DEF Ledger

\* The lengths of scheme and chunk, and where the planner is, are numbers.
LEMMA CountersType ==
    ASSUME TypeOK
    PROVE  /\ next \in Nat \ {0} /\ Len(scheme) \in Nat
           /\ tx \in Seq(Ix) /\ Len(tx) \in Nat /\ DOMAIN tx = 1 .. Len(tx)
<1>1. scheme \in Seq(SchemeItem) /\ tx \in Seq(Ix) /\ next \in Nat \ {0}
  BY DEF TypeOK
<1> QED  BY <1>1

\* While the command still reads, nothing of it is on its way.
LEMMA FetchingIsQuiet ==
    ASSUME RunInv, pc \in Fetching
    PROVE  /\ tx = <<>>
           /\ Alone => inflight = {} /\ ~exec.busy
           /\ \A i \in DOMAIN scheme : Desired(scheme[i]) <= U64Max
<1>1. pc \notin {"confirm", "crashed"}
  BY DEF Fetching
<1> QED  BY <1>1 DEF RunInv, ChunkFollowsScheme, OnlyMine, OnItsWay, TargetsFit

\* A run starts with a scheme of distinct validators, no chunk and nothing on its way.
LEMMA FetchPoolRunInv ==
    ASSUME DistinctRequests, TypeOK, RunInv, FetchPool PROVE RunInv'
<1>1. /\ scheme' = RemainderLast(request.scheme) /\ tx' = <<>> /\ request' = request
      /\ pc' \in {"fetch_list", "panicked"} /\ UNCHANGED <<inflight, exec>>
      /\ RerunWhileInFlight \/ inflight = {}
      /\ ~exec.busy
      /\ undisturbed' => inflight = {}
  BY DEF FetchPool, Panic, chainVars
<1>2. request \in Requests /\ request.scheme \in Seq(SchemeItem)
  BY DEF RunInv, TypeOK, Request
<1>3. /\ Distinct(scheme')
      /\ \A k \in DOMAIN scheme' : \E i \in DOMAIN request.scheme : scheme'[k] = request.scheme[i]
  BY <1>1, <1>2, RemainderLastKeeps DEF DistinctRequests
<1>4. \A i \in DOMAIN request.scheme : Desired(request.scheme[i]) <= U64Max
  <2> SUFFICES ASSUME NEW i \in DOMAIN request.scheme
               PROVE  Desired(request.scheme[i]) <= U64Max
    OBVIOUS
  <2>1. request.scheme[i].target # Remainder => request.scheme[i].target <= U64Max
    BY <1>2, TargetsAssumption
  <2> QED  BY <2>1, ConstantsType DEF Desired
<1>5. TargetsFit'
  <2>1. \A k \in DOMAIN scheme' : Desired(scheme'[k]) <= U64Max
    BY <1>3, <1>4
  <2> QED  BY <2>1 DEF TargetsFit, Desired
<1>6. ChunkFollowsScheme'
  BY <1>1 DEF ChunkFollowsScheme
<1>7. ASSUME Alone' PROVE OnlyMine' /\ PendingAsRead' /\ ExecFollowsChunk'
  <2>1. inflight' = {} /\ ~exec'.busy
    BY <1>1, <1>7, BoundsAssumption DEF Alone
  <2> QED  BY <1>1, <2>1 DEF OnlyMine, OnItsWay, PendingAsRead, Pending, ExecFollowsChunk
<1> QED  BY <1>1, <1>2, <1>3, <1>5, <1>6, <1>7 DEF RunInv

\* The second call changes neither the scheme nor what is on its way.
LEMMA FetchListRunInv ==
    ASSUME TypeOK, RunInv, FetchList PROVE RunInv'
<1>1. /\ UNCHANGED <<request, scheme, tx, inflight, exec, undisturbed>>
      /\ pc \in Fetching /\ pc' \in {"fetch_stakes", "panicked"}
  BY DEF FetchList, Panic, Fetching, chainVars
<1>2. /\ tx = <<>>
      /\ Alone => inflight = {} /\ ~exec.busy
      /\ \A i \in DOMAIN scheme : Desired(scheme[i]) <= U64Max
  BY <1>1, FetchingIsQuiet
<1>3. TargetsFit'
  BY <1>1, <1>2 DEF TargetsFit, Desired
<1>4. ChunkFollowsScheme'
  BY <1>1, <1>2 DEF ChunkFollowsScheme
<1>5. ASSUME Alone' PROVE OnlyMine' /\ PendingAsRead' /\ ExecFollowsChunk'
  <2>1. inflight' = {} /\ ~exec'.busy
    BY <1>1, <1>2, <1>5 DEF Alone
  <2> QED  BY <1>1, <2>1 DEF OnlyMine, OnItsWay, PendingAsRead, Pending, ExecFollowsChunk
<1> QED  BY <1>1, <1>3, <1>4, <1>5 DEF RunInv

\* The third call reads every validator as it is.
LEMMA FetchStakesRunInv ==
    ASSUME TypeOK, RunInv, FetchStakes PROVE RunInv'
<1>1. /\ UNCHANGED <<request, scheme, tx, ledger, inflight, exec, undisturbed>>
      /\ pc \in Fetching
      /\ \/ pc' = "panicked"
         \/ /\ pc' \in {"aim", "plan"} /\ view'.stake = ledger.stake /\ view'.tsa = ledger.tsa
            /\ added' = [v \in Validators |-> 0]
  <2>1. CASE \E i \in DOMAIN scheme : ~HasVsa(scheme[i].vote)
    BY <2>1 DEF FetchStakes, Panic, Fetching, chainVars
  <2>2. CASE ~ \E i \in DOMAIN scheme : ~HasVsa(scheme[i].vote)
    <3>1. view' = [view EXCEPT !.stake = ledger.stake, !.tsa = ledger.tsa]
      BY <2>2 DEF FetchStakes
    <3>2. view'.stake = ledger.stake /\ view'.tsa = ledger.tsa
      BY <3>1 DEF TypeOK, ViewType
    <3> QED  BY <2>2, <3>2 DEF FetchStakes, Fetching, chainVars
  <2> QED  BY <2>1, <2>2
<1>2. /\ tx = <<>>
      /\ Alone => inflight = {} /\ ~exec.busy
      /\ \A i \in DOMAIN scheme : Desired(scheme[i]) <= U64Max
  BY <1>1, FetchingIsQuiet
<1>3. TargetsFit'
  BY <1>1, <1>2 DEF TargetsFit, Desired
<1>4. ChunkFollowsScheme'
  BY <1>1, <1>2 DEF ChunkFollowsScheme
<1>5. ASSUME Alone' PROVE OnlyMine' /\ PendingAsRead' /\ ExecFollowsChunk'
  <2>1. inflight' = {} /\ ~exec'.busy
    BY <1>1, <1>2, <1>5 DEF Alone
  <2>2. ASSUME NEW i \in DOMAIN scheme, Pending(i)' PROVE AsRead(scheme[i].vote)'
    <3>1. /\ view'.stake = ledger.stake /\ view'.tsa = ledger.tsa
          /\ added' = [v \in Validators |-> 0]
      BY <1>1, <1>2, <2>1, <2>2 DEF Pending, OnItsWay
    <3> QED  BY <1>1, <3>1, SchemeType, LedgerType DEF AsRead, Total
  <2> QED  BY <1>1, <2>1, <2>2 DEF OnlyMine, OnItsWay, PendingAsRead, ExecFollowsChunk
<1> QED  BY <1>1, <1>3, <1>4, <1>5 DEF RunInv

\* The target of a single validator fits u64, or is no more than what the validator has.
LEMMA DesiredStakeFits ==
    ASSUME TypeOK, NEW v \in Validators
    PROVE  DesiredStake(v) <= U64Max \/ DesiredStake(v) <= NextEpochStake(v)
<1>1. /\ request.kind \in {"sync", "increase", "decrease"}
      /\ request.amt # All => request.amt \in Nat
  BY DEF TypeOK, Request
<1>2. NextEpochStake(v) \in Nat
  BY NextEpochStakeType DEF TypeOK
<1>3. AllOfReserve \in Nat
  BY ConstantsType DEF TypeOK, AllOfReserve, SatSub
<1>4. ASSUME NEW n \in Nat PROVE SatAdd(NextEpochStake(v), n) <= U64Max
  BY <1>2, <1>4, ConstantsType DEF SatAdd
<1>5. ASSUME NEW n \in Nat PROVE SatSub(NextEpochStake(v), n) <= NextEpochStake(v)
  BY <1>2, <1>5 DEF SatSub
<1>6. CASE request.kind = "increase"
  BY <1>1, <1>3, <1>4, <1>6 DEF DesiredStake
<1>7. CASE request.kind # "increase"
  BY <1>1, <1>2, <1>5, <1>7, ConstantsType DEF DesiredStake
<1> QED  BY <1>6, <1>7

\* Working out the target keeps the validators of the scheme.
LEMMA AimRunInv ==
    ASSUME TypeOK, RunInv, Aim PROVE RunInv'
<1>1. /\ UNCHANGED <<request, tx, next, ledger, inflight, exec, view, added, undisturbed>>
      /\ pc = "aim" /\ pc \in Fetching /\ pc' = "plan"
  BY DEF Aim, Fetching, chainVars
<1>2. /\ DOMAIN scheme' = DOMAIN scheme
      /\ \A i \in DOMAIN scheme :
            /\ scheme'[i].vote = scheme[i].vote
            /\ Desired(scheme'[i]) = DesiredStake(scheme[i].vote)
  <2>1. /\ scheme' \in Seq(SchemeItem) /\ Len(scheme') = Len(scheme)
        /\ \A i \in DOMAIN scheme' : ~IsRemainder(scheme'[i])
        /\ \A i \in DOMAIN scheme :
              scheme'[i] = [vote |-> scheme[i].vote, target |-> DesiredStake(scheme[i].vote)]
    BY AimScheme
  <2>2. DOMAIN scheme' = DOMAIN scheme
    BY <2>1 DEF TypeOK
  <2>3. ASSUME NEW i \in DOMAIN scheme
        PROVE  /\ scheme'[i].vote = scheme[i].vote
               /\ Desired(scheme'[i]) = DesiredStake(scheme[i].vote)
    <3>1. /\ scheme'[i] = [vote |-> scheme[i].vote, target |-> DesiredStake(scheme[i].vote)]
          /\ ~IsRemainder(scheme'[i])
      BY <2>1, <2>2, <2>3
    <3>2. /\ scheme'[i].vote = scheme[i].vote
          /\ scheme'[i].target = DesiredStake(scheme[i].vote)
          /\ scheme'[i].target # Remainder
      BY <3>1 DEF IsRemainder
    <3> QED  BY <3>2 DEF Desired
  <2> QED  BY <2>2, <2>3
<1>3. /\ tx = <<>>
      /\ Alone => inflight = {} /\ ~exec.busy
  BY <1>1, FetchingIsQuiet
<1>4. Distinct(scheme')
  BY <1>2 DEF RunInv, Distinct
<1>5. TargetsFit'
  <2> SUFFICES ASSUME NEW i \in DOMAIN scheme
               PROVE  \/ Desired(scheme'[i]) <= U64Max
                      \/ Desired(scheme'[i]) <= NextEpochStake(scheme[i].vote)'
    BY <1>1, <1>2 DEF TargetsFit, Fetching, Desired
  <2>1. \/ DesiredStake(scheme[i].vote) <= U64Max
        \/ DesiredStake(scheme[i].vote) <= NextEpochStake(scheme[i].vote)
    BY SchemeType, DesiredStakeFits
  <2>2. NextEpochStake(scheme[i].vote)' = NextEpochStake(scheme[i].vote)
    BY <1>1, <1>2 DEF NextEpochStake, TransientStatus
  <2> QED  BY <1>2, <2>1, <2>2
<1>6. ChunkFollowsScheme'
  BY <1>1, <1>3 DEF ChunkFollowsScheme
<1>7. ASSUME Alone' PROVE OnlyMine' /\ PendingAsRead' /\ ExecFollowsChunk'
  <2>1. inflight' = {} /\ ~exec'.busy /\ Alone
    BY <1>1, <1>3, <1>7 DEF Alone
  <2>2. ASSUME NEW i \in DOMAIN scheme, Pending(i)' PROVE AsRead(scheme[i].vote)'
    <3>1. Pending(i)
      BY <1>1, <1>3, <2>2 DEF Pending
    <3>2. AsRead(scheme[i].vote)
      BY <2>1, <3>1 DEF RunInv, PendingAsRead
    <3> QED  BY <1>1, <1>2, <3>2 DEF AsRead, Total
  <2> QED  BY <1>1, <1>2, <2>1, <2>2 DEF OnlyMine, OnItsWay, PendingAsRead, ExecFollowsChunk
<1> QED  BY <1>1, <1>4, <1>5, <1>6, <1>7 DEF RunInv

\* What an emitted instruction owes the invariant: an increase fits under the target with all
\* that was read, and a decrease leaves the target behind.
LEMMA EmitKeepsRunInv ==
    ASSUME TypeOK, RunInv, CanPlan, NEW kind, NEW ty, NEW amt \in Nat, Emit(kind, amt),
           Advance(ty, amt),
           kind = "Increase" => amt + Total(view, Item.vote) <= Desired(Item),
           kind = "Decrease" => amt + Desired(Item) <= view.stake[Item.vote]
    PROVE  RunInv'
<1> DEFINE ix == [kind |-> kind, vote |-> Item.vote, amt |-> amt, seed |-> next - 1]
<1>1. /\ tx' = Append(tx, ix) /\ tx \in Seq(Ix) /\ next \in Nat \ {0} /\ next' = next + 1
      /\ UNCHANGED <<request, scheme, view, ledger, inflight, exec, added, undisturbed>>
      /\ pc = "plan" /\ pc' = "plan" /\ next \in DOMAIN scheme
  BY DEF Emit, Advance, TypeOK, CanPlan, chainVars
<1>2. ix.kind = kind /\ ix.vote = scheme[next].vote /\ ix.amt = amt /\ Place(ix) = next
      /\ ix.vote = Item.vote /\ Item = scheme[next]
  BY <1>1 DEF Place, Item
<1> HIDE DEF ix
<1>3. /\ DOMAIN tx' = 1 .. Len(tx) + 1 /\ DOMAIN tx = 1 .. Len(tx) /\ Len(tx) \in Nat
      /\ tx'[Len(tx) + 1] = ix
      /\ \A k \in 1 .. Len(tx) : tx'[k] = tx[k]
  BY <1>1
<1>4. \A k \in DOMAIN tx' : (k \in DOMAIN tx /\ tx'[k] = tx[k]) \/ tx'[k] = ix
  BY <1>3
<1>5. ChunkFollowsScheme'
  <2>1. ASSUME NEW k \in DOMAIN tx PROVE IxFollows(tx[k]) /\ Place(tx[k]) \in Nat
    <3>1. IxFollows(tx[k])
      BY <2>1 DEF RunInv, ChunkFollowsScheme
    <3> QED  BY <2>1, <3>1, ChunkType DEF Place
  <2>2. ASSUME NEW j, Place(j) \in Nat, IxFollows(j)
        PROVE  /\ Place(j) \in DOMAIN scheme' /\ Place(j) < next' /\ j.vote = scheme'[Place(j)].vote
               /\ j.kind = "Increase" => j.amt + Total(view', j.vote) <= Desired(scheme'[Place(j)])
               /\ j.kind = "Decrease" => j.amt + Desired(scheme'[Place(j)]) <= view'.stake[j.vote]
    BY <1>1, <2>2 DEF IxFollows
  <2>3. /\ Place(ix) \in DOMAIN scheme' /\ Place(ix) < next' /\ ix.vote = scheme'[Place(ix)].vote
        /\ ix.kind = "Increase" => ix.amt + Total(view', ix.vote) <= Desired(scheme'[Place(ix)])
        /\ ix.kind = "Decrease" => ix.amt + Desired(scheme'[Place(ix)]) <= view'.stake[ix.vote]
    BY <1>1, <1>2
  <2>4. ASSUME NEW k \in DOMAIN tx'
        PROVE  /\ Place(tx'[k]) \in DOMAIN scheme' /\ Place(tx'[k]) < next'
               /\ tx'[k].vote = scheme'[Place(tx'[k])].vote
               /\ tx'[k].kind = "Increase"
                     => tx'[k].amt + Total(view', tx'[k].vote) <= Desired(scheme'[Place(tx'[k])])
               /\ tx'[k].kind = "Decrease"
                     => tx'[k].amt + Desired(scheme'[Place(tx'[k])]) <= view'.stake[tx'[k].vote]
    <3>1. CASE k \in DOMAIN tx /\ tx'[k] = tx[k]
      BY <2>1, <2>2, <3>1
    <3>2. CASE tx'[k] = ix
      BY <2>3, <3>2
    <3> QED  BY <1>4, <2>4, <3>1, <3>2
  <2> QED  BY <1>1, <2>4 DEF ChunkFollowsScheme, Fetching, IxFollows, Place, Total, Desired
<1>6. TargetsFit'
  BY <1>1 DEF RunInv, TargetsFit, Fetching, Desired, NextEpochStake, TransientStatus
<1>7. ASSUME Alone' PROVE OnlyMine' /\ PendingAsRead' /\ ExecFollowsChunk'
  <2>1. Alone
    BY <1>1, <1>7 DEF Alone
  <2>2. inflight' = {} /\ ~exec'.busy
    BY <1>1, <2>1 DEF RunInv, OnlyMine, OnItsWay
  <2>3. ASSUME NEW i \in DOMAIN scheme, Pending(i)' PROVE AsRead(scheme[i].vote)'
    <3>1. Pending(i)
      <4>1. i \in Nat
        BY SchemeType
      <4>2. i >= next + 1 \/ \E k \in DOMAIN tx' : Place(tx'[k]) = i
        BY <1>1, <2>3 DEF Pending, Place
      <4>3. i >= next \/ \E k \in DOMAIN tx : Place(tx[k]) = i
        BY <1>1, <1>2, <1>4, <4>1, <4>2
      <4> QED  BY <1>1, <4>3 DEF Pending
    <3>2. AsRead(scheme[i].vote)
      BY <2>1, <3>1 DEF RunInv, PendingAsRead
    <3> QED  BY <1>1, <3>2 DEF AsRead, Total
  <2> QED  BY <1>1, <2>2, <2>3 DEF OnlyMine, OnItsWay, PendingAsRead, ExecFollowsChunk
<1> QED  BY <1>1, <1>5, <1>6, <1>7 DEF RunInv, Distinct

\* A planned decrease leaves its target and the active minimum of what was read.
LEMMA DecreaseLeavesTarget ==
    ASSUME TypeOK, CanPlan, MayDecrease, DecreaseAmt(Item) >= MinTsaBalance
    PROVE  DecreaseAmt(Item) + Desired(Item) <= view.stake[Item.vote]
<1> DEFINE v == Item.vote
           n == NextEpochStake(v)
           d == Desired(Item)
<1>1. v \in Validators /\ n \in Nat /\ d \in Nat /\ view.stake[v] \in Nat /\ view.tsa[v].stake \in Nat
  BY ItemType, NextEpochStakeType, DesiredType, LedgerType DEF TypeOK
<1>2. n > d /\ TransientStatus(v) \in {"Deactivating", "None"}
  BY DEF MayDecrease, WantsLess
<1>3. n <= view.stake[v]
  BY <1>1, <1>2 DEF NextEpochStake, SatSub
<1>4. DecreaseAmt(Item) = SatSub(n - d, MinActive)
  BY DEF DecreaseAmt
<1> HIDE DEF n, d, v
<1>5. DecreaseAmt(Item) + d <= n
  BY <1>1, <1>2, <1>4, ConstantsType DEF SatSub
<1>6. DecreaseAmt(Item) \in Nat
  BY <1>1, <1>2, <1>4, ConstantsType DEF SatSub
<1>7. DecreaseAmt(Item) + d <= view.stake[v]
  BY <1>1, <1>3, <1>5, <1>6
<1> QED  BY <1>7 DEF v, d

\* A planned increase fits under its target together with all the validator was read to have.
LEMMA IncreaseFitsTarget ==
    ASSUME TypeOK, TargetsFit, CanPlan, MayIncrease, IncreaseAmt(Item) > 0
    PROVE  IncreaseAmt(Item) \in Nat /\ IncreaseAmt(Item) + Total(view, Item.vote) <= Desired(Item)
<1> DEFINE v == Item.vote
           n == NextEpochStake(v)
           d == Desired(Item)
           inc == IncreaseAmt(Item)
<1>1. v \in Validators /\ n \in Nat /\ d \in Nat /\ view.stake[v] \in Nat /\ view.tsa[v].stake \in Nat
  BY ItemType, NextEpochStakeType, DesiredType, LedgerType DEF TypeOK
<1>2. n < d /\ TransientStatus(v) \in {"Activating", "None"}
  BY DEF MayIncrease, WantsMore
<1>3. inc \in Nat
  BY ItemType, IncreaseFits, <1>2 DEF TypeOK
<1>4. inc <= d - n
  <2>1. inc = Least(AvailableStake, d - n)
    BY DEF IncreaseAmt
  <2>2. AvailableStake \in Nat
    BY ConstantsType DEF AvailableStake, SatSub, TypeOK
  <2> HIDE DEF inc, d, n
  <2> QED  BY <1>1, <1>2, <2>1, <2>2 DEF Least
<1>5. d <= U64Max \/ d <= n
  <2>1. next \in DOMAIN scheme
    BY DEF CanPlan, TypeOK
  <2> QED  BY <2>1 DEF TargetsFit, Item
<1>6. n = view.stake[v] + view.tsa[v].stake
  <2>1. CASE TransientStatus(v) = "None"
    <3>1. view.tsa[v] = NoTsa
      BY <2>1 DEF TransientStatus
    <3> QED  BY <1>1, <2>1, <3>1 DEF NextEpochStake, NoTsa
  <2>2. CASE TransientStatus(v) = "Activating"
    <3>1. n = SatAdd(view.stake[v], view.tsa[v].stake)
      BY <2>2 DEF NextEpochStake
    <3> HIDE DEF n, d, v
    <3> QED  BY <1>1, <1>2, <1>5, <3>1, ConstantsType DEF SatAdd
  <2> QED  BY <1>2, <2>1, <2>2
<1> HIDE DEF n, d, v, inc
<1>7. inc + (view.stake[v] + view.tsa[v].stake) <= d
  BY <1>1, <1>2, <1>3, <1>4, <1>6
<1> QED  BY <1>3, <1>7 DEF v, d, inc, Total

\* Every kind of change keeps the invariant of the run.
LEMMA PlanNextRunInv == TypeOK /\ RunInv /\ PlanNext => RunInv'
<1> SUFFICES ASSUME TypeOK, RunInv, PlanNext PROVE RunInv'
  OBVIOUS
<1>1. CASE PlanDecrease
  <2>1. /\ CanPlan /\ MayDecrease /\ DecreaseAmt(Item) >= MinTsaBalance
        /\ Emit("Decrease", DecreaseAmt(Item)) /\ Advance("DecreaseStake", DecreaseAmt(Item))
    BY <1>1 DEF PlanDecrease, MayDecrease, WantsLess, PlanActive
  <2>2. DecreaseAmt(Item) \in Nat
    BY <2>1, ItemType, DecreaseType DEF TypeOK
  <2> QED  BY <2>1, <2>2, DecreaseLeavesTarget, EmitKeepsRunInv
<1>2. CASE PlanIncrease
  <2>1. /\ CanPlan /\ MayIncrease /\ IncreaseAmt(Item) > 0 /\ Emit("Increase", IncreaseAmt(Item))
    BY <1>2 DEF PlanIncrease, MayIncrease, WantsMore, PlanActive
  <2>2. PICK ty : Advance(ty, IncreaseAmt(Item))
    BY <1>2 DEF PlanIncrease
  <2>3. TargetsFit
    BY DEF RunInv
  <2> QED  BY <2>1, <2>2, <2>3, IncreaseFitsTarget, EmitKeepsRunInv
<1>3. CASE PlanBeingRemoved \/ PlanTransientWrongState \/ PlanInsufficientReserve \/ PlanNoChange
  <2>1. /\ next' = next + 1 /\ next \in Nat
        /\ UNCHANGED <<request, scheme, view, tx, pc, ledger, inflight, exec, added, undisturbed>>
        /\ pc = "plan"
    BY <1>3 DEF PlanBeingRemoved, PlanTransientWrongState, PlanInsufficientReserve, PlanNoChange,
                MayDecrease, MayIncrease, WantsLess, WantsMore, PlanActive, CanPlan,
                Advance, chainVars, TypeOK
  <2>2. ChunkFollowsScheme'
    <3>1. ASSUME NEW k \in DOMAIN tx PROVE IxFollows(tx[k])'
      <4>1. IxFollows(tx[k]) /\ Place(tx[k]) \in Nat
        BY <3>1, ChunkType DEF RunInv, ChunkFollowsScheme, Place
      <4> QED  BY <2>1, <4>1 DEF IxFollows, Place, Total, Desired
    <3> QED  BY <2>1, <3>1 DEF ChunkFollowsScheme, Fetching
  <2>3. TargetsFit'
    BY <2>1 DEF RunInv, TargetsFit, Fetching, Desired, NextEpochStake, TransientStatus
  <2>4. ASSUME Alone' PROVE OnlyMine' /\ PendingAsRead' /\ ExecFollowsChunk'
    <3>1. Alone
      BY <2>1, <2>4 DEF Alone
    <3>2. inflight' = {} /\ ~exec'.busy
      BY <2>1, <3>1 DEF RunInv, OnlyMine, OnItsWay
    <3>3. ASSUME NEW i \in DOMAIN scheme, Pending(i)' PROVE AsRead(scheme[i].vote)'
      <4>1. Pending(i)
        BY <2>1, <3>3, SchemeType DEF Pending, Place
      <4>2. AsRead(scheme[i].vote)
        BY <3>1, <4>1 DEF RunInv, PendingAsRead
      <4> QED  BY <2>1, <4>2 DEF AsRead, Total
    <3> QED  BY <2>1, <3>2, <3>3 DEF OnlyMine, OnItsWay, PendingAsRead, ExecFollowsChunk
  <2> QED  BY <2>1, <2>2, <2>3, <2>4 DEF RunInv, Distinct
<1> QED  BY <1>1, <1>2, <1>3 DEF PlanNext

\* What a step keeps that leaves the scheme, the chunk and what was read alone.
LEMMA KeepsChunk ==
    ASSUME RunInv, UNCHANGED <<request, scheme, next, tx, view>>,
           pc' \in Fetching => pc \in Fetching
    PROVE  /\ request' \in Requests /\ Distinct(scheme)' /\ TargetsFit' /\ ChunkFollowsScheme'
<1>1. TargetsFit'
  BY DEF RunInv, TargetsFit, Desired, NextEpochStake, TransientStatus
<1>2. ChunkFollowsScheme'
  BY DEF RunInv, ChunkFollowsScheme, IxFollows, Place, Total, Desired
<1> QED  BY <1>1, <1>2 DEF RunInv, Distinct

\* Sending makes the chunk the one transaction on its way; the other steps of the command
\* let go of a transaction only when its fate is known.
LEMMA CommandRunInv ==
    ASSUME TypeOK, RunInv, SendTx \/ Confirmed \/ Rejected \/ Finish \/ Crash
    PROVE  RunInv'
<1>1. UNCHANGED <<request, scheme, next, view, run, ledger, exec, added, undisturbed>>
  BY DEF SendTx, Confirmed, Rejected, Finish, Crash, chainVars
<1>2. pc' \notin Fetching
  BY DEF SendTx, Confirmed, Rejected, Finish, Crash, Panic, Fetching
<1>3. request' \in Requests /\ Distinct(scheme)' /\ TargetsFit' /\ ChunkFollowsScheme'
  <2>1. CASE Confirmed
    <3>1. tx' = <<>> /\ pc \notin Fetching
      BY <2>1 DEF Confirmed, Fetching
    <3>2. TargetsFit'
      BY <1>1, <1>2, <3>1 DEF RunInv, TargetsFit, Desired, NextEpochStake, TransientStatus
    <3>3. ChunkFollowsScheme'
      BY <3>1 DEF ChunkFollowsScheme
    <3> QED  BY <1>1, <3>2, <3>3 DEF RunInv, Distinct
  <2>2. CASE SendTx \/ Rejected \/ Finish \/ Crash
    <3>1. UNCHANGED tx
      BY <2>2 DEF SendTx, Rejected, Finish, Crash
    <3> QED  BY <1>1, <1>2, <3>1, KeepsChunk
  <2> QED  BY <2>1, <2>2
<1>4. ASSUME Alone' PROVE OnlyMine' /\ PendingAsRead' /\ ExecFollowsChunk'
  <2>1. Alone /\ OnlyMine /\ PendingAsRead /\ ExecFollowsChunk
    BY <1>1, <1>4 DEF Alone, RunInv
  <2>2. SUFFICES /\ OnlyMine' /\ ExecFollowsChunk'
                 /\ \A i \in DOMAIN scheme : Pending(i)' => Pending(i)
    BY <1>1, <2>1 DEF PendingAsRead, AsRead, Total
  <2>3. CASE SendTx
    <3>1. /\ inflight' = inflight \cup {Mine} /\ UNCHANGED tx
          /\ pc = "plan" /\ outcome' = "pending" /\ pc' = "confirm"
      BY <2>3 DEF SendTx, Mine
    <3>2. inflight = {} /\ ~exec.busy
      BY <2>1, <3>1 DEF OnlyMine, OnItsWay
    <3> QED  BY <1>1, <3>1, <3>2 DEF OnlyMine, OnItsWay, Mine, ExecFollowsChunk, Pending, Place
  <2>4. CASE Confirmed
    <3>1. /\ tx' = <<>> /\ UNCHANGED inflight
          /\ pc = "confirm" /\ outcome = "confirmed" /\ pc' = "plan"
      BY <2>4 DEF Confirmed, chainVars
    <3>2. inflight = {} /\ ~exec.busy
      BY <2>1, <3>1 DEF OnlyMine, OnItsWay
    <3> QED  BY <1>1, <3>1, <3>2 DEF OnlyMine, OnItsWay, ExecFollowsChunk, Pending
  <2>5. CASE Rejected \/ Finish
    <3>1. /\ UNCHANGED inflight /\ pc' \in {"panicked", "done"}
          /\ (pc = "confirm" /\ outcome # "pending") \/ pc = "plan"
      BY <2>5 DEF Rejected, Finish, Panic, chainVars
    <3>2. inflight = {} /\ ~exec.busy
      BY <2>1, <3>1 DEF OnlyMine, OnItsWay
    <3> QED  BY <1>1, <3>1, <3>2 DEF OnlyMine, OnItsWay, ExecFollowsChunk, Pending
  <2>6. CASE Crash
    <3>1. UNCHANGED <<inflight, tx>> /\ pc' = "crashed"
      BY <2>6 DEF Crash, chainVars
    <3>2. OnlyMine'
      BY <1>1, <2>1, <3>1 DEF OnlyMine, OnItsWay, Mine
    <3>3. ExecFollowsChunk'
      BY <1>1, <2>1, <3>1 DEF ExecFollowsChunk, Executed, Increased, Decreased, Untouched
    <3> QED  BY <1>1, <3>1, <3>2, <3>3 DEF OnItsWay, Pending, Place
  <2> QED  BY <2>3, <2>4, <2>5, <2>6
<1> QED  BY <1>3, <1>4 DEF RunInv

\* A decrease touches the two accounts of its validator only.
LEMMA ChainDecreaseEffect ==
    ASSUME NEW l \in Ledger, NEW ix \in Ix
    PROVE  /\ \A v \in Validators \ {ix.vote} :
                 /\ ChainDecrease(l, ix).stake[v] = l.stake[v]
                 /\ ChainDecrease(l, ix).tsa[v] = l.tsa[v]
           /\ ChainDecrease(l, ix).stake[ix.vote] = l.stake[ix.vote] - ix.amt
           /\ ChainDecrease(l, ix).tsa[ix.vote].deactivation = epoch
BY DEF ChainDecrease, Ledger, Ix

\* An increase touches the transient account of its validator only.
LEMMA ChainIncreaseEffect ==
    ASSUME NEW l \in Ledger, NEW ix \in Ix
    PROVE  /\ ChainIncrease(l, ix).stake = l.stake
           /\ \A v \in Validators \ {ix.vote} : ChainIncrease(l, ix).tsa[v] = l.tsa[v]
           /\ ChainIncrease(l, ix).tsa[ix.vote].stake = l.tsa[ix.vote].stake + ix.amt
           /\ ChainIncrease(l, ix).tsa[ix.vote].deactivation = Never
BY DEF ChainIncrease, Ledger, Ix

\* An executed instruction does to its validator what it says; the accounts of the others,
\* those reached before included, stay as they are.
LEMMA ExecIxFollowsChunk ==
    ASSUME TypeOK, SeedInv, RunInv, OnlyMine, ExecFollowsChunk, ExecIx
    PROVE  ExecFollowsChunk'
<1>0. /\ exec.busy /\ exec.tx.ixs = tx /\ exec.pos \in DOMAIN tx /\ exec.pos \in Nat
      /\ UNCHANGED <<tx, ledger>>
  <2>1. exec.busy /\ exec.pos <= Len(exec.tx.ixs) /\ UNCHANGED <<tx, ledger>>
    BY DEF ExecIx, commandVars
  <2>2. exec.tx.ixs = tx
    BY <2>1 DEF OnlyMine, Mine
  <2>3. exec.pos \in Nat \ {0} /\ tx \in Seq(Ix)
    BY DEF TypeOK
  <2> QED  BY <2>1, <2>2, <2>3
<1> PICK n \in Nat : n = exec.pos
  BY <1>0
<1> PICK ix \in Ix : ix = tx[n]
  BY <1>0, ChunkType
<1>1. /\ exec.busy /\ n \in DOMAIN tx /\ UNCHANGED <<tx, ledger>>
      /\ Accepts(exec, ix)
      /\ exec' = [exec EXCEPT !.pos = @ + 1, !.seeds = @ \cup {ix.seed},
                              !.ledger = IF ix.kind = "Decrease" THEN ChainDecrease(@, ix)
                                         ELSE ChainIncrease(@, ix)]
  BY <1>0 DEF ExecIx
<1>2. /\ exec'.busy /\ exec'.pos = n + 1
      /\ exec'.ledger = IF ix.kind = "Decrease" THEN ChainDecrease(exec.ledger, ix)
                        ELSE ChainIncrease(exec.ledger, ix)
  BY <1>1 DEF TypeOK
<1>3. ix \in Ix /\ ix.vote \in Validators /\ ix.kind \in {"Increase", "Decrease"} /\ ix.amt \in Nat
  BY <1>1, ChunkType
<1>4. exec.ledger \in Ledger /\ epoch \in 1 .. MaxEpoch
  BY DEF TypeOK
<1>5. \A k \in DOMAIN tx : Executed(k) => tx[k].vote # ix.vote
  <2> SUFFICES ASSUME NEW k \in DOMAIN tx, Executed(k), tx[k].vote = ix.vote PROVE FALSE
    OBVIOUS
  <2>1. k = n
    BY <1>1, VotesDiffer
  <2> QED  BY <1>1, <2>1 DEF Executed
<1>6. Untouched(ix.vote)
  BY <1>1, <1>3, <1>5 DEF ExecFollowsChunk
<1>7. \A v \in Validators \ {ix.vote} :
         exec'.ledger.stake[v] = exec.ledger.stake[v] /\ exec'.ledger.tsa[v] = exec.ledger.tsa[v]
  <2>1. CASE ix.kind = "Decrease"
    BY <1>2, <1>3, <1>4, <2>1, ChainDecreaseEffect
  <2>2. CASE ix.kind # "Decrease"
    BY <1>2, <1>3, <1>4, <2>2, ChainIncreaseEffect
  <2> QED  BY <2>1, <2>2
<1>8. ASSUME NEW k \in DOMAIN tx PROVE Executed(k)' <=> (Executed(k) \/ k = n)
  BY <1>1, <1>2, <1>8, ChunkType DEF Executed
<1>9. ASSUME ix.kind = "Increase" PROVE Increased(ix)'
  <2>1. exec'.ledger = ChainIncrease(exec.ledger, ix)
    BY <1>2, <1>9
  <2>2. /\ exec'.ledger.stake[ix.vote] = exec.ledger.stake[ix.vote]
        /\ exec'.ledger.tsa[ix.vote].stake = exec.ledger.tsa[ix.vote].stake + ix.amt
        /\ exec'.ledger.tsa[ix.vote].deactivation = Never
    BY <1>3, <1>4, <2>1, ChainIncreaseEffect
  <2> QED  BY <1>1, <1>6, <2>2 DEF Increased, Untouched
<1>10. ASSUME ix.kind = "Decrease" PROVE Decreased(ix)'
  <2>1. exec'.ledger = ChainDecrease(exec.ledger, ix)
    BY <1>2, <1>10
  <2>2. ledger.tsa[ix.vote].deactivation # Never
    <3>1. exec.ledger.tsa[ix.vote] = NoTsa \/ exec.ledger.tsa[ix.vote].deactivation = epoch
      BY <1>1, <1>10 DEF Accepts
    <3>2. exec.ledger.tsa[ix.vote].deactivation # Never
      BY <1>4, <3>1, ConstantsType, BoundsAssumption DEF NoTsa
    <3> QED  BY <1>6, <3>2 DEF Untouched
  <2>3. epoch # Never
    BY <1>4, ConstantsType, BoundsAssumption
  <2>4. /\ exec'.ledger.stake[ix.vote] = ledger.stake[ix.vote] - ix.amt
        /\ exec'.ledger.tsa[ix.vote].deactivation # Never
    BY <1>3, <1>4, <1>6, <2>1, <2>3, ChainDecreaseEffect DEF Untouched
  <2> QED  BY <1>1, <2>2, <2>4 DEF Decreased
<1> QED
  <2>1. ASSUME NEW k \in DOMAIN tx, Executed(k)'
        PROVE  /\ tx[k].kind = "Increase" => Increased(tx[k])'
               /\ tx[k].kind = "Decrease" => Decreased(tx[k])'
    <3>1. CASE k = n
      BY <1>1, <1>9, <1>10, <3>1
    <3>2. CASE Executed(k)
      <4>1. tx[k].vote \in Validators \ {ix.vote}
        BY <1>5, <3>2, ChunkType
      <4>2. /\ tx[k].kind = "Increase" => Increased(tx[k])
            /\ tx[k].kind = "Decrease" => Decreased(tx[k])
        BY <1>1, <3>2 DEF ExecFollowsChunk
      <4> QED  BY <1>1, <1>7, <4>1, <4>2 DEF Increased, Decreased
    <3> QED  BY <1>8, <2>1, <3>1, <3>2
  <2>2. ASSUME NEW v \in Validators, \A k \in DOMAIN tx : Executed(k)' => tx[k].vote # v
        PROVE  Untouched(v)'
    <3>1. v # ix.vote
      BY <1>1, <1>8, <2>2
    <3>2. Untouched(v)
      BY <1>1, <1>8, <2>2 DEF ExecFollowsChunk
    <3> QED  BY <1>1, <1>7, <2>2, <3>1, <3>2 DEF Untouched
  <2> QED  BY <1>1, <2>1, <2>2 DEF ExecFollowsChunk

\* A transaction that commits leaves every validator as it was that an entry still to be
\* planned is for.
LEMMA CommitKeepsPending ==
    ASSUME TypeOK, RunInv, OnlyMine, PendingAsRead, ExecFollowsChunk, CommitTx
    PROVE  PendingAsRead'
<1>1. /\ exec.busy /\ ledger' = exec.ledger /\ exec' = Idle
      /\ UNCHANGED <<inflight, pc, scheme, view, next, tx, added>>
      /\ undisturbed' => undisturbed
  BY DEF CommitTx
<1>2. inflight = {} /\ pc \in {"confirm", "crashed"}
  BY <1>1 DEF OnlyMine, OnItsWay
<1> SUFFICES ASSUME NEW i \in DOMAIN scheme, Pending(i)'
             PROVE  AsRead(scheme[i].vote)'
  BY <1>1 DEF PendingAsRead
<1> DEFINE v == scheme[i].vote
<1>3. i >= next /\ Pending(i)
  BY <1>1, <1>2 DEF Pending, OnItsWay, Idle
<1>4. AsRead(v) /\ v \in Validators
  BY <1>3, SchemeType DEF PendingAsRead
<1>5. Untouched(v)
  <2>1. ASSUME NEW k \in DOMAIN tx, tx[k].vote = v PROVE FALSE
    <3>1. Place(tx[k]) = i /\ Place(tx[k]) < next
      BY <2>1, PlaceOfVote DEF RunInv, ChunkFollowsScheme, IxFollows
    <3> QED  BY <1>3, <3>1, SchemeType DEF TypeOK
  <2> QED  BY <1>1, <1>4, <2>1 DEF ExecFollowsChunk
<1> QED  BY <1>1, <1>4, <1>5 DEF AsRead, Total, Untouched

\* Whatever the runtime does with a transaction, the run's invariant holds.
LEMMA RuntimeRunInv ==
    ASSUME TypeOK, SeedInv, RunInv, Runtime PROVE RunInv'
<1>1. /\ UNCHANGED <<request, scheme, next, tx, view, pc, run, added>>
      /\ undisturbed' => undisturbed
  <2>1. ASSUME NEW t \in inflight, BeginTx(t) \/ ExpireTx(t)
        PROVE  UNCHANGED <<request, scheme, next, tx, view, pc, run, added, undisturbed>>
    BY <2>1 DEF BeginTx, ExpireTx, commandVars
  <2>2. ASSUME ExecIx \/ AbortTx
        PROVE  UNCHANGED <<request, scheme, next, tx, view, pc, run, added, undisturbed>>
    BY <2>2 DEF ExecIx, AbortTx, commandVars
  <2>3. ASSUME CommitTx
        PROVE  /\ UNCHANGED <<request, scheme, next, tx, view, pc, run, added>>
               /\ undisturbed' => undisturbed
    BY <2>3 DEF CommitTx
  <2> QED  BY <2>1, <2>2, <2>3 DEF Runtime
<1>2. request' \in Requests /\ Distinct(scheme)' /\ TargetsFit' /\ ChunkFollowsScheme'
  BY <1>1, KeepsChunk
<1>3. ASSUME Alone' PROVE OnlyMine' /\ PendingAsRead' /\ ExecFollowsChunk'
  <2>1. Alone /\ OnlyMine /\ PendingAsRead /\ ExecFollowsChunk
    BY <1>1, <1>3 DEF Alone, RunInv
  <2>2. ASSUME UNCHANGED ledger, OnItsWay' => OnItsWay PROVE PendingAsRead'
    BY <1>1, <2>1, <2>2 DEF PendingAsRead, Pending, AsRead, Total, Place
  <2>3. ASSUME NEW t \in inflight, BeginTx(t)
        PROVE  OnlyMine' /\ PendingAsRead' /\ ExecFollowsChunk'
    <3>1. /\ exec' = [busy |-> TRUE, tx |-> t, pos |-> 1, ledger |-> ledger, seeds |-> {}]
          /\ inflight' = inflight \ {t} /\ UNCHANGED <<ledger, outcome>>
      BY <2>3 DEF BeginTx, commandVars
    <3>2. t = Mine /\ inflight' = {} /\ OnItsWay
      BY <2>1, <3>1 DEF OnlyMine, OnItsWay
    <3>3. OnlyMine'
      BY <1>1, <2>1, <3>1, <3>2 DEF OnlyMine, OnItsWay, Mine
    <3>4. ExecFollowsChunk'
      <4>1. ASSUME NEW k \in DOMAIN tx PROVE ~(k < 1)
        BY <4>1 DEF TypeOK
      <4>2. exec'.pos = 1 /\ exec'.ledger = ledger'
        BY <3>1
      <4>3. ASSUME NEW v PROVE Untouched(v)'
        BY <4>2 DEF Untouched
      <4> QED  BY <1>1, <4>1, <4>2, <4>3 DEF ExecFollowsChunk, Executed
    <3> QED  BY <2>2, <3>1, <3>2, <3>3, <3>4
  <2>4. ASSUME NEW t \in inflight, ExpireTx(t)
        PROVE  OnlyMine' /\ PendingAsRead' /\ ExecFollowsChunk'
    <3>1. ~exec.busy /\ inflight' = inflight \ {t} /\ UNCHANGED <<ledger, exec>>
      BY <2>4 DEF ExpireTx
    <3>2. inflight' = {} /\ ~exec'.busy
      BY <2>1, <3>1 DEF OnlyMine
    <3> QED  BY <2>2, <3>1, <3>2 DEF OnlyMine, OnItsWay, ExecFollowsChunk
  <2>5. CASE ExecIx
    <3>1. /\ exec.busy /\ exec'.busy /\ exec'.tx = exec.tx
          /\ UNCHANGED <<ledger, inflight, outcome>>
      BY <2>5 DEF ExecIx, TypeOK, commandVars
    <3>2. OnlyMine'
      BY <1>1, <2>1, <3>1 DEF OnlyMine, OnItsWay, Mine
    <3>3. ExecFollowsChunk'
      BY <2>1, <2>5, ExecIxFollowsChunk
    <3> QED  BY <2>2, <3>1, <3>2, <3>3 DEF OnItsWay
  <2>6. CASE AbortTx
    <3>1. exec.busy /\ exec' = Idle /\ UNCHANGED <<ledger, inflight>>
      BY <2>6 DEF AbortTx
    <3>2. inflight' = {} /\ ~exec'.busy
      BY <2>1, <3>1 DEF OnlyMine, Idle
    <3> QED  BY <2>2, <3>1, <3>2 DEF OnlyMine, OnItsWay, ExecFollowsChunk
  <2>7. CASE CommitTx
    <3>1. exec.busy /\ exec' = Idle /\ UNCHANGED inflight
      BY <2>7 DEF CommitTx
    <3>2. inflight' = {} /\ ~exec'.busy
      BY <2>1, <3>1 DEF OnlyMine, Idle
    <3>3. PendingAsRead'
      BY <2>1, <2>7, CommitKeepsPending
    <3> QED  BY <3>2, <3>3 DEF OnlyMine, OnItsWay, ExecFollowsChunk
  <2> QED  BY <2>3, <2>4, <2>5, <2>6, <2>7 DEF Runtime
<1> QED  BY <1>2, <1>3 DEF RunInv

\* What others give to a validator is counted: the crank only turns stake on its way in into
\* active stake, and everything but adding stake takes it away.
LEMMA WorldCountsAdded ==
    ASSUME TypeOK, World, NEW v \in Validators
    PROVE  \/ Total(ledger', v) <= Total(ledger, v) /\ added'[v] = added[v]
           \/ /\ Total(ledger', v) = Total(ledger, v) + UserAmount
              /\ added'[v] = added[v] + UserAmount
<1>0. ledger \in Ledger /\ ledger.stake[v] \in Nat /\ ledger.tsa[v].stake \in Nat /\ UserAmount \in Nat
  BY LedgerType, ConstantsType DEF TypeOK
<1>1. CASE AdvanceEpoch \/ FinishUpdate \/ ReplaceStaker \/ \E u \in Validators : RemoveValidator(u)
  <2>1. ledger' = ledger /\ added' = added
    BY <1>1 DEF AdvanceEpoch, FinishUpdate, ReplaceStaker, RemoveValidator
  <2> QED  BY <1>0, <2>1 DEF Total
<1>2. CASE DepositSol \/ WithdrawSol
  <2>1. ledger'.stake = ledger.stake /\ ledger'.tsa = ledger.tsa /\ added' = added
    BY <1>0, <1>2 DEF DepositSol, WithdrawSol, Ledger
  <2> QED  BY <1>0, <2>1 DEF Total
<1>3. ASSUME NEW u \in Validators, WithdrawStake(u)
      PROVE  Total(ledger', v) <= Total(ledger, v) /\ added' = added
  <2>1. ledger' = [ledger EXCEPT !.stake = [ledger.stake EXCEPT ![u] = @ - UserAmount]]
    BY <1>3 DEF WithdrawStake
  <2>2. ledger'.tsa[v] = ledger.tsa[v] /\ added' = added
    BY <1>0, <1>3, <2>1 DEF Ledger, WithdrawStake
  <2>3. ledger'.stake[v] = IF v = u THEN ledger.stake[v] - UserAmount ELSE ledger.stake[v]
    BY <1>0, <2>1 DEF Ledger
  <2> QED  BY <1>0, <2>2, <2>3 DEF Total
<1>4. ASSUME NEW u \in Validators, MergeTransient(u)
      PROVE  Total(ledger', v) <= Total(ledger, v) /\ added' = added
  <2> DEFINE t == ledger.tsa[u]
             up == IF t.deactivation = Never THEN t.stake ELSE 0
  <2>1. ledger'.stake = [ledger.stake EXCEPT ![u] = @ + up] /\ ledger'.tsa = [ledger.tsa EXCEPT ![u] = NoTsa]
    BY <1>4 DEF MergeTransient
  <2>2. up \in Nat /\ up <= ledger.tsa[u].stake /\ added' = added
    BY <1>4, LedgerType DEF MergeTransient
  <2> HIDE DEF up
  <2>3. CASE v = u
    <3>1. ledger'.stake[v] = ledger.stake[v] + up
      BY <1>0, <2>1, <2>3 DEF Ledger
    <3>2. ledger'.tsa[v] = NoTsa
      BY <1>0, <2>1, <2>3 DEF Ledger
    <3>3. ledger'.tsa[v].stake = 0
      BY <3>2 DEF NoTsa
    <3> QED  BY <1>0, <2>2, <2>3, <3>1, <3>3 DEF Total
  <2>4. CASE v # u
    <3>1. ledger'.stake[v] = ledger.stake[v] /\ ledger'.tsa[v] = ledger.tsa[v]
      BY <1>0, <2>1, <2>4 DEF Ledger
    <3> QED  BY <1>0, <2>2, <3>1 DEF Total
  <2> QED  BY <2>2, <2>3, <2>4
<1>5. ASSUME NEW u \in Validators, AddStake(u)
      PROVE  \/ Total(ledger', v) <= Total(ledger, v) /\ added'[v] = added[v]
             \/ /\ Total(ledger', v) = Total(ledger, v) + UserAmount
                /\ added'[v] = added[v] + UserAmount
  <2>1. /\ ledger' = [ledger EXCEPT !.stake = [ledger.stake EXCEPT ![u] = @ + UserAmount]]
        /\ added' = [added EXCEPT ![u] = @ + UserAmount] /\ added \in [Validators -> Nat]
    BY <1>5 DEF AddStake, TypeOK
  <2>2. /\ ledger'.tsa[v] = ledger.tsa[v]
        /\ ledger'.stake[v] = IF v = u THEN ledger.stake[v] + UserAmount ELSE ledger.stake[v]
        /\ added'[v] = IF v = u THEN added[v] + UserAmount ELSE added[v]
    BY <1>0, <2>1 DEF Ledger
  <2> QED  BY <1>0, <2>2 DEF Total
<1> QED  BY <1>1, <1>2, <1>3, <1>4, <1>5 DEF World

\* The rest of the world disturbs the run; what it gives to a validator is counted.
LEMMA WorldRunInv ==
    ASSUME TypeOK, RunInv, World PROVE RunInv'
<1>1. /\ UNCHANGED <<request, scheme, next, tx, view, pc, run, outcome, inflight, exec>>
      /\ undisturbed' = FALSE /\ ~exec.busy
  BY DEF World, AdvanceEpoch, FinishUpdate, MergeTransient, DepositSol, WithdrawSol, WithdrawStake,
         AddStake, RemoveValidator, ReplaceStaker, Interfere, NotTheCommand, commandVars
<1>2. request' \in Requests /\ Distinct(scheme)' /\ TargetsFit' /\ ChunkFollowsScheme'
  BY <1>1, KeepsChunk
<1>3. ASSUME Alone' PROVE OnlyMine' /\ PendingAsRead' /\ ExecFollowsChunk'
  <2>1. Alone /\ OnlyMine /\ PendingAsRead
    BY <1>1, <1>3 DEF Alone, RunInv
  <2>2. OnlyMine' /\ ExecFollowsChunk'
    BY <1>1, <2>1 DEF OnlyMine, OnItsWay, Mine, ExecFollowsChunk
  <2>3. ASSUME NEW i \in DOMAIN scheme, Pending(i)' PROVE AsRead(scheme[i].vote)'
    <3>1. Pending(i) /\ scheme[i].vote \in Validators
      BY <1>1, <2>3, SchemeType DEF Pending, OnItsWay, Place
    <3> DEFINE v == scheme[i].vote
    <3>2. Total(ledger, v) <= Total(view, v) + added[v]
      BY <2>1, <3>1 DEF PendingAsRead, AsRead
    <3>3. \/ Total(ledger', v) <= Total(ledger, v) /\ added'[v] = added[v]
          \/ /\ Total(ledger', v) = Total(ledger, v) + UserAmount
             /\ added'[v] = added[v] + UserAmount
      BY <3>1, WorldCountsAdded
    <3>4. /\ Total(ledger, v) \in Nat /\ Total(view, v) \in Nat
          /\ Total(ledger', v) \in Int /\ added[v] \in Nat
      <4>1. TypeOK'
        BY WorldTypeOK
      <4>2. ledger' \in Ledger
        BY <4>1 DEF TypeOK
      <4>3. ledger'.stake[v] \in Nat /\ ledger'.tsa[v].stake \in Nat
        BY <3>1, <4>2 DEF Ledger, Tsa
      <4>4. added[v] \in Nat
        BY <3>1 DEF TypeOK
      <4> QED  BY <3>1, <4>3, <4>4, LedgerType DEF Total
    <3> HIDE DEF v
    <3>5. Total(ledger', v) <= Total(view, v) + added'[v]
      BY <3>2, <3>3, <3>4, ConstantsType
    <3> QED  BY <1>1, <3>5 DEF AsRead, Total, v
  <2> QED  BY <1>1, <2>2, <2>3 DEF PendingAsRead
<1> QED  BY <1>2, <1>3 DEF RunInv

\* Every step of the system keeps the invariant of the run.
LEMMA NextRunInv ==
    ASSUME DistinctRequests
    PROVE  TypeOK /\ SeedInv /\ RunInv /\ [Next]_vars => RunInv'
<1> SUFFICES ASSUME TypeOK, SeedInv, RunInv, [Next]_vars PROVE RunInv'
  OBVIOUS
<1>1. CASE FetchPool
  BY <1>1, FetchPoolRunInv
<1>2. CASE FetchList
  BY <1>2, FetchListRunInv
<1>3. CASE FetchStakes
  BY <1>3, FetchStakesRunInv
<1>4. CASE Aim
  BY <1>4, AimRunInv
<1>5. CASE PlanNext
  BY <1>5, PlanNextRunInv
<1>6. CASE SendTx \/ Confirmed \/ Rejected \/ Finish \/ Crash
  BY <1>6, CommandRunInv
<1>7. CASE Runtime
  BY <1>7, RuntimeRunInv
<1>8. CASE World
  BY <1>8, WorldRunInv
<1>9. CASE UNCHANGED vars
  <2>1. UNCHANGED <<request, scheme, next, tx, view, pc, run, outcome, inflight, exec, ledger,
                    added, undisturbed>>
    BY <1>9 DEF vars, chainVars, commandVars
  <2>2. request' \in Requests /\ Distinct(scheme)' /\ TargetsFit' /\ ChunkFollowsScheme'
    BY <2>1, KeepsChunk
  <2>3. OnlyMine' <=> OnlyMine
    BY <2>1 DEF OnlyMine, OnItsWay, Mine
  <2>4. PendingAsRead => PendingAsRead'
    BY <2>1 DEF PendingAsRead, Pending, OnItsWay, Place, AsRead, Total
  <2>5. ExecFollowsChunk => ExecFollowsChunk'
    BY <2>1 DEF ExecFollowsChunk, Executed, Increased, Decreased, Untouched
  <2> QED  BY <2>1, <2>2, <2>3, <2>4, <2>5 DEF RunInv, Alone
<1> QED  BY <1>1, <1>2, <1>3, <1>4, <1>5, <1>6, <1>7, <1>8, <1>9 DEF Next, Command

\* Before the first run there is no chunk and nothing on its way.
LEMMA InitRunInv == Init => RunInv
<1> SUFFICES ASSUME Init PROVE RunInv
  OBVIOUS
<1>1. /\ request \in Requests /\ scheme = <<>> /\ tx = <<>> /\ inflight = {} /\ ~exec.busy
      /\ pc = "idle"
  BY DEF Init, Idle
<1> QED
  BY <1>1 DEF RunInv, Distinct, TargetsFit, ChunkFollowsScheme, OnlyMine, OnItsWay, PendingAsRead,
              ExecFollowsChunk

\* The inductive invariant of a run: what is on its way was planned for validators that are
\* still as they were read, or differ by what others have taken away and added since.
THEOREM RunCorrect ==
    ASSUME DistinctRequests
    PROVE  Spec => [](TypeOK /\ SeedInv /\ RunInv)
<1>1. Init => SeedInv
  BY DEF Init, Idle, SeedInv, SeedsIncrease
<1>2. TypeOK /\ SeedInv /\ RunInv /\ [Next]_vars => SeedInv' /\ RunInv'
  BY NextSeedInv, NextRunInv
<1> QED  BY <1>1, <1>2, InitRunInv, TypeCorrect, PTL DEF Spec

\* What a committing transaction has done to the validator of an entry of the scheme: either
\* nothing, or what the one instruction planned for that entry says.
LEMMA CommitEffect ==
    ASSUME TypeOK, RunInv, Alone, CommitTx, NEW i \in DOMAIN scheme
    PROVE  LET v == scheme[i].vote
           IN  \/ Effective(ledger', v) = Effective(ledger, v)
               \/ \E k \in DOMAIN tx :
                     /\ Place(tx[k]) = i /\ tx[k].vote = v /\ IxFollows(tx[k]) /\ AsRead(v)
                     /\ \/ /\ tx[k].kind = "Increase"
                           /\ Effective(ledger', v) = Total(ledger, v) + tx[k].amt
                        \/ /\ tx[k].kind = "Decrease"
                           /\ Effective(ledger, v) = ledger.stake[v]
                           /\ Effective(ledger', v) = ledger.stake[v] - tx[k].amt
<1> DEFINE v == scheme[i].vote
<1>1. /\ exec.busy /\ exec.pos > Len(exec.tx.ixs) /\ ledger' = exec.ledger
      /\ exec.tx = Mine /\ OnItsWay /\ PendingAsRead /\ ExecFollowsChunk
  BY DEF CommitTx, RunInv, OnlyMine, OnItsWay
<1>2. \A k \in DOMAIN tx : Executed(k)
  <2>1. exec.pos > Len(tx) /\ exec.pos \in Nat /\ tx \in Seq(Ix)
    BY <1>1 DEF Mine, TypeOK
  <2> QED  BY <2>1 DEF Executed
<1>3. v \in Validators
  BY SchemeType
<1>4. CASE \A k \in DOMAIN tx : tx[k].vote # v
  <2>1. Untouched(v)
    BY <1>1, <1>3, <1>4 DEF ExecFollowsChunk
  <2> QED  BY <1>1, <2>1 DEF Effective, Untouched
<1>5. ASSUME NEW k \in DOMAIN tx, tx[k].vote = v
      PROVE  /\ Place(tx[k]) = i /\ IxFollows(tx[k]) /\ AsRead(v)
             /\ \/ /\ tx[k].kind = "Increase"
                   /\ Effective(ledger', v) = Total(ledger, v) + tx[k].amt
                \/ /\ tx[k].kind = "Decrease"
                   /\ Effective(ledger, v) = ledger.stake[v]
                   /\ Effective(ledger', v) = ledger.stake[v] - tx[k].amt
  <2>1. Place(tx[k]) = i
    BY <1>5, PlaceOfVote
  <2>2. Pending(i)
    BY <1>1, <2>1 DEF Pending
  <2>3. AsRead(v) /\ IxFollows(tx[k])
    BY <1>1, <2>2 DEF PendingAsRead, RunInv, ChunkFollowsScheme
  <2>4. /\ tx[k].kind = "Increase" => Increased(tx[k])
        /\ tx[k].kind = "Decrease" => Decreased(tx[k])
    BY <1>1, <1>2 DEF ExecFollowsChunk
  <2>5. /\ tx[k].kind \in {"Increase", "Decrease"} /\ tx[k].amt \in Nat
        /\ ledger.stake[v] \in Nat /\ ledger.tsa[v].stake \in Nat
    BY <1>3, ChunkType, LedgerType
  <2>6. CASE tx[k].kind = "Increase"
    <3>1. /\ ledger'.stake[v] = ledger.stake[v]
          /\ ledger'.tsa[v].stake = ledger.tsa[v].stake + tx[k].amt
          /\ ledger'.tsa[v].deactivation = Never
      BY <1>1, <1>5, <2>4, <2>6 DEF Increased
    <3> QED  BY <2>1, <2>3, <2>5, <2>6, <3>1 DEF Effective, Total
  <2>7. CASE tx[k].kind = "Decrease"
    <3>1. /\ ledger'.stake[v] = ledger.stake[v] - tx[k].amt
          /\ ledger'.tsa[v].deactivation # Never
          /\ ledger.tsa[v].deactivation # Never
      BY <1>1, <1>5, <2>4, <2>7 DEF Decreased
    <3> QED  BY <2>1, <2>3, <2>5, <2>7, <3>1 DEF Effective
  <2> QED  BY <2>5, <2>6, <2>7
<1> QED  BY <1>4, <1>5

\* While nobody else touches the pool no decrease takes a validator below its target, for
\* every pool, chunk size and request that names no validator twice.
THEOREM UndershootCorrect ==
    ASSUME DistinctRequests
    PROVE  Spec => NeverUndershoots
<1>1. ASSUME TypeOK, RunInv, CommitTx, undisturbed', NEW i \in DOMAIN scheme
      PROVE  LET v == scheme[i].vote
             IN  \/ Effective(ledger', v) >= Effective(ledger, v)
                 \/ Effective(ledger', v) >= Desired(scheme[i])
  <2> DEFINE v == scheme[i].vote
  <2>1. undisturbed /\ Alone
    BY <1>1 DEF CommitTx, Alone
  <2>2. /\ v \in Validators /\ Desired(scheme[i]) \in Nat
        /\ ledger.stake[v] \in Nat /\ ledger.tsa[v].stake \in Nat
    BY <1>1, SchemeType, LedgerType
  <2>3. Effective(ledger, v) \in Nat /\ Effective(ledger, v) <= Total(ledger, v)
    BY <2>2 DEF Effective, Total
  <2>4. CASE Effective(ledger', v) = Effective(ledger, v)
    BY <2>3, <2>4
  <2>5. ASSUME NEW k \in DOMAIN tx, tx[k].vote = v, Place(tx[k]) = i, IxFollows(tx[k]), AsRead(v),
               \/ /\ tx[k].kind = "Increase"
                  /\ Effective(ledger', v) = Total(ledger, v) + tx[k].amt
               \/ /\ tx[k].kind = "Decrease"
                  /\ Effective(ledger', v) = ledger.stake[v] - tx[k].amt
        PROVE  \/ Effective(ledger', v) >= Effective(ledger, v)
               \/ Effective(ledger', v) >= Desired(scheme[i])
    <3>1. tx[k].amt \in Nat /\ Total(ledger, v) \in Nat
      BY <1>1, <2>2, ChunkType DEF Total
    <3>2. CASE tx[k].kind = "Increase" /\ Effective(ledger', v) = Total(ledger, v) + tx[k].amt
      BY <2>3, <3>1, <3>2
    <3>3. CASE tx[k].kind = "Decrease" /\ Effective(ledger', v) = ledger.stake[v] - tx[k].amt
      <4>1. tx[k].amt + Desired(scheme[i]) <= ledger.stake[v]
        BY <2>1, <2>5, <3>3 DEF IxFollows, AsRead
      <4> QED  BY <2>2, <3>1, <3>3, <4>1
    <3> QED  BY <2>5, <3>2, <3>3
  <2> QED  BY <1>1, <2>1, <2>4, <2>5, CommitEffect
<1>2. TypeOK /\ RunInv /\ [Next]_vars
        => [CommitTx /\ undisturbed' =>
              \A i \in DOMAIN scheme :
                 LET v == scheme[i].vote
                 IN  \/ Effective(ledger', v) >= Effective(ledger, v)
                     \/ Effective(ledger', v) >= Desired(scheme[i])]_vars
  BY <1>1
<1> QED  BY <1>2, RunCorrect, PTL DEF Spec, NeverUndershoots

\* As long as a run starts only once the transactions of the previous one are settled, no
\* transaction lifts a validator further above its target than by the stake others have added
\* since it was read, whatever else they do between the reads and the execution, for every
\* pool, chunk size, number of runs and request that names no validator twice.
THEOREM OvershootCorrect ==
    ASSUME DistinctRequests, RerunWhileInFlight = FALSE
    PROVE  Spec => NeverOvershoots
<1>1. ASSUME TypeOK, RunInv, CommitTx, NEW i \in DOMAIN scheme
      PROVE  LET v == scheme[i].vote
             IN  \/ Effective(ledger', v) <= Effective(ledger, v)
                 \/ Effective(ledger', v) <= Desired(scheme[i]) + added[v]
  <2> DEFINE v == scheme[i].vote
  <2>1. Alone
    BY DEF Alone
  <2>2. /\ v \in Validators /\ Desired(scheme[i]) \in Nat
        /\ ledger.stake[v] \in Nat /\ ledger.tsa[v].stake \in Nat
        /\ view.stake[v] \in Nat /\ view.tsa[v].stake \in Nat
        /\ added[v] \in Nat
    BY <1>1, SchemeType, LedgerType DEF TypeOK
  <2>3. Effective(ledger, v) \in Nat
    BY <2>2 DEF Effective
  <2>4. CASE Effective(ledger', v) = Effective(ledger, v)
    BY <2>3, <2>4
  <2>5. ASSUME NEW k \in DOMAIN tx, tx[k].vote = v, Place(tx[k]) = i, IxFollows(tx[k]), AsRead(v),
               \/ /\ tx[k].kind = "Increase"
                  /\ Effective(ledger', v) = Total(ledger, v) + tx[k].amt
               \/ /\ tx[k].kind = "Decrease"
                  /\ Effective(ledger, v) = ledger.stake[v]
                  /\ Effective(ledger', v) = ledger.stake[v] - tx[k].amt
        PROVE  \/ Effective(ledger', v) <= Effective(ledger, v)
               \/ Effective(ledger', v) <= Desired(scheme[i]) + added[v]
    <3>1. tx[k].amt \in Nat /\ Total(ledger, v) \in Nat /\ Total(view, v) \in Nat
      BY <1>1, <2>2, ChunkType DEF Total
    <3>2. CASE tx[k].kind = "Increase" /\ Effective(ledger', v) = Total(ledger, v) + tx[k].amt
      <4>1. /\ tx[k].amt + Total(view, v) <= Desired(scheme[i])
            /\ Total(ledger, v) <= Total(view, v) + added[v]
        BY <2>5, <3>2 DEF IxFollows, AsRead
      <4> QED  BY <2>2, <3>1, <3>2, <4>1
    <3>3. CASE /\ tx[k].kind = "Decrease"
               /\ Effective(ledger, v) = ledger.stake[v]
               /\ Effective(ledger', v) = ledger.stake[v] - tx[k].amt
      BY <2>2, <3>1, <3>3
    <3> QED  BY <2>5, <3>2, <3>3
  <2> QED  BY <1>1, <2>1, <2>4, <2>5, CommitEffect
<1>2. TypeOK /\ RunInv /\ [Next]_vars
        => [CommitTx =>
              \A i \in DOMAIN scheme :
                 LET v == scheme[i].vote
                 IN  \/ Effective(ledger', v) <= Effective(ledger, v)
                     \/ Effective(ledger', v) <= Desired(scheme[i]) + added[v]]_vars
  BY <1>1
<1> QED  BY <1>2, RunCorrect, PTL DEF Spec, NeverOvershoots

-----------------------------------------------------------------------------
(* What the chain asks of a transaction.  While nobody else touches the    *)
(* pool, everything the program checks was already so when it was read,    *)
(* except the reserve: the plan accounts for it in another way than the    *)
(* program does.                                                           *)

\* The program takes rent for every instruction; the plan takes lamports_for_new_vsa for a new
\* transient account and nothing for one that exists.  n instructions may therefore cost the
\* reserve this much more than the plan says.
Debt(n) == n * Rent

\* What the planner keeps back (two times lamports_for_new_vsa) covers it: with a rent of
\* 2282880 lamports and a min_delegation of 10^9, for schemes of up to 876 validators.
DebtIsCovered == \A r \in Requests : Debt(Len(r.scheme)) <= 2 * MinDelegation

\* An instruction agrees with the status and the accounts that were read.
Fits(ix) ==
    /\ view.status[ix.vote] = "Active"
    /\ ix.kind = "Increase" => TransientStatus(ix.vote) # "Deactivating"
    /\ ix.kind = "Decrease" => /\ TransientStatus(ix.vote) # "Activating"
                               /\ SaRent <= ix.amt /\ ix.amt + MinActive <= view.stake[ix.vote]

ChunkFits ==
    /\ \A k \in DOMAIN tx : Fits(tx[k])
    /\ Len(tx) < next
    /\ pc \in Fetching => next = 1
    /\ pc \in {"plan", "confirm"} => next <= Len(scheme) + 1
    /\ Debt(Len(scheme)) <= 2 * MinDelegation

\* What was read is still so.
StillAsRead ==
    /\ pc \in Running => isStaker /\ poolEpoch = epoch /\ view.epoch = epoch
    /\ pc \in Running \ {"fetch_list"} => view.status = status
    /\ pc \in {"fetch_list", "fetch_stakes"} => \A v \in Validators : ~IsStale(ledger.tsa[v])
    /\ pc \in {"aim", "plan", "confirm"} => \A v \in Validators : ~IsStale(view.tsa[v])

\* Only executed instructions have used their seeds.
SeedsUsed ==
    pc = "confirm" /\ exec.busy =>
        /\ exec.pos <= Len(tx) + 1
        /\ \A s \in exec.seeds : \E k \in DOMAIN tx : Executed(k) /\ tx[k].seed = s

\* The reserve before and after an instruction, as the planner sees it.
Given(ix) == IF ix.kind = "Increase" THEN ix.amt ELSE 0
Taken(ix) == Given(ix) + (IF view.tsa[ix.vote] = NoTsa THEN SaRent ELSE 0)

\* r[k] is the running reserve of the plan before instruction k of the chunk.
Reserves(r) ==
    /\ r[Len(tx) + 1] = reserveLamports
    /\ \A k \in DOMAIN tx : r[k] = r[k + 1] + Taken(tx[k]) /\ r[k] >= 2 * SaRent + Given(tx[k])

\* The reserve of the chain falls behind that of the plan by the debt at most.
DebtIsAll(r) ==
    /\ pc # "confirm" \/ (outcome = "pending" /\ ~exec.busy)
          => ledger.reserve + Debt(next - 1 - Len(tx)) >= r[1]
    /\ pc = "confirm" /\ exec.busy
          => exec.ledger.reserve + Debt(next - 1 - Len(tx) + exec.pos - 1) >= r[exec.pos]
    /\ pc = "confirm" /\ outcome = "confirmed"
          => ledger.reserve + Debt(next - 1) >= r[Len(tx) + 1]

ReserveSuffices ==
    pc \in {"fetch_stakes", "aim", "plan", "confirm"}
    => \E r \in [1 .. Len(tx) + 1 -> Nat] : Reserves(r) /\ DebtIsAll(r)

QuietInv ==
    /\ ChunkFits
    /\ undisturbed => /\ StillAsRead /\ SeedsUsed /\ ReserveSuffices
                      /\ outcome # "aborted"

\* Debts are numbers of lamports, each instruction adds one rent.
LEMMA DebtStep ==
    ASSUME NEW n \in Nat
    PROVE  Debt(n) \in Nat /\ Debt(n + 1) = Debt(n) + Rent
<1>1. Rent \in Nat
  BY ConstantsType
<1> QED  BY <1>1 DEF Debt

\* More instructions make no smaller debt.
LEMMA DebtGrows ==
    ASSUME NEW m \in Nat, NEW n \in Nat, m <= n
    PROVE  Debt(m) <= Debt(n)
<1>1. Rent \in Nat
  BY ConstantsType
<1>2. PICK d \in Nat : n = m + d
  <2>1. n - m \in Nat /\ n = m + (n - m)
    OBVIOUS
  <2> QED  BY <2>1
<1>3. n * Rent = m * Rent + d * Rent /\ d * Rent \in Nat /\ m * Rent \in Nat
  BY <1>1, <1>2
<1> QED  BY <1>3 DEF Debt

\* Rents are numbers of lamports.
LEMMA RentType == \A t : RentFor(t) \in Nat
BY ConstantsType DEF RentFor

\* The same of what an instruction takes from the reserve.
LEMMA GivenType ==
    ASSUME NEW ix \in Ix
    PROVE  Given(ix) \in Nat /\ Taken(ix) \in Nat
<1>1. Given(ix) \in Nat
  BY DEF Given, Ix
<1>2. \A b \in BOOLEAN : (IF b THEN SaRent ELSE 0) \in Nat
  BY ConstantsType
<1>3. (IF view.tsa[ix.vote] = NoTsa THEN SaRent ELSE 0) \in Nat
  BY <1>2
<1> QED  BY <1>1, <1>3 DEF Taken

\* The chain accepts the next instruction of an undisturbed run.
LEMMA UndisturbedIsAccepted ==
    ASSUME TypeOK, SeedInv, RunInv, QuietInv, undisturbed, pc = "confirm", exec.busy,
           exec.pos <= Len(exec.tx.ixs)
    PROVE  Accepts(exec, exec.tx.ixs[exec.pos])
<1>1. /\ OnlyMine /\ PendingAsRead /\ ExecFollowsChunk
      /\ StillAsRead /\ SeedsUsed /\ ReserveSuffices /\ ChunkFits
  BY DEF RunInv, QuietInv, Alone
<1>2. exec.tx.ixs = tx /\ exec.pos \in DOMAIN tx /\ exec.pos \in Nat /\ Len(tx) \in Nat
  BY <1>1 DEF OnlyMine, Mine, TypeOK
<1> PICK n \in Nat : n = exec.pos
  BY <1>2
<1> PICK ix \in Ix : ix = tx[n]
  BY <1>2, ChunkType
<1> DEFINE v == ix.vote
           t == exec.ledger.tsa[v]
<1>3. n \in DOMAIN tx /\ v \in Validators /\ ix.kind \in {"Increase", "Decrease"} /\ ix.amt \in Nat
  BY <1>2 DEF Ix
<1>4. /\ isStaker /\ poolEpoch = epoch /\ view.epoch = epoch /\ view.status = status
      /\ ~IsStale(view.tsa[v])
  BY <1>1, <1>3 DEF StillAsRead, Running
<1>5. Fits(ix)
  BY <1>1, <1>3 DEF ChunkFits
<1>6. ix.seed \notin exec.seeds
  <2> SUFFICES ASSUME NEW k \in DOMAIN tx, Executed(k), tx[k].seed = ix.seed PROVE FALSE
    BY <1>1 DEF SeedsUsed
  <2>1. k < n
    BY DEF Executed
  <2>2. tx[k].seed < tx[n].seed
    BY <1>3, <2>1 DEF SeedInv, SeedsIncrease
  <2> QED  BY <1>3, <2>2, ChunkType
<1>7. exec.ledger.stake[v] = view.stake[v] /\ t = view.tsa[v]
  <2>1. ASSUME NEW k \in DOMAIN tx, Executed(k), tx[k].vote = v PROVE FALSE
    <3>1. k = n
      BY <1>3, <2>1, VotesDiffer
    <3> QED  BY <2>1, <3>1, <1>2 DEF Executed
  <2>2. Untouched(v)
    BY <1>1, <1>3, <2>1 DEF ExecFollowsChunk
  <2>3. IxFollows(ix)
    BY <1>3 DEF RunInv, ChunkFollowsScheme
  <2>4. Pending(Place(ix)) /\ Place(ix) \in DOMAIN scheme /\ v = scheme[Place(ix)].vote
    BY <1>3, <2>3 DEF Pending, OnItsWay, IxFollows
  <2>5. AsRead(v)
    BY <1>1, <2>4 DEF PendingAsRead
  <2> QED  BY <2>2, <2>5 DEF Untouched, AsRead
<1>8. exec.ledger.reserve >= Given(ix) + 3 * Rent
  <2> PICK r \in [1 .. Len(tx) + 1 -> Nat] : Reserves(r) /\ DebtIsAll(r)
    BY <1>1 DEF ReserveSuffices
  <2>1. r[n] >= 2 * SaRent + Given(ix) /\ r[n] \in Nat
    BY <1>2, <1>3 DEF Reserves
  <2> DEFINE m == next - 1 - Len(tx) + n - 1
  <2>2. exec.ledger.reserve + Debt(m) >= r[n]
    BY DEF DebtIsAll
  <2>3. m \in Nat /\ m + 1 <= Len(scheme) /\ Len(scheme) \in Nat
    <3>1. next \in Nat /\ Len(scheme) \in Nat /\ n \in 1 .. Len(tx)
      BY <1>3, CountersType
    <3>2. Len(tx) < next /\ next <= Len(scheme) + 1
      BY <1>1 DEF ChunkFits
    <3>3. n >= 1 /\ n <= Len(tx) /\ n \in Nat /\ Len(tx) \in Nat
      BY <1>2, <3>1
    <3>4. \A x, k, p, q \in Nat :
             k < x /\ x <= q + 1 /\ p >= 1 /\ p <= k
             => x - 1 - k + p - 1 \in Nat /\ (x - 1 - k + p - 1) + 1 <= q
      OBVIOUS
    <3> QED  BY <3>1, <3>2, <3>3, <3>4
  <2> HIDE DEF m
  <2>4. Debt(m) + Rent <= 2 * MinDelegation /\ Debt(m) \in Nat
    <3>1. Debt(m) \in Nat /\ Debt(m + 1) = Debt(m) + Rent /\ Debt(Len(scheme)) \in Nat
          /\ Debt(m + 1) \in Nat
      <4>1. m + 1 \in Nat
        BY <2>3
      <4>2. Debt(m) \in Nat /\ Debt(m + 1) = Debt(m) + Rent
        BY <2>3, DebtStep
      <4>3. Debt(m + 1) \in Nat
        BY <4>1, DebtStep
      <4>4. Debt(Len(scheme)) \in Nat
        BY <2>3, DebtStep
      <4> QED  BY <4>2, <4>3, <4>4
    <3>2. Debt(m + 1) <= Debt(Len(scheme)) /\ Debt(Len(scheme)) <= 2 * MinDelegation
      BY <1>1, <2>3, DebtGrows DEF ChunkFits
    <3>3. MinDelegation \in Nat /\ Rent \in Nat
      BY LamportsAssumption
    <3>4. \A a, b, c, d, e \in Nat : a <= b /\ b <= c /\ a = d + e => d + e <= c
      OBVIOUS
    <3> QED  BY <3>1, <3>2, <3>3, <3>4
  <2>5. Given(ix) \in Nat /\ exec.ledger.reserve \in Nat
    BY ReserveType, GivenType
  <2>6. SaRent = Rent + MinDelegation /\ Rent \in Nat /\ MinDelegation \in Nat
    BY LamportsAssumption DEF SaRent
  <2>7. \A x, d, y, g, a, b \in Nat :
           x + d >= y /\ y >= 2 * (a + b) + g /\ d + a <= 2 * b => x >= g + 3 * a
    OBVIOUS
  <2> QED  BY <2>1, <2>2, <2>4, <2>5, <2>6, <2>7
<1>9. RentFor(t) \in Nat /\ RentFor(t) <= 2 * Rent /\ Rent \in Nat
  BY ConstantsType DEF RentFor
<1>10. exec.ledger.reserve \in Nat /\ view.stake[v] \in Nat
  BY <1>3, LedgerType DEF TypeOK, Ledger
<1>11. CASE ix.kind = "Decrease"
  <2>1. t = NoTsa \/ t.deactivation = epoch
    <3>1. view.tsa[v] = NoTsa \/ view.tsa[v].activation # epoch
      BY <1>4, <1>5, <1>11 DEF Fits, TransientStatus
    <3> QED  BY <1>4, <1>7, <3>1 DEF IsStale
  <2>2. exec.ledger.stake[v] - ix.amt >= MinActive
    BY <1>3, <1>5, <1>7, <1>10, <1>11, ConstantsType DEF Fits
  <2>3. exec.ledger.reserve >= RentFor(t) + Rent
    BY <1>8, <1>9, <1>10, <1>11 DEF Given
  <2> QED  BY <1>2, <1>4, <1>5, <1>6, <1>11, <2>1, <2>2, <2>3 DEF Accepts, Fits
<1>12. CASE ix.kind = "Increase"
  <2>1. t = NoTsa \/ t.activation = epoch
    <3>1. view.tsa[v] = NoTsa \/ view.tsa[v].activation = epoch
      BY <1>4, <1>5, <1>12 DEF Fits, TransientStatus
    <3> QED  BY <1>7, <3>1
  <2>2. exec.ledger.reserve >= ix.amt + RentFor(t) + Rent
    <3>1. Given(ix) = ix.amt
      BY <1>12 DEF Given
    <3>2. \A x, a, f, y \in Nat : x >= a + 3 * y /\ f <= 2 * y => x >= a + f + y
      OBVIOUS
    <3> QED  BY <1>3, <1>8, <1>9, <1>10, <3>1, <3>2
  <2> QED  BY <1>2, <1>4, <1>5, <1>6, <1>12, <2>1, <2>2 DEF Accepts, Fits
<1> QED  BY <1>3, <1>11, <1>12

\* An executed instruction costs the chain at most one rent more than the plan.
LEMMA ExecKeepsDebt ==
    ASSUME TypeOK, SeedInv, RunInv, QuietInv, undisturbed, pc = "confirm", ExecIx
    PROVE  SeedsUsed' /\ ReserveSuffices'
<1>0. /\ exec.busy /\ exec.pos <= Len(exec.tx.ixs)
      /\ UNCHANGED <<tx, ledger, pc, next, outcome, view, reserveLamports>>
  BY DEF ExecIx, commandVars
<1>1. /\ OnlyMine /\ PendingAsRead /\ ExecFollowsChunk
      /\ StillAsRead /\ SeedsUsed /\ ReserveSuffices /\ ChunkFits
  BY DEF RunInv, QuietInv, Alone
<1>2. exec.tx.ixs = tx /\ exec.pos \in DOMAIN tx /\ exec.pos \in Nat /\ Len(tx) \in Nat
  BY <1>0, <1>1 DEF OnlyMine, Mine, TypeOK
<1> PICK n \in Nat : n = exec.pos
  BY <1>2
<1> PICK ix \in Ix : ix = tx[n]
  BY <1>2, ChunkType
<1> DEFINE v == ix.vote
           l == exec.ledger
<1>3. /\ n \in DOMAIN tx /\ v \in Validators /\ ix.kind \in {"Increase", "Decrease"}
      /\ ix.amt \in Nat /\ n \in 1 .. Len(tx)
  BY <1>2, CountersType DEF Ix
<1>4. exec' = [exec EXCEPT !.pos = @ + 1, !.seeds = @ \cup {ix.seed},
                           !.ledger = IF ix.kind = "Decrease" THEN ChainDecrease(@, ix)
                                      ELSE ChainIncrease(@, ix)]
  BY <1>2 DEF ExecIx
<1>5. /\ exec'.busy /\ exec'.pos = n + 1 /\ exec'.seeds = exec.seeds \cup {ix.seed}
      /\ exec'.ledger = IF ix.kind = "Decrease" THEN ChainDecrease(l, ix) ELSE ChainIncrease(l, ix)
  BY <1>0, <1>4 DEF TypeOK
<1>6. SeedsUsed'
  <2>1. exec'.pos <= Len(tx) + 1
    BY <1>2, <1>3, <1>5
  <2>2. ASSUME NEW s \in exec'.seeds PROVE \E k \in DOMAIN tx : k < n + 1 /\ tx[k].seed = s
    <3>1. CASE s = ix.seed
      BY <1>3, <3>1
    <3>2. CASE s \in exec.seeds
      <4>1. PICK k \in DOMAIN tx : k < n /\ tx[k].seed = s
        BY <1>0, <1>1, <3>2 DEF SeedsUsed, Executed
      <4> QED  BY <4>1, ChunkType
    <3> QED  BY <1>5, <2>2, <3>1, <3>2
  <2> QED  BY <1>0, <1>5, <2>1, <2>2 DEF SeedsUsed, Executed
<1>7. l.tsa[v] = view.tsa[v]
  <2>1. ASSUME NEW k \in DOMAIN tx, Executed(k), tx[k].vote = v PROVE FALSE
    <3>1. k = n
      BY <1>3, <2>1, VotesDiffer
    <3> QED  BY <2>1, <3>1 DEF Executed
  <2>2. Untouched(v)
    BY <1>0, <1>1, <1>3, <2>1 DEF ExecFollowsChunk
  <2>3. IxFollows(ix)
    BY <1>3 DEF RunInv, ChunkFollowsScheme
  <2>4. Pending(Place(ix)) /\ Place(ix) \in DOMAIN scheme /\ v = scheme[Place(ix)].vote
    BY <1>0, <1>3, <2>3 DEF Pending, OnItsWay, IxFollows
  <2>5. AsRead(v)
    BY <1>1, <2>4 DEF PendingAsRead
  <2> QED  BY <2>2, <2>5 DEF Untouched, AsRead
<1>8. exec'.ledger.reserve + Taken(ix) + Rent >= l.reserve /\ exec'.ledger.reserve \in Int
  <2>1. exec'.ledger.reserve = l.reserve - (Given(ix) + RentFor(l.tsa[v]))
    <3>1. l.reserve \in Nat /\ RentFor(l.tsa[v]) \in Nat
      BY ReserveType, RentType
    <3>2. CASE ix.kind = "Decrease"
      <4>1. exec'.ledger.reserve = l.reserve - RentFor(l.tsa[v]) /\ Given(ix) = 0
        BY <1>5, <3>2 DEF ChainDecrease, Given
      <4> QED  BY <3>1, <4>1
    <3>3. CASE ix.kind = "Increase"
      <4>1. exec'.ledger.reserve = l.reserve - (ix.amt + RentFor(l.tsa[v])) /\ Given(ix) = ix.amt
        BY <1>5, <3>3 DEF ChainIncrease, Given
      <4> QED  BY <4>1
    <3> QED  BY <1>3, <3>2, <3>3
  <2>2. /\ l.reserve \in Nat /\ Given(ix) \in Nat /\ Rent \in Nat /\ MinDelegation \in Nat
        /\ SaRent = Rent + MinDelegation
    BY <1>3, LamportsAssumption DEF TypeOK, Ledger, Given, SaRent
  <2> HIDE DEF l, v
  <2>3. CASE view.tsa[v] = NoTsa
    <3>1. RentFor(l.tsa[v]) = 2 * Rent /\ Taken(ix) = Given(ix) + SaRent
      BY <1>7, <2>3 DEF RentFor, Taken, v
    <3> QED  BY <2>1, <2>2, <3>1
  <2>4. CASE view.tsa[v] # NoTsa
    <3>1. RentFor(l.tsa[v]) = Rent /\ Taken(ix) = Given(ix) + 0
      BY <1>7, <2>4 DEF RentFor, Taken, v
    <3> QED  BY <2>1, <2>2, <3>1
  <2> QED  BY <2>3, <2>4
<1>8a. ASSUME NEW a \in Nat, NEW b \in Nat, NEW d \in Nat,
              l.reserve + d >= a, a = b + Taken(ix)
       PROVE  exec'.ledger.reserve + (d + Rent) >= b
  <2>1. Taken(ix) \in Nat /\ l.reserve \in Nat /\ Rent \in Nat
    BY ReserveType, GivenType, ConstantsType
  <2> HIDE DEF l
  <2> QED  BY <1>8, <1>8a, <2>1
<1>9. ReserveSuffices'
  <2> PICK r \in [1 .. Len(tx) + 1 -> Nat] : Reserves(r) /\ DebtIsAll(r)
    BY <1>1 DEF ReserveSuffices
  <2>1. r[n] = r[n + 1] + Taken(ix) /\ r[n] \in Nat /\ r[n + 1] \in Nat
    BY <1>2, <1>3 DEF Reserves
  <2> DEFINE m == next - 1 - Len(tx) + n - 1
  <2>2. exec.ledger.reserve + Debt(m) >= r[n]
    BY <1>0 DEF DebtIsAll
  <2>3. m \in Nat /\ next - 1 - Len(tx) + (n + 1) - 1 = m + 1
    <3>1. next \in Nat /\ Len(tx) < next
      BY <1>1 DEF ChunkFits, TypeOK
    <3> QED  BY <1>2, <1>3, <3>1
  <2> HIDE DEF m
  <2>4. Debt(m) \in Nat /\ Debt(m + 1) = Debt(m) + Rent /\ Rent \in Nat
    BY <2>3, DebtStep, ConstantsType
  <2>6. exec'.ledger.reserve + Debt(m + 1) >= r[n + 1]
    BY <1>8a, <2>1, <2>2, <2>4
  <2>7. DebtIsAll(r)'
    <3>1. outcome # "confirmed"
      BY <1>0, <1>1 DEF OnlyMine, OnItsWay
    <3> QED  BY <1>0, <1>5, <2>3, <2>6, <3>1 DEF DebtIsAll
  <2>8. Reserves(r)'
    BY <1>0 DEF Reserves, Taken, Given
  <2> QED  BY <1>0, <2>7, <2>8 DEF ReserveSuffices
<1> QED  BY <1>6, <1>9

\* An empty chunk has no reserves but the one the plan goes on with.
LEMMA EmptyChunkSuffices ==
    ASSUME tx' = <<>>, next' \in Nat, reserveLamports' \in Nat, ~exec'.busy,
           ledger'.reserve + Debt(next' - 1) >= reserveLamports'
    PROVE  ReserveSuffices'
<1> PICK x \in Nat : x = reserveLamports'
  OBVIOUS
<1> DEFINE r == [k \in 1 .. 1 |-> x]
<1>1. r \in [1 .. Len(tx') + 1 -> Nat] /\ r[1] = x /\ Len(tx') = 0 /\ DOMAIN tx' = {}
  OBVIOUS
<1>2. next' - 1 - Len(tx') = next' - 1
  BY <1>1
<1> HIDE DEF r
<1>3. Reserves(r)'
  BY <1>1 DEF Reserves
<1>4. DebtIsAll(r)'
  BY <1>1, <1>2 DEF DebtIsAll
<1> QED  BY <1>1, <1>3, <1>4 DEF ReserveSuffices

\* A chunk that is not touched fits as before.
LEMMA KeepsFits ==
    ASSUME QuietInv, UNCHANGED <<scheme, next, tx, view>>,
           pc' \in Fetching => pc \in Fetching,
           pc' \in {"plan", "confirm"} => pc \in {"plan", "confirm"}
    PROVE  ChunkFits'
BY DEF QuietInv, ChunkFits, Fits, TransientStatus

\* A run that starts undisturbed finds the pool up to date.
LEMMA FetchPoolQuietInv ==
    ASSUME DebtIsCovered, TypeOK, RunInv, FetchPool PROVE QuietInv'
<1>1. /\ scheme' = RemainderLast(request.scheme) /\ tx' = <<>> /\ next' = 1 /\ outcome' = "none"
      /\ UNCHANGED <<exec, isStaker, poolEpoch, epoch, ledger>> /\ ~exec.busy
      /\ \/ pc' = "panicked"
         \/ pc' = "fetch_list" /\ isStaker /\ view' = [view EXCEPT !.epoch = epoch]
      /\ undisturbed' => poolEpoch = epoch /\ \A v \in Validators : ~IsStale(ledger.tsa[v])
  BY DEF FetchPool, Panic, chainVars
<1>2. request \in Requests /\ request.scheme \in Seq(SchemeItem)
  BY DEF RunInv, TypeOK, Request
<1>3. Len(scheme') = Len(request.scheme)
  BY <1>1, <1>2, RemainderLastPermutes
<1>4. Debt(Len(scheme')) <= 2 * MinDelegation
  BY <1>2, <1>3 DEF DebtIsCovered
<1>5. ChunkFits'
  <2>1. Len(tx') < next' /\ DOMAIN tx' = {}
    BY <1>1
  <2> QED  BY <1>1, <1>4, <2>1 DEF ChunkFits, Debt
<1>6. ASSUME undisturbed' PROVE StillAsRead'
  <2>1. CASE pc' = "panicked"
    BY <2>1 DEF StillAsRead, Running
  <2>2. CASE pc' = "fetch_list" /\ isStaker /\ view' = [view EXCEPT !.epoch = epoch]
    <3>1. view'.epoch = epoch
      BY <2>2 DEF TypeOK, ViewType
    <3> QED  BY <1>1, <1>6, <2>2, <3>1 DEF StillAsRead, IsStale
  <2> QED  BY <1>1, <2>1, <2>2
<1>7. SeedsUsed' /\ ReserveSuffices'
  BY <1>1 DEF SeedsUsed, ReserveSuffices
<1> QED  BY <1>1, <1>5, <1>6, <1>7 DEF QuietInv

\* The second call reads the reserve, and the statuses that the plan relies on.
LEMMA FetchListQuietInv ==
    ASSUME TypeOK, RunInv, QuietInv, FetchList PROVE QuietInv'
<1>1. /\ UNCHANGED <<scheme, tx, next, outcome, exec, isStaker, poolEpoch, epoch, status, ledger,
                     undisturbed>>
      /\ pc = "fetch_list" /\ pc' \in {"fetch_stakes", "panicked"}
      /\ view' = [view EXCEPT !.status = status] /\ reserveLamports' = ledger.reserve
  BY DEF FetchList, Panic, chainVars
<1>2. tx = <<>> /\ (Alone => ~exec.busy) /\ next = 1
  BY <1>1, FetchingIsQuiet DEF Fetching, QuietInv, ChunkFits
<1>3. view'.status = status /\ view'.epoch = view.epoch
  BY <1>1 DEF TypeOK, ViewType
<1>4. ChunkFits'
  BY <1>1, <1>2, <1>3 DEF QuietInv, ChunkFits, Fetching
<1>5. ASSUME undisturbed' PROVE StillAsRead'
  BY <1>1, <1>3, <1>5 DEF QuietInv, StillAsRead, Running, IsStale
<1>6. ASSUME undisturbed' PROVE SeedsUsed' /\ ReserveSuffices'
  <2>1. ~exec'.busy
    BY <1>1, <1>2, <1>6 DEF Alone
  <2>2. ledger'.reserve + Debt(next' - 1) >= reserveLamports' /\ reserveLamports' \in Nat
    <3>1. ledger.reserve \in Nat
      BY DEF TypeOK, Ledger
    <3>2. Debt(0) \in Nat
      BY DebtStep
    <3> QED  BY <1>1, <1>2, <3>1, <3>2
  <2>3. ReserveSuffices'
    BY <1>1, <1>2, <2>1, <2>2, EmptyChunkSuffices
  <2> QED  BY <2>1, <2>3 DEF SeedsUsed
<1> QED  BY <1>1, <1>4, <1>5, <1>6 DEF QuietInv

\* The third call reads the accounts, none of them left from an earlier epoch.
LEMMA FetchStakesQuietInv ==
    ASSUME TypeOK, RunInv, QuietInv, FetchStakes \/ Aim PROVE QuietInv'
<1>1. /\ UNCHANGED <<tx, next, outcome, exec, isStaker, poolEpoch, epoch, status, ledger,
                     undisturbed, reserveLamports>>
      /\ pc \in Fetching
  BY DEF FetchStakes, Aim, Fetching, chainVars
<1>2. tx = <<>> /\ (Alone => ~exec.busy) /\ next = 1
  BY <1>1, FetchingIsQuiet DEF QuietInv, ChunkFits
<1>3. \/ pc' = "panicked" /\ view' = view
      \/ /\ pc = "fetch_stakes" /\ pc' \in {"aim", "plan"}
         /\ view'.epoch = view.epoch /\ view'.status = view.status /\ view'.tsa = ledger.tsa
      \/ pc = "aim" /\ pc' = "plan" /\ view' = view
  <2>1. CASE FetchStakes
    <3>1. CASE \E i \in DOMAIN scheme : ~HasVsa(scheme[i].vote)
      BY <2>1, <3>1 DEF FetchStakes, Panic
    <3>2. CASE ~ \E i \in DOMAIN scheme : ~HasVsa(scheme[i].vote)
      <4>1. view' = [view EXCEPT !.stake = ledger.stake, !.tsa = ledger.tsa]
        BY <2>1, <3>2 DEF FetchStakes
      <4>2. view'.epoch = view.epoch /\ view'.status = view.status /\ view'.tsa = ledger.tsa
        BY <4>1 DEF TypeOK, ViewType
      <4> QED  BY <2>1, <3>2, <4>2 DEF FetchStakes
    <3> QED  BY <3>1, <3>2
  <2>2. CASE Aim
    BY <2>2 DEF Aim
  <2> QED  BY <2>1, <2>2
<1>4. Len(scheme') = Len(scheme) /\ Len(scheme) \in Nat
  <2>1. CASE FetchStakes
    BY <2>1 DEF FetchStakes, TypeOK
  <2>2. CASE Aim
    BY <2>2, AimScheme DEF TypeOK
  <2> QED  BY <2>1, <2>2
<1>5. ChunkFits'
  BY <1>1, <1>2, <1>3, <1>4 DEF QuietInv, ChunkFits, Debt
<1>6. ASSUME undisturbed' PROVE StillAsRead'
  BY <1>1, <1>3, <1>6 DEF QuietInv, StillAsRead, Running, IsStale
<1>7. ASSUME undisturbed' PROVE SeedsUsed' /\ ReserveSuffices'
  <2>1. ~exec'.busy
    BY <1>1, <1>2, <1>7 DEF Alone
  <2>2. CASE pc' = "panicked"
    BY <2>1, <2>2 DEF SeedsUsed, ReserveSuffices
  <2>3. CASE pc \in {"fetch_stakes", "aim"}
    <3>1. PICK r \in [1 .. Len(tx) + 1 -> Nat] : Reserves(r) /\ DebtIsAll(r)
      BY <1>1, <1>7, <2>3 DEF QuietInv, ReserveSuffices
    <3>2. ledger.reserve + Debt(next - 1 - Len(tx)) >= r[1] /\ r[Len(tx) + 1] = reserveLamports
      BY <2>3, <3>1 DEF DebtIsAll, Reserves
    <3>3. Len(tx) = 0
      BY <1>2
    <3>4. ledger.reserve + Debt(next - 1) >= reserveLamports
      BY <1>2, <3>2, <3>3
    <3>5. ledger'.reserve + Debt(next' - 1) >= reserveLamports' /\ reserveLamports' \in Nat
      BY <1>1, <3>4 DEF TypeOK
    <3>6. ReserveSuffices'
      BY <1>1, <1>2, <2>1, <3>5, EmptyChunkSuffices
    <3> QED  BY <2>1, <3>6 DEF SeedsUsed
  <2> QED  BY <1>3, <2>2, <2>3
<1> QED  BY <1>1, <1>5, <1>6, <1>7 DEF QuietInv

\* What an emitted instruction owes: it fits what was read, and the planner takes from the
\* running reserve what it gives away and what it keeps back for a new account.
LEMMA EmitKeepsQuietInv ==
    ASSUME TypeOK, RunInv, QuietInv, CanPlan, NEW ix \in Ix, NEW ty, NEW amt,
           tx' = Append(tx, ix), Advance(ty, amt), Fits(ix),
           reserveLamports' \in Nat, reserveLamports = reserveLamports' + Taken(ix),
           reserveLamports >= 2 * SaRent + Given(ix)
    PROVE  QuietInv'
<1>1. /\ tx \in Seq(Ix) /\ next \in Nat \ {0} /\ next' = next + 1 /\ pc = "plan" /\ pc' = "plan"
      /\ next <= Len(scheme) /\ Len(scheme) \in Nat /\ Len(tx) \in Nat
      /\ UNCHANGED <<scheme, view, outcome, undisturbed>>
      /\ UNCHANGED <<epoch, poolEpoch, isStaker, status, ledger, exec>>
  BY CountersType DEF CanPlan, Advance, chainVars
<1>2. /\ DOMAIN tx' = 1 .. Len(tx) + 1 /\ DOMAIN tx = 1 .. Len(tx) /\ Len(tx') = Len(tx) + 1
      /\ tx'[Len(tx) + 1] = ix
      /\ \A k \in 1 .. Len(tx) : tx'[k] = tx[k]
  BY <1>1
<1>3. ChunkFits'
  <2>1. ASSUME NEW k \in DOMAIN tx' PROVE Fits(tx'[k])
    <3>1. CASE k = Len(tx) + 1
      BY <1>2, <3>1
    <3>2. CASE k \in DOMAIN tx
      BY <1>2, <3>2 DEF QuietInv, ChunkFits
    <3> QED  BY <1>1, <1>2, <2>1, <3>1, <3>2
  <2>2. \A k \in DOMAIN tx' : Fits(tx[k])'
    BY <1>1, <2>1 DEF Fits, TransientStatus
  <2> QED  BY <1>1, <1>2, <2>2 DEF QuietInv, ChunkFits, Fetching
<1>4. ASSUME undisturbed' PROVE StillAsRead' /\ SeedsUsed' /\ ReserveSuffices' /\ outcome' # "aborted"
  <2>1. StillAsRead'
    BY <1>1, <1>4 DEF QuietInv, StillAsRead, IsStale
  <2>2. ~exec'.busy
    BY <1>1, <1>4 DEF RunInv, Alone, OnlyMine, OnItsWay
  <2>3. PICK r \in [1 .. Len(tx) + 1 -> Nat] : Reserves(r) /\ DebtIsAll(r)
    BY <1>1, <1>4 DEF QuietInv, ReserveSuffices
  <2> PICK x \in Nat : x = reserveLamports'
    OBVIOUS
  <2> PICK n \in Nat : n = Len(tx)
    BY <1>1
  <2> DEFINE q == [k \in 1 .. n + 2 |-> IF k <= n + 1 THEN r[k] ELSE x]
  <2>4. /\ q \in [1 .. Len(tx') + 1 -> Nat] /\ q[Len(tx') + 1] = x
        /\ \A k \in 1 .. n + 1 : q[k] = r[k]
    BY <1>1, <1>2
  <2> HIDE DEF q
  <2>5. ASSUME NEW k \in DOMAIN tx'
        PROVE  q[k] = q[k + 1] + Taken(tx'[k]) /\ q[k] >= 2 * SaRent + Given(tx'[k])
    <3>1. CASE k = n + 1
      <4>1. q[k] = r[n + 1] /\ r[n + 1] = reserveLamports /\ q[k + 1] = x /\ tx'[k] = ix
        BY <1>2, <2>3, <2>4, <3>1 DEF Reserves
      <4> QED  BY <4>1
    <3>2. CASE k \in 1 .. n
      <4>1. q[k] = r[k] /\ q[k + 1] = r[k + 1] /\ tx'[k] = tx[k] /\ k \in DOMAIN tx
        BY <1>2, <2>4, <3>2
      <4> QED  BY <2>3, <4>1 DEF Reserves
    <3> QED  BY <1>2, <2>5, <3>1, <3>2
  <2>6. Reserves(q)'
    <3>1. \A k \in DOMAIN tx' : Taken(tx[k])' = Taken(tx'[k]) /\ Given(tx[k])' = Given(tx'[k])
      BY <1>1 DEF Taken, Given
    <3> QED  BY <2>4, <2>5, <3>1 DEF Reserves
  <2>7. DebtIsAll(q)'
    <3>1. next' - 1 - Len(tx') = next - 1 - Len(tx)
      BY <1>1, <1>2
    <3>2. ledger.reserve + Debt(next - 1 - Len(tx)) >= r[1]
      BY <1>1, <2>3 DEF DebtIsAll
    <3>3. q[1] = r[1]
      BY <2>4
    <3> QED  BY <1>1, <3>1, <3>2, <3>3 DEF DebtIsAll
  <2> QED  BY <1>1, <1>4, <2>1, <2>2, <2>4, <2>6, <2>7 DEF QuietInv, SeedsUsed, ReserveSuffices
<1> QED  BY <1>1, <1>3, <1>4 DEF QuietInv

\* A planned decrease fits what was read; only a new transient account costs the plan rent.
LEMMA PlanDecreaseQuietInv ==
    ASSUME TypeOK, RunInv, QuietInv, PlanDecrease PROVE QuietInv'
<1> DEFINE ix == [kind |-> "Decrease", vote |-> Item.vote, amt |-> DecreaseAmt(Item),
                  seed |-> next - 1]
<1>1. /\ CanPlan /\ MayDecrease /\ view.status[Item.vote] = "Active"
      /\ DecreaseAmt(Item) >= MinTsaBalance /\ reserveLamports >= 2 * SaRent
      /\ reserveLamports' = reserveLamports - TsaRent
      /\ Emit("Decrease", DecreaseAmt(Item)) /\ Advance("DecreaseStake", DecreaseAmt(Item))
  BY DEF PlanDecrease, MayDecrease, WantsLess, PlanActive
<1>2. DecreaseAmt(Item) \in Nat /\ Item.vote \in Validators /\ next - 1 \in Nat
  BY <1>1, ItemType, DecreaseType DEF TypeOK
<1>3. ix \in Ix /\ tx' = Append(tx, ix)
  BY <1>1, <1>2 DEF Ix, Emit
<1>4. ix.kind = "Decrease" /\ ix.vote = Item.vote /\ ix.amt = DecreaseAmt(Item)
  OBVIOUS
<1> HIDE DEF ix
<1>5. DecreaseAmt(Item) + MinActive <= view.stake[Item.vote]
  <2> DEFINE n == NextEpochStake(Item.vote)
             d == Desired(Item)
  <2>1. n \in Nat /\ d \in Nat /\ view.stake[Item.vote] \in Nat /\ view.tsa[Item.vote].stake \in Nat
    BY <1>1, <1>2, ItemType, NextEpochStakeType, DesiredType, LedgerType DEF TypeOK
  <2>2. n > d /\ TransientStatus(Item.vote) \in {"Deactivating", "None"}
    BY <1>1 DEF MayDecrease, WantsLess
  <2>3. n <= view.stake[Item.vote]
    BY <2>1, <2>2 DEF NextEpochStake, SatSub
  <2>4. DecreaseAmt(Item) = SatSub(n - d, MinActive)
    BY DEF DecreaseAmt
  <2> HIDE DEF n, d
  <2>5. DecreaseAmt(Item) = n - d - MinActive
    BY <1>1, <2>1, <2>2, <2>4, ConstantsType DEF SatSub
  <2> QED  BY <2>1, <2>3, <2>5, ConstantsType
<1>6. Fits(ix)
  <2>1. SaRent <= DecreaseAmt(Item)
    <3>1. MinTsaBalance = MinActive + SaRent
      BY DEF MinTsaBalance
    <3> QED  BY <1>1, <1>2, <3>1, ConstantsType
  <2> QED  BY <1>1, <1>4, <1>5, <2>1 DEF Fits, MayDecrease
<1>7. Taken(ix) = TsaRent /\ TsaRent \in {0, SaRent} /\ Given(ix) = 0
  <2>1. Given(ix) = 0 /\ Taken(ix) = 0 + (IF view.tsa[Item.vote] = NoTsa THEN SaRent ELSE 0)
    BY <1>4 DEF Taken, Given
  <2>2. TsaRent = IF view.tsa[Item.vote] = NoTsa THEN SaRent ELSE 0
    BY DEF TsaRent, TransientStatus
  <2> QED  BY <2>1, <2>2, ConstantsType
<1>8. /\ reserveLamports' \in Nat /\ reserveLamports = reserveLamports' + Taken(ix)
      /\ reserveLamports >= 2 * SaRent + Given(ix)
  <2>1. reserveLamports \in Nat /\ SaRent \in Nat
    BY ReserveType, ConstantsType
  <2>2. ASSUME NEW t \in {0, SaRent}, NEW r \in Nat, 2 * SaRent <= r
        PROVE  r - t \in Nat /\ r = (r - t) + t /\ r >= 2 * SaRent + 0
    BY <2>1, <2>2
  <2> HIDE DEF TsaRent
  <2> QED  BY <1>1, <1>7, <2>1, <2>2
<1> QED  BY <1>1, <1>3, <1>6, <1>8, EmitKeepsQuietInv

\* A planned increase fits what was read and what the running reserve can give.
LEMMA PlanIncreaseQuietInv ==
    ASSUME TypeOK, RunInv, QuietInv, PlanIncrease PROVE QuietInv'
<1> DEFINE ix == [kind |-> "Increase", vote |-> Item.vote, amt |-> IncreaseAmt(Item),
                  seed |-> next - 1]
<1>1. /\ CanPlan /\ MayIncrease /\ view.status[Item.vote] = "Active" /\ IncreaseAmt(Item) > 0
      /\ reserveLamports' = reserveLamports - IncreaseAmt(Item) - TsaRent
      /\ Emit("Increase", IncreaseAmt(Item))
      /\ NextEpochStake(Item.vote) < Desired(Item)
  BY DEF PlanIncrease, MayIncrease, WantsMore, PlanActive
<1>2. /\ Item.vote \in Validators /\ next - 1 \in Nat
      /\ IncreaseAmt(Item) \in Nat /\ IncreaseAmt(Item) + 2 * SaRent <= reserveLamports
  BY <1>1, ItemType, IncreaseFits DEF TypeOK
<1>3. ix \in Ix /\ tx' = Append(tx, ix)
  BY <1>1, <1>2 DEF Ix, Emit
<1>4. ix.kind = "Increase" /\ ix.vote = Item.vote /\ ix.amt = IncreaseAmt(Item)
  OBVIOUS
<1> HIDE DEF ix
<1>5. Fits(ix)
  BY <1>1, <1>4 DEF Fits, MayIncrease
<1>6. Taken(ix) = IncreaseAmt(Item) + TsaRent /\ TsaRent \in {0, SaRent} /\ Given(ix) = IncreaseAmt(Item)
  BY <1>4 DEF Taken, Given, TsaRent, TransientStatus
<1>7. /\ reserveLamports' \in Nat /\ reserveLamports = reserveLamports' + Taken(ix)
      /\ reserveLamports >= 2 * SaRent + Given(ix)
  <2>1. reserveLamports \in Nat /\ SaRent \in Nat
    BY ConstantsType DEF TypeOK
  <2>2. ASSUME NEW i \in Nat, NEW t \in {0, SaRent}, NEW r \in Nat, i + 2 * SaRent <= r
        PROVE  r - i - t \in Nat /\ r = (r - i - t) + (i + t) /\ r >= 2 * SaRent + i
    BY <2>1, <2>2
  <2>3. reserveLamports' = reserveLamports - IncreaseAmt(Item) - TsaRent
    BY <1>1
  <2> HIDE DEF IncreaseAmt, TsaRent
  <2> QED  BY <1>2, <1>6, <2>1, <2>2, <2>3
<1>8. PICK ty : Advance(ty, IncreaseAmt(Item))
  BY DEF PlanIncrease
<1> QED  BY <1>1, <1>3, <1>5, <1>7, <1>8, EmitKeepsQuietInv

\* Every kind of change keeps the plan within what the chain accepts.
LEMMA PlanNextQuietInv ==
    ASSUME TypeOK, RunInv, QuietInv, PlanNext PROVE QuietInv'
<1>1. CASE PlanDecrease
  BY <1>1, PlanDecreaseQuietInv
<1>2. CASE PlanIncrease
  BY <1>2, PlanIncreaseQuietInv
<1>3. CASE PlanBeingRemoved \/ PlanTransientWrongState \/ PlanInsufficientReserve \/ PlanNoChange
  <2>1. CanPlan /\ UNCHANGED <<tx, reserveLamports>> /\ \E ty, amt : Advance(ty, amt)
    BY <1>3 DEF PlanBeingRemoved, PlanTransientWrongState, PlanInsufficientReserve, PlanNoChange,
                MayDecrease, MayIncrease, WantsLess, WantsMore, PlanActive
  <2>2. /\ next' = next + 1 /\ next \in Nat /\ next <= Len(scheme) /\ pc = "plan"
        /\ Len(scheme) \in Nat /\ Len(tx) \in Nat
        /\ UNCHANGED <<epoch, poolEpoch, isStaker, status, ledger, exec, scheme, view, tx, pc,
                       outcome, reserveLamports, undisturbed>>
    BY <2>1 DEF Advance, CanPlan, chainVars, TypeOK
  <2>3. ChunkFits'
    BY <2>2 DEF QuietInv, ChunkFits, Fits, TransientStatus, Fetching
  <2>4. ASSUME undisturbed'
        PROVE  StillAsRead' /\ SeedsUsed' /\ ReserveSuffices' /\ outcome' # "aborted"
    <3>1. StillAsRead' /\ outcome' # "aborted"
      BY <2>2, <2>4 DEF QuietInv, StillAsRead, IsStale
    <3>2. ~exec'.busy
      BY <2>2, <2>4 DEF RunInv, Alone, OnlyMine, OnItsWay
    <3>3. PICK r \in [1 .. Len(tx) + 1 -> Nat] : Reserves(r) /\ DebtIsAll(r)
      BY <2>2, <2>4 DEF QuietInv, ReserveSuffices
    <3>4. ledger.reserve + Debt(next - 1 - Len(tx)) >= r[1]
      BY <2>2, <3>3 DEF DebtIsAll
    <3>5. ledger.reserve + Debt(next' - 1 - Len(tx)) >= r[1]
      <4>1. Len(tx) < next
        BY DEF QuietInv, ChunkFits
      <4>0. next - 1 - Len(tx) \in Nat
        <5> PICK n \in Nat : n = next
          BY <2>2
        <5> PICK k \in Nat : k = Len(tx)
          BY <2>2
        <5> QED  BY <4>1
      <4> PICK m \in Nat : m = next - 1 - Len(tx)
        BY <4>0
      <4> PICK a \in Nat : a = r[1]
        BY <2>2
      <4>2. next' - 1 - Len(tx) = m + 1
        BY <2>2
      <4>3. Debt(m) \in Nat /\ Debt(m + 1) = Debt(m) + Rent /\ Rent \in Nat
        BY DebtStep, ConstantsType
      <4>4. ledger.reserve \in Nat
        BY DEF TypeOK, Ledger
      <4>5. ledger.reserve + Debt(m + 1) >= a
        BY <3>4, <4>3, <4>4
      <4> QED  BY <4>2, <4>5
    <3>6. Reserves(r)'
      BY <2>2, <3>3 DEF Reserves, Taken, Given
    <3>7. DebtIsAll(r)'
      BY <2>2, <3>5 DEF DebtIsAll
    <3> QED  BY <2>2, <3>1, <3>2, <3>6, <3>7 DEF SeedsUsed, ReserveSuffices
  <2> QED  BY <2>2, <2>3, <2>4 DEF QuietInv
<1> QED  BY <1>1, <1>2, <1>3 DEF PlanNext

\* Sending a chunk, and going on after it was confirmed, lose nothing of the reserve.
LEMMA CommandQuietInv ==
    ASSUME TypeOK, RunInv, QuietInv, SendTx \/ Confirmed \/ Rejected \/ Finish \/ Crash
    PROVE  QuietInv'
<1>1. /\ UNCHANGED <<epoch, poolEpoch, isStaker, status, ledger, exec>>
      /\ UNCHANGED <<scheme, next, view, reserveLamports, undisturbed>>
      /\ next \in Nat
  BY DEF SendTx, Confirmed, Rejected, Finish, Crash, chainVars, TypeOK
<1>2. CASE SendTx
  <2>1. /\ UNCHANGED tx /\ pc = "plan" /\ pc' = "confirm" /\ outcome' = "pending"
    BY <1>2 DEF SendTx
  <2>2. ChunkFits'
    BY <1>1, <2>1, KeepsFits DEF Fetching
  <2>3. ASSUME undisturbed' PROVE StillAsRead' /\ SeedsUsed' /\ ReserveSuffices'
    <3>1. StillAsRead'
      BY <1>1, <2>1, <2>3 DEF QuietInv, StillAsRead, IsStale, Running
    <3>2. ~exec'.busy
      BY <1>1, <2>1, <2>3 DEF RunInv, Alone, OnlyMine, OnItsWay
    <3>3. PICK r \in [1 .. Len(tx) + 1 -> Nat] : Reserves(r) /\ DebtIsAll(r)
      BY <1>1, <2>1, <2>3 DEF QuietInv, ReserveSuffices
    <3>4. Reserves(r)' /\ DebtIsAll(r)'
      BY <1>1, <2>1, <3>2, <3>3 DEF Reserves, Taken, Given, DebtIsAll
    <3> QED  BY <2>1, <3>1, <3>2, <3>3, <3>4 DEF SeedsUsed, ReserveSuffices
  <2> QED  BY <2>1, <2>2, <2>3 DEF QuietInv
<1>3. CASE Confirmed
  <2>1. tx' = <<>> /\ pc = "confirm" /\ pc' = "plan" /\ outcome = "confirmed" /\ outcome' = outcome
    BY <1>3 DEF Confirmed
  <2>2. ChunkFits'
    <3>1. Len(tx) \in Nat /\ Len(tx') = 0 /\ DOMAIN tx' = {}
      BY <2>1 DEF TypeOK
    <3> QED  BY <1>1, <2>1, <3>1 DEF QuietInv, ChunkFits, Fetching
  <2>3. ASSUME undisturbed' PROVE StillAsRead' /\ SeedsUsed' /\ ReserveSuffices'
    <3>1. StillAsRead'
      BY <1>1, <2>1, <2>3 DEF QuietInv, StillAsRead, IsStale, Running
    <3>2. ~exec'.busy
      BY <1>1, <2>1, <2>3 DEF RunInv, Alone, OnlyMine, OnItsWay
    <3>3. PICK r \in [1 .. Len(tx) + 1 -> Nat] : Reserves(r) /\ DebtIsAll(r)
      BY <1>1, <2>1, <2>3 DEF QuietInv, ReserveSuffices
    <3>4. ledger.reserve + Debt(next - 1) >= reserveLamports
      BY <2>1, <3>3 DEF Reserves, DebtIsAll
    <3>5. ReserveSuffices'
      BY <1>1, <2>1, <3>2, <3>4, EmptyChunkSuffices DEF TypeOK
    <3> QED  BY <3>1, <3>2, <3>5 DEF SeedsUsed
  <2> QED  BY <2>1, <2>2, <2>3 DEF QuietInv
<1>4. CASE Rejected \/ Finish \/ Crash
  <2>1. UNCHANGED <<tx, outcome>> /\ pc' \in {"panicked", "done", "crashed"}
    BY <1>4 DEF Rejected, Finish, Crash, Panic
  <2>2. ChunkFits'
    BY <1>1, <2>1, KeepsFits DEF Fetching
  <2>3. ASSUME undisturbed' PROVE SeedsUsed'
    BY <1>1, <2>1, <2>3 DEF QuietInv, SeedsUsed, Executed
  <2> QED  BY <1>1, <2>1, <2>2, <2>3 DEF QuietInv, StillAsRead, Running, ReserveSuffices
<1> QED  BY <1>2, <1>3, <1>4

\* Whatever the runtime does with the transaction of an undisturbed run, it does not refuse it.
LEMMA RuntimeQuietInv ==
    ASSUME TypeOK, SeedInv, RunInv, QuietInv, Runtime PROVE QuietInv'
<1>1. /\ UNCHANGED <<epoch, poolEpoch, isStaker, status, scheme, next, view, tx, pc, run,
                     reserveLamports>>
      /\ undisturbed' => undisturbed
  <2>1. ASSUME NEW t \in inflight, BeginTx(t) \/ ExpireTx(t)
        PROVE  UNCHANGED <<epoch, poolEpoch, isStaker, status, scheme, next, view, tx, pc, run,
                           reserveLamports, undisturbed>>
    BY <2>1 DEF BeginTx, ExpireTx, commandVars
  <2>2. ASSUME ExecIx \/ AbortTx
        PROVE  UNCHANGED <<epoch, poolEpoch, isStaker, status, scheme, next, view, tx, pc, run,
                           reserveLamports, undisturbed>>
    BY <2>2 DEF ExecIx, AbortTx, commandVars
  <2>3. ASSUME CommitTx
        PROVE  /\ UNCHANGED <<epoch, poolEpoch, isStaker, status, scheme, next, view, tx, pc, run,
                              reserveLamports>>
               /\ undisturbed' => undisturbed
    BY <2>3 DEF CommitTx
  <2> QED  BY <2>1, <2>2, <2>3 DEF Runtime
<1>2. ChunkFits'
  BY <1>1, KeepsFits
<1>3. ASSUME undisturbed'
      PROVE  StillAsRead' /\ SeedsUsed' /\ ReserveSuffices' /\ outcome' # "aborted"
  <2>1. /\ undisturbed /\ OnlyMine /\ StillAsRead /\ SeedsUsed /\ ReserveSuffices
        /\ outcome # "aborted"
    BY <1>1, <1>3 DEF RunInv, QuietInv, Alone
  <2>2. OnItsWay
    BY DEF Runtime, OnItsWay, ExecIx, AbortTx, CommitTx
  <2>3. (pc = "confirm" /\ outcome = "pending") \/ pc = "crashed"
    BY <2>1, <2>2 DEF OnlyMine
  <2>4. StillAsRead'
    BY <1>1, <2>1, <2>3 DEF StillAsRead, IsStale, Running
  <2>5. CASE pc = "crashed"
    <3>1. ASSUME NEW t \in inflight, BeginTx(t) \/ ExpireTx(t) PROVE outcome' = outcome
      BY <2>5, <3>1 DEF BeginTx, ExpireTx, Report, commandVars
    <3>2. ASSUME ExecIx \/ AbortTx \/ CommitTx PROVE outcome' = outcome
      BY <2>5, <3>2 DEF ExecIx, AbortTx, CommitTx, Report, commandVars
    <3>3. outcome' = outcome
      BY <3>1, <3>2 DEF Runtime
    <3> QED  BY <1>1, <2>1, <2>4, <2>5, <3>3 DEF SeedsUsed, ReserveSuffices
  <2>6. CASE pc = "confirm"
    <3> PICK r \in [1 .. Len(tx) + 1 -> Nat] : Reserves(r) /\ DebtIsAll(r)
      BY <2>1, <2>6 DEF ReserveSuffices
    <3>1. outcome = "pending" /\ next \in Nat /\ Len(tx) \in Nat
      BY <2>3, <2>6 DEF TypeOK
    <3>2. Reserves(r)'
      BY <1>1 DEF Reserves, Taken, Given
    <3>3. ASSUME NEW t \in inflight, BeginTx(t)
          PROVE  SeedsUsed' /\ ReserveSuffices' /\ outcome' # "aborted"
      <4>1. /\ ~exec.busy /\ exec'.busy /\ exec'.pos = 1 /\ exec'.ledger = ledger /\ exec'.seeds = {}
            /\ outcome' = outcome /\ ledger' = ledger
        BY <3>3 DEF BeginTx, commandVars
      <4>2. ledger.reserve + Debt(next - 1 - Len(tx)) >= r[1]
        BY <2>6, <3>1, <4>1 DEF DebtIsAll
      <4>3. next - 1 - Len(tx) + 1 - 1 = next - 1 - Len(tx)
        BY <3>1
      <4>4. DebtIsAll(r)'
        BY <1>1, <2>6, <3>1, <4>1, <4>2, <4>3 DEF DebtIsAll
      <4>5. SeedsUsed'
        BY <1>1, <3>1, <4>1 DEF SeedsUsed
      <4> QED  BY <1>1, <3>1, <3>2, <4>1, <4>4, <4>5 DEF ReserveSuffices
    <3>4. ASSUME NEW t \in inflight, ExpireTx(t)
          PROVE  SeedsUsed' /\ ReserveSuffices' /\ outcome' # "aborted"
      <4>1. ~exec.busy /\ UNCHANGED exec /\ t = Mine
        BY <2>1, <3>4 DEF ExpireTx, OnlyMine
      <4>2. outcome' = "expired"
        BY <2>6, <3>4, <4>1 DEF ExpireTx, Report, Mine
      <4>3. DebtIsAll(r)'
        BY <1>1, <2>6, <4>1, <4>2 DEF DebtIsAll
      <4> QED  BY <1>1, <3>2, <4>1, <4>2, <4>3 DEF SeedsUsed, ReserveSuffices
    <3>5. CASE ExecIx
      <4>1. outcome' = outcome
        BY <3>5 DEF ExecIx, commandVars
      <4>2. SeedsUsed' /\ ReserveSuffices'
        BY <2>1, <2>6, <3>5, ExecKeepsDebt
      <4> QED  BY <2>4, <3>1, <4>1, <4>2
    <3>6. CASE AbortTx
      BY <2>1, <2>6, <3>6, UndisturbedIsAccepted DEF AbortTx
    <3>7. CASE CommitTx
      <4>1. /\ exec.busy /\ ledger' = exec.ledger /\ exec' = Idle /\ exec.tx = Mine
            /\ exec.pos > Len(exec.tx.ixs)
        BY <2>1, <3>7 DEF CommitTx, OnlyMine
      <4>2. outcome' = "confirmed" /\ ~exec'.busy
        BY <2>6, <3>7, <4>1 DEF CommitTx, Report, Mine, Idle
      <4>3. exec.pos = Len(tx) + 1
        <5>1. exec.pos \in Nat /\ exec.pos > Len(tx) /\ exec.pos <= Len(tx) + 1
          BY <2>1, <2>6, <4>1 DEF SeedsUsed, Mine, TypeOK
        <5> QED  BY <3>1, <5>1
      <4>4. exec.ledger.reserve + Debt(next - 1 - Len(tx) + exec.pos - 1) >= r[exec.pos]
        BY <2>6, <4>1 DEF DebtIsAll
      <4>5. next - 1 - Len(tx) + (Len(tx) + 1) - 1 = next - 1
        BY <3>1
      <4>6. ledger'.reserve + Debt(next - 1) >= r[Len(tx) + 1]
        BY <4>1, <4>3, <4>4, <4>5
      <4>7. DebtIsAll(r)'
        <5>1. ledger'.reserve + Debt(next' - 1) >= r[Len(tx') + 1]
          BY <1>1, <4>6
        <5>2. pc' = "confirm" /\ outcome' # "pending" /\ ~exec'.busy
          BY <1>1, <2>6, <4>2
        <5> QED  BY <5>1, <5>2 DEF DebtIsAll
      <4> QED  BY <1>1, <2>4, <3>2, <4>2, <4>7 DEF SeedsUsed, ReserveSuffices
    <3> QED  BY <2>4, <3>3, <3>4, <3>5, <3>6, <3>7 DEF Runtime
  <2> QED  BY <2>3, <2>5, <2>6
<1> QED  BY <1>2, <1>3 DEF QuietInv

\* Every step of the system keeps the invariant of undisturbed runs.
LEMMA NextQuietInv ==
    ASSUME DebtIsCovered
    PROVE  TypeOK /\ SeedInv /\ RunInv /\ QuietInv /\ [Next]_vars => QuietInv'
<1> SUFFICES ASSUME TypeOK, SeedInv, RunInv, QuietInv, [Next]_vars PROVE QuietInv'
  OBVIOUS
<1>1. CASE FetchPool
  BY <1>1, FetchPoolQuietInv
<1>2. CASE FetchList
  BY <1>2, FetchListQuietInv
<1>3. CASE FetchStakes \/ Aim
  BY <1>3, FetchStakesQuietInv
<1>4. CASE PlanNext
  BY <1>4, PlanNextQuietInv
<1>5. CASE SendTx \/ Confirmed \/ Rejected \/ Finish \/ Crash
  BY <1>5, CommandQuietInv
<1>6. CASE Runtime
  BY <1>6, RuntimeQuietInv
<1>7. CASE World
  <2>1. UNCHANGED <<scheme, next, view, tx, pc>> /\ ~undisturbed'
    BY <1>7 DEF World, AdvanceEpoch, FinishUpdate, MergeTransient, DepositSol, WithdrawSol,
         WithdrawStake, AddStake, RemoveValidator, ReplaceStaker, Interfere, NotTheCommand, commandVars
  <2> QED  BY <2>1, KeepsFits DEF QuietInv
<1>8. CASE UNCHANGED vars
  <2>1. UNCHANGED <<epoch, poolEpoch, isStaker, status, ledger, exec, scheme, next, view, tx, pc,
                    reserveLamports, outcome, undisturbed>>
    BY <1>8 DEF vars, chainVars, commandVars
  <2>2. ChunkFits'
    BY <2>1, KeepsFits
  <2>3. StillAsRead => StillAsRead'
    BY <2>1 DEF StillAsRead, IsStale
  <2>4. SeedsUsed => SeedsUsed'
    BY <2>1 DEF SeedsUsed, Executed
  <2>5. ReserveSuffices => ReserveSuffices'
    BY <2>1 DEF ReserveSuffices, Reserves, DebtIsAll, Taken, Given
  <2> QED  BY <2>1, <2>2, <2>3, <2>4, <2>5 DEF QuietInv
<1> QED  BY <1>1, <1>2, <1>3, <1>4, <1>5, <1>6, <1>7, <1>8 DEF Next, Command

\* Before the first run there is nothing that could be refused.
LEMMA InitQuietInv == Init => QuietInv
<1> SUFFICES ASSUME Init PROVE QuietInv
  OBVIOUS
<1>1. /\ scheme = <<>> /\ tx = <<>> /\ next = 1 /\ pc = "idle" /\ ~undisturbed
  BY DEF Init
<1>2. Len(scheme) = 0 /\ Len(tx) = 0 /\ Debt(0) = 0 /\ MinDelegation \in Nat
  BY <1>1, LamportsAssumption DEF Debt
<1> QED  BY <1>1, <1>2 DEF QuietInv, ChunkFits

\* While nobody else touches the pool the chain refuses no transaction of a run: what the
\* planner keeps back pays for the rent it does not plan for, instruction after instruction
\* and chunk after chunk (sync_delegation.rs, DelegationChangeset::next).
THEOREM AbortCorrect ==
    ASSUME DistinctRequests, DebtIsCovered
    PROVE  Spec => []UndisturbedRunNeverAborts
<1>1. Init => SeedInv
  BY DEF Init, Idle, SeedInv, SeedsIncrease
<1>2. TypeOK /\ SeedInv /\ RunInv /\ QuietInv /\ [Next]_vars => SeedInv' /\ RunInv' /\ QuietInv'
  BY NextSeedInv, NextRunInv, NextQuietInv
<1>3. QuietInv => UndisturbedRunNeverAborts
  BY DEF QuietInv, UndisturbedRunNeverAborts
<1> QED  BY <1>1, <1>2, <1>3, InitRunInv, InitQuietInv, TypeCorrect, PTL DEF Spec


-----------------------------------------------------------------------------
(* What a run that ends has achieved.  Every entry of the plan says how    *)
(* what the validator has, as it was read, relates to its target; and once *)
(* an entry is served, the chain has brought the validator there.  u64     *)
(* additions that saturate would break the first half, so the second       *)
(* account the proof keeps is of the lamports of the whole pool.           *)

\* Stake the program has on its way in has no deactivation epoch, as in every account it
\* creates or finds.
Formed(t)        == t.activation # 0 => t.deactivation = Never
TransientsFormed == \A l \in InitialLedgers : \A v \in Validators : Formed(l.tsa[v])

\* S gives for every set of validators what they have together.
IsSum(S, l) ==
    /\ S \in [SUBSET Validators -> Nat] /\ S[{}] = 0
    /\ \A A \in SUBSET Validators : \A v \in Validators \ A :
          S[A \cup {v}] = S[A] + Total(l, v)

\* All validators and the reserve have no more than n lamports.
Holds(l, n) == \E S : IsSum(S, l) /\ S[Validators] + l.reserve <= n

\* What users may still deposit once i of the others' steps are taken.
Deposits(i) == (MaxInterference - i) * UserAmount

\* The pool and what is deposited meanwhile fit u64, as all lamports there are do.
SupplyFits == \A l \in InitialLedgers : Holds(l, U64Max - Deposits(0))

LedgersSound ==
    /\ Holds(ledger, U64Max - Deposits(interference))
    /\ exec.busy => Holds(exec.ledger, U64Max - Deposits(interference))
    /\ \A v \in Validators : Formed(ledger.tsa[v]) /\ Formed(exec.ledger.tsa[v])

ViewSound ==
    /\ pc \in Running => view.epoch # 0
    /\ \A v \in Validators : Formed(view.tsa[v]) /\ Total(view, v) <= U64Max

\* An entry of the plan and the validator as it was read.
PlanSays(i) ==
    LET v == scheme[i].vote
        d == Desired(scheme[i])
    IN  /\ plan[i].ty = "IncreaseStake" => Total(view, v) + plan[i].amt = d
        /\ plan[i].ty = "DecreaseStake" /\ TransientStatus(v) # "Deactivating"
              => view.stake[v] = d + MinActive + plan[i].amt

PlanFollowsView == \A i \in DOMAIN plan : i \in DOMAIN scheme /\ PlanSays(i)

\* The instructions of the chunk are those of the plan.
IsPlanned(ix, changes) ==
    /\ Place(ix) \in DOMAIN changes
    /\ changes[Place(ix)].amt = ix.amt
    /\ ix.kind = "Increase" <=>
          changes[Place(ix)].ty \in {"IncreaseStake", "PartialIncreaseStake"}
    /\ ix.kind = "Decrease" <=> changes[Place(ix)].ty = "DecreaseStake"

ChunkIsPlanned == \A k \in DOMAIN tx : IsPlanned(tx[k], plan)

\* The validator of an entry has its target, or exceeds it by less than what is too little
\* to split off.
Served(i) ==
    LET v == scheme[i].vote
        d == Desired(scheme[i])
    IN  plan[i].ty \in {"DecreaseStake", "IncreaseStake", "NoChange"}
        /\ TransientStatus(v) # "Deactivating"
        => /\ Effective(ledger, v) >= d
           /\ Effective(ledger, v) < d + MinActive + MinTsaBalance

OnTrack ==
    \/ pc \in {"plan", "done"}
    \/ pc = "confirm" /\ outcome \in {"pending", "confirmed"}

PlanIsServed ==
    undisturbed /\ OnTrack => \A i \in DOMAIN plan : Pending(i) \/ Served(i)

SettledInv == /\ LedgersSound /\ ViewSound /\ PlanFollowsView /\ ChunkIsPlanned
              /\ PlanIsServed

-----------------------------------------------------------------------------
(* The lamports of the pool.                                               *)

\* What a validator has in a ledger is a number.
LEMMA TotalType ==
    ASSUME NEW l \in Ledger, NEW v \in Validators
    PROVE  /\ l.stake[v] \in Nat /\ l.tsa[v] \in Tsa /\ l.tsa[v].stake \in Nat
           /\ Total(l, v) \in Nat /\ l.reserve \in Nat
<1>1. l.stake[v] \in Nat /\ l.tsa[v] \in Tsa /\ l.reserve \in Nat
  BY DEF Ledger
<1>2. l.tsa[v].stake \in Nat
  BY <1>1 DEF Tsa
<1> QED  BY <1>1, <1>2 DEF Total

\* One validator has no more than all of them.
LEMMA HoldsEach ==
    ASSUME NEW l \in Ledger, NEW n \in Int, Holds(l, n), NEW v \in Validators
    PROVE  Total(l, v) + l.reserve <= n
<1>1. PICK S : IsSum(S, l) /\ S[Validators] + l.reserve <= n
  BY DEF Holds
<1> DEFINE A == Validators \ {v}
<1>2. A \in SUBSET Validators /\ v \in Validators \ A /\ A \cup {v} = Validators
  OBVIOUS
<1>3. S[A] \in Nat /\ S[Validators] \in Nat
  BY <1>1, <1>2 DEF IsSum
<1>4. S[A \cup {v}] = S[A] + Total(l, v)
  BY <1>1, <1>2 DEF IsSum
<1>5. S[Validators] = S[A] + Total(l, v)
  BY <1>2, <1>4
<1> HIDE DEF A
<1> QED  BY <1>1, <1>3, <1>5, TotalType

\* What a pool holds it also holds if nothing is moved, less is in the reserve, or more may be.
LEMMA HoldsReserve ==
    ASSUME NEW l \in Ledger, NEW m \in Ledger, NEW n \in Int, NEW k \in Int, Holds(l, n),
           \A u \in Validators : Total(m, u) = Total(l, u),
           m.reserve + n <= l.reserve + k
    PROVE  Holds(m, k)
<1>1. PICK S : IsSum(S, l) /\ S[Validators] + l.reserve <= n
  BY DEF Holds
<1>2. IsSum(S, m)
  BY <1>1 DEF IsSum
<1>3. S[Validators] \in Nat /\ l.reserve \in Nat /\ m.reserve \in Nat
  BY <1>1 DEF IsSum, Ledger
<1>4. S[Validators] + m.reserve <= k
  BY <1>1, <1>3
<1> QED  BY <1>2, <1>4 DEF Holds

\* The pool grows by what one validator and the reserve gain together.
LEMMA HoldsChange ==
    ASSUME NEW l \in Ledger, NEW m \in Ledger, NEW n \in Int, NEW k \in Int, Holds(l, n),
           NEW v \in Validators,
           \A u \in Validators \ {v} : Total(m, u) = Total(l, u),
           (Total(m, v) + m.reserve) + n <= (Total(l, v) + l.reserve) + k
    PROVE  Holds(m, k)
<1>1. PICK S : IsSum(S, l) /\ S[Validators] + l.reserve <= n
  BY DEF Holds
<1> DEFINE T == [A \in SUBSET Validators |->
                    IF v \in A THEN S[A \ {v}] + Total(m, v) ELSE S[A]]
<1>2. Total(m, v) \in Nat /\ Total(l, v) \in Nat /\ m.reserve \in Nat /\ l.reserve \in Nat
  BY TotalType
<1>3. /\ S \in [SUBSET Validators -> Nat] /\ S[{}] = 0
      /\ \A A \in SUBSET Validators : \A u \in Validators \ A :
            S[A \cup {u}] = S[A] + Total(l, u)
  BY <1>1 DEF IsSum
<1>4. T \in [SUBSET Validators -> Nat]
  <2>1. ASSUME NEW A \in SUBSET Validators
        PROVE  (IF v \in A THEN S[A \ {v}] + Total(m, v) ELSE S[A]) \in Nat
    <3>1. A \ {v} \in SUBSET Validators
      OBVIOUS
    <3>2. S[A \ {v}] \in Nat /\ S[A] \in Nat
      BY <1>3, <3>1
    <3> QED  BY <1>2, <3>2
  <2> QED  BY <2>1
<1>5. T[{}] = 0
  BY <1>3
<1>6. ASSUME NEW A \in SUBSET Validators, NEW u \in Validators \ A
      PROVE  T[A \cup {u}] = T[A] + Total(m, u)
  <2>1. A \cup {u} \in SUBSET Validators /\ A \ {v} \in SUBSET Validators
    OBVIOUS
  <2>2. CASE u = v
    <3>1. (A \cup {u}) \ {v} = A
      BY <2>2
    <3>2. T[A \cup {u}] = S[A] + Total(m, v) /\ T[A] = S[A]
      BY <2>1, <2>2, <3>1
    <3> QED  BY <2>2, <3>2
  <2>3. CASE u # v /\ v \in A
    <3>1. (A \cup {u}) \ {v} = (A \ {v}) \cup {u} /\ u \in Validators \ (A \ {v})
      BY <2>3
    <3>2. S[(A \cup {u}) \ {v}] = S[A \ {v}] + Total(l, u)
      BY <1>3, <2>1, <3>1
    <3>3. T[A \cup {u}] = S[(A \cup {u}) \ {v}] + Total(m, v) /\ T[A] = S[A \ {v}] + Total(m, v)
      BY <2>1, <2>3
    <3>4. Total(m, u) = Total(l, u) /\ Total(l, u) \in Nat /\ S[A \ {v}] \in Nat
      BY <1>3, <2>1, <2>3, TotalType
    <3> HIDE DEF T
    <3>5. \A a, b, c \in Nat : (a + b) + c = (a + c) + b
      OBVIOUS
    <3> QED  BY <1>2, <3>2, <3>3, <3>4, <3>5
  <2>4. CASE u # v /\ v \notin A
    <3>1. S[A \cup {u}] = S[A] + Total(l, u)
      BY <1>3
    <3>2. T[A \cup {u}] = S[A \cup {u}] /\ T[A] = S[A]
      BY <2>1, <2>4
    <3> QED  BY <2>4, <3>1, <3>2
  <2> QED  BY <2>2, <2>3, <2>4
<1>7. T[Validators] + m.reserve <= k
  <2> DEFINE A == Validators \ {v}
  <2>1. A \in SUBSET Validators /\ v \in Validators \ A /\ A \cup {v} = Validators
    OBVIOUS
  <2>2. S[A \cup {v}] = S[A] + Total(l, v)
    BY <1>3, <2>1
  <2>3. S[Validators] = S[A] + Total(l, v) /\ S[A] \in Nat
    BY <1>3, <2>1, <2>2
  <2>4. T[Validators] = S[A] + Total(m, v)
    OBVIOUS
  <2> HIDE DEF A, T
  <2> QED  BY <1>1, <1>2, <2>3, <2>4
<1> HIDE DEF T
<1>8. IsSum(T, m)
  BY <1>4, <1>5, <1>6 DEF IsSum
<1> QED  BY <1>7, <1>8 DEF Holds

\* Lamports that move between one validator and the reserve leave the pool as large as it was.
LEMMA HoldsMove ==
    ASSUME NEW l \in Ledger, NEW m \in Ledger, NEW n \in Int, NEW k \in Int, Holds(l, n),
           NEW v \in Validators,
           \A u \in Validators \ {v} : Total(m, u) = Total(l, u),
           Total(m, v) + m.reserve <= Total(l, v) + l.reserve, n <= k
    PROVE  Holds(m, k)
<1>1. Total(m, v) \in Nat /\ Total(l, v) \in Nat /\ m.reserve \in Nat /\ l.reserve \in Nat
  BY TotalType
<1>2. (Total(m, v) + m.reserve) + n <= (Total(l, v) + l.reserve) + k
  BY <1>1
<1> QED  BY <1>2, HoldsChange

\* The allowance for deposits is used up one deposit at a time.
LEMMA DepositsType ==
    ASSUME NEW i \in 0 .. MaxInterference
    PROVE  /\ Deposits(i) \in Nat
           /\ i < MaxInterference => Deposits(i) = Deposits(i + 1) + UserAmount
<1>1. MaxInterference - i \in Nat /\ UserAmount \in Nat /\ MaxInterference \in Nat
  BY BoundsAssumption, ConstantsType
<1>2. \A a, b \in Nat : a * b \in Nat
  OBVIOUS
<1>3. Deposits(i) \in Nat
  BY <1>1, <1>2 DEF Deposits
<1>4. \A a, b \in Nat : (a + 1) * b = a * b + b
  OBVIOUS
<1>5. ASSUME i < MaxInterference PROVE Deposits(i) = Deposits(i + 1) + UserAmount
  <2>1. MaxInterference - (i + 1) \in Nat /\ MaxInterference - i = (MaxInterference - (i + 1)) + 1
    BY <1>1, <1>5
  <2> QED  BY <1>1, <1>4, <2>1 DEF Deposits
<1> QED  BY <1>3, <1>5

\* The planner does not touch the chain, and goes on planning.
LEMMA PlanNextKeepsChain ==
    ASSUME PlanNext
    PROVE  /\ UNCHANGED <<chainVars, pc, run, request, scheme, view, outcome, undisturbed>>
           /\ CanPlan
BY DEF PlanNext, PlanBeingRemoved, PlanTransientWrongState, PlanInsufficientReserve,
       PlanNoChange, PlanDecrease, PlanIncrease, Advance, MayDecrease, MayIncrease, WantsLess,
       WantsMore, PlanActive

\* A decrease moves stake within a validator and rent out of the reserve.
LEMMA DecreaseMoves ==
    ASSUME NEW l \in Ledger, NEW ix \in Ix, ChainDecrease(l, ix) \in Ledger, NEW n \in Int,
           Holds(l, n), \A v \in Validators : Formed(l.tsa[v])
    PROVE  LET m == ChainDecrease(l, ix)
           IN  Holds(m, n) /\ \A v \in Validators : Formed(m.tsa[v])
<1> DEFINE m == ChainDecrease(l, ix)
           v == ix.vote
           rent == RentFor(l.tsa[v])
<1>1. v \in Validators /\ ix.amt \in Nat /\ rent \in Nat
  BY RentType DEF Ix
<1>2. /\ m.stake[v] = l.stake[v] - ix.amt /\ m.tsa[v].stake = l.tsa[v].stake + ix.amt
      /\ m.tsa[v].activation = 0 /\ m.reserve = l.reserve - rent
      /\ \A u \in Validators \ {v} : m.stake[u] = l.stake[u] /\ m.tsa[u] = l.tsa[u]
  BY <1>1 DEF ChainDecrease, Ledger
<1>3. m \in Ledger
  OBVIOUS
<1> HIDE DEF m, v, rent
<1>4. \A u \in Validators \ {v} : Total(m, u) = Total(l, u)
  BY <1>2 DEF Total
<1>5. Total(m, v) + m.reserve <= Total(l, v) + l.reserve
  BY <1>1, <1>2, <1>3, TotalType DEF Total
<1>6. Holds(m, n)
  BY <1>1, <1>3, <1>4, <1>5, HoldsMove
<1>7. \A u \in Validators : Formed(m.tsa[u])
  BY <1>1, <1>2 DEF Formed
<1> QED  BY <1>6, <1>7 DEF m

\* An increase moves stake from the reserve to a validator, and rent out of the reserve.
LEMMA IncreaseMoves ==
    ASSUME NEW l \in Ledger, NEW ix \in Ix, ChainIncrease(l, ix) \in Ledger, NEW n \in Int,
           Holds(l, n), \A v \in Validators : Formed(l.tsa[v])
    PROVE  LET m == ChainIncrease(l, ix)
           IN  Holds(m, n) /\ \A v \in Validators : Formed(m.tsa[v])
<1> DEFINE m == ChainIncrease(l, ix)
           v == ix.vote
           rent == RentFor(l.tsa[v])
<1>1. v \in Validators /\ ix.amt \in Nat /\ rent \in Nat
  BY RentType DEF Ix
<1>2. /\ m.stake[v] = l.stake[v] /\ m.tsa[v].stake = l.tsa[v].stake + ix.amt
      /\ m.tsa[v].deactivation = Never /\ m.reserve = l.reserve - (ix.amt + rent)
      /\ \A u \in Validators \ {v} : m.stake[u] = l.stake[u] /\ m.tsa[u] = l.tsa[u]
  BY <1>1 DEF ChainIncrease, Ledger
<1>3. m \in Ledger
  OBVIOUS
<1> HIDE DEF m, v, rent
<1>4. \A u \in Validators \ {v} : Total(m, u) = Total(l, u)
  BY <1>2 DEF Total
<1>5. Total(m, v) + m.reserve <= Total(l, v) + l.reserve
  BY <1>1, <1>2, <1>3, TotalType DEF Total
<1>6. Holds(m, n)
  BY <1>1, <1>3, <1>4, <1>5, HoldsMove
<1>7. \A u \in Validators : Formed(m.tsa[u])
  BY <1>1, <1>2 DEF Formed
<1> QED  BY <1>6, <1>7 DEF m

\* The crank moves lamports from a transient account to the validator or the reserve.
LEMMA MergeMoves ==
    ASSUME TypeOK, TypeOK', NEW n \in Int, Holds(ledger, n),
           \A v \in Validators : Formed(ledger.tsa[v]),
           NEW v \in Validators, MergeTransient(v)
    PROVE  Holds(ledger', n) /\ \A u \in Validators : Formed(ledger'.tsa[u])
<1> DEFINE t == ledger.tsa[v]
           up == IF t.deactivation = Never THEN t.stake ELSE 0
           back == IF t.deactivation = Never THEN 0 ELSE t.stake
<1>1. ledger \in Ledger /\ ledger' \in Ledger
  BY DEF TypeOK
<1>2. /\ ledger'.stake = [ledger.stake EXCEPT ![v] = @ + up]
      /\ ledger'.tsa = [ledger.tsa EXCEPT ![v] = NoTsa]
      /\ ledger'.reserve = ledger.reserve + back
  BY DEF MergeTransient
<1>3. up \in Nat /\ back \in Nat /\ up + back = ledger.tsa[v].stake
  BY <1>1, TotalType
<1> HIDE DEF up, back, t
<1>4. /\ ledger'.stake[v] = ledger.stake[v] + up /\ ledger'.tsa[v] = NoTsa
      /\ \A u \in Validators \ {v} :
            ledger'.stake[u] = ledger.stake[u] /\ ledger'.tsa[u] = ledger.tsa[u]
  BY <1>1, <1>2 DEF Ledger
<1>5. ledger'.tsa[v].stake = 0 /\ ledger'.tsa[v].activation = 0
  BY <1>4 DEF NoTsa
<1>6. \A u \in Validators \ {v} : Total(ledger', u) = Total(ledger, u)
  BY <1>4 DEF Total
<1>7. Total(ledger', v) + ledger'.reserve <= Total(ledger, v) + ledger.reserve
  BY <1>1, <1>2, <1>3, <1>4, <1>5, TotalType DEF Total
<1>8. Holds(ledger', n)
  BY <1>1, <1>6, <1>7, HoldsMove
<1> QED  BY <1>4, <1>5, <1>8 DEF Formed

\* Every step of the system keeps the lamports of the pool, but for deposits and withdrawals.
LEMMA NextLedgersSound ==
    ASSUME TypeOK, TypeOK', LedgersSound, [Next]_vars
    PROVE  LedgersSound'
<1> DEFINE n == U64Max - Deposits(interference)
           SoundLedger(l, k) == Holds(l, k) /\ \A v \in Validators : Formed(l.tsa[v])
<1>1. /\ n \in Int /\ n' \in Int
      /\ interference \in 0 .. MaxInterference /\ interference' \in 0 .. MaxInterference
      /\ ledger \in Ledger /\ ledger' \in Ledger
      /\ exec.ledger \in Ledger /\ exec'.ledger \in Ledger /\ epoch \in 1 .. MaxEpoch
  <2>1. /\ interference \in 0 .. MaxInterference /\ interference' \in 0 .. MaxInterference
        /\ ledger \in Ledger /\ ledger' \in Ledger
        /\ exec.ledger \in Ledger /\ exec'.ledger \in Ledger /\ epoch \in 1 .. MaxEpoch
    BY DEF TypeOK
  <2> QED  BY <2>1, DepositsType, ConstantsType
<1>2. SoundLedger(ledger, n) /\ (exec.busy => Holds(exec.ledger, n))
      /\ \A v \in Validators : Formed(exec.ledger.tsa[v])
  BY DEF LedgersSound
<1>3. SUFFICES /\ SoundLedger(ledger', n')
               /\ exec'.busy => Holds(exec'.ledger, n')
               /\ \A v \in Validators : Formed(exec'.ledger.tsa[v])
  BY DEF LedgersSound
<1> HIDE DEF n
<1>4. ASSUME UNCHANGED <<ledger, exec, interference>>
      PROVE  /\ SoundLedger(ledger', n')
             /\ exec'.busy => Holds(exec'.ledger, n')
             /\ \A v \in Validators : Formed(exec'.ledger.tsa[v])
  BY <1>2, <1>4 DEF n
<1>5. CASE Command \/ Crash \/ UNCHANGED vars
  <2>1. UNCHANGED <<ledger, exec, interference>>
    BY <1>5, PlanNextKeepsChain DEF Command, Crash, FetchPool, FetchList, FetchStakes, Aim, SendTx,
       Confirmed, Rejected, Finish, vars, chainVars
  <2> QED  BY <1>4, <2>1
<1>6. CASE Runtime
  <2>1. ASSUME NEW t \in inflight, ExpireTx(t) PROVE UNCHANGED <<ledger, exec, interference>>
    BY <2>1 DEF ExpireTx
  <2>2. ASSUME NEW t \in inflight, BeginTx(t)
        PROVE  exec'.ledger = ledger /\ UNCHANGED <<ledger, interference>>
    BY <2>2 DEF BeginTx
  <2>3. CASE ExecIx
    <3> PICK ix \in Ix : /\ ix = exec.tx.ixs[exec.pos] /\ Accepts(exec, ix)
      <4>1. exec.pos \in DOMAIN exec.tx.ixs /\ exec.tx.ixs \in Seq(Ix)
        <5>1. exec.tx \in Tx /\ exec.pos \in Nat \ {0}
          BY DEF TypeOK
        <5>2. exec.tx.ixs \in Seq(Ix)
          BY <5>1 DEF Tx
        <5>3. exec.pos <= Len(exec.tx.ixs)
          BY <2>3 DEF ExecIx
        <5> QED  BY <5>1, <5>2, <5>3
      <4>2. exec.tx.ixs[exec.pos] \in Ix
        BY <4>1, ElementOfSeq
      <4> QED  BY <2>3, <4>2 DEF ExecIx
    <3>1. /\ exec.busy /\ UNCHANGED <<ledger, interference>>
          /\ exec'.ledger = IF ix.kind = "Decrease" THEN ChainDecrease(exec.ledger, ix)
                            ELSE ChainIncrease(exec.ledger, ix)
      BY <2>3 DEF ExecIx, TypeOK
    <3>2. SoundLedger(exec'.ledger, n)
      <4>1. CASE ix.kind = "Decrease"
        <5>1. exec'.ledger = ChainDecrease(exec.ledger, ix)
          BY <3>1, <4>1
        <5> QED  BY <1>1, <1>2, <3>1, <5>1, DecreaseMoves
      <4>2. CASE ix.kind # "Decrease"
        <5>1. exec'.ledger = ChainIncrease(exec.ledger, ix)
          BY <3>1, <4>2
        <5> QED  BY <1>1, <1>2, <3>1, <5>1, IncreaseMoves
      <4> QED  BY <4>1, <4>2
    <3> QED  BY <1>2, <3>1, <3>2 DEF n
  <2>4. CASE AbortTx \/ CommitTx
    <3>1. /\ exec' = Idle /\ UNCHANGED interference
          /\ \/ ledger' = ledger
             \/ exec.busy /\ ledger' = exec.ledger
      BY <2>4 DEF AbortTx, CommitTx
    <3>2. \A v \in Validators : Formed(Idle.ledger.tsa[v])
      BY DEF Idle, Formed, NoTsa
    <3>3. ~Idle.busy
      BY DEF Idle
    <3> QED  BY <1>2, <3>1, <3>2, <3>3 DEF n
  <2> QED  BY <1>2, <1>4, <1>6, <2>1, <2>2, <2>3, <2>4 DEF Runtime, n
<1>7. CASE World
  <2>1. ~exec.busy /\ UNCHANGED exec
    BY <1>7 DEF World, AdvanceEpoch, FinishUpdate, MergeTransient, DepositSol, WithdrawSol,
                WithdrawStake, AddStake, RemoveValidator, ReplaceStaker, Interfere, NotTheCommand
  <2>2. SUFFICES SoundLedger(ledger', n')
    BY <1>2, <2>1
  <2>3. ASSUME Interfere PROVE n' = n + UserAmount
    <3>1. interference < MaxInterference /\ interference' = interference + 1
      BY <2>3 DEF Interfere
    <3> QED  BY <1>1, <3>1, DepositsType, ConstantsType DEF n
  <2>4. CASE AdvanceEpoch \/ FinishUpdate
    <3>1. UNCHANGED <<ledger, interference>>
      BY <2>4 DEF AdvanceEpoch, FinishUpdate
    <3> QED  BY <1>2, <3>1 DEF n
  <2>5. CASE ReplaceStaker \/ \E v \in Validators : RemoveValidator(v)
    <3>1. Interfere /\ UNCHANGED ledger
      BY <2>5 DEF ReplaceStaker, RemoveValidator
    <3>2. ledger'.reserve + n <= ledger.reserve + n'
      BY <1>1, <2>3, <3>1, ConstantsType DEF Ledger
    <3> QED  BY <1>1, <1>2, <3>1, <3>2, HoldsReserve
  <2>6. CASE DepositSol \/ WithdrawSol
    <3>1. /\ Interfere
          /\ \/ ledger' = [ledger EXCEPT !.reserve = @ + UserAmount]
             \/ ledger' = [ledger EXCEPT !.reserve = @ - UserAmount]
      BY <2>6 DEF DepositSol, WithdrawSol
    <3>2. /\ ledger'.stake = ledger.stake /\ ledger'.tsa = ledger.tsa
          /\ \/ ledger'.reserve = ledger.reserve + UserAmount
             \/ ledger'.reserve = ledger.reserve - UserAmount
      BY <1>1, <3>1 DEF Ledger
    <3>3. ledger.reserve \in Nat /\ UserAmount \in Nat
      BY <1>1, ConstantsType DEF Ledger
    <3>4. ledger'.reserve + n <= ledger.reserve + n'
      BY <1>1, <2>3, <3>1, <3>2, <3>3
    <3>5. \A u \in Validators : Total(ledger', u) = Total(ledger, u)
      BY <3>2 DEF Total
    <3> QED  BY <1>1, <1>2, <3>2, <3>4, <3>5, HoldsReserve
  <2>7. ASSUME NEW v \in Validators, WithdrawStake(v) PROVE SoundLedger(ledger', n')
    <3>1. /\ Interfere
          /\ ledger' = [ledger EXCEPT !.stake = [ledger.stake EXCEPT ![v] = @ - UserAmount]]
      BY <2>7 DEF WithdrawStake
    <3>2. /\ ledger'.tsa = ledger.tsa /\ ledger'.reserve = ledger.reserve
          /\ ledger'.stake[v] = ledger.stake[v] - UserAmount
          /\ \A u \in Validators \ {v} : ledger'.stake[u] = ledger.stake[u]
      BY <1>1, <3>1 DEF Ledger
    <3>3. \A u \in Validators \ {v} : Total(ledger', u) = Total(ledger, u)
      BY <3>2 DEF Total
    <3>4. Total(ledger', v) + ledger'.reserve <= Total(ledger, v) + ledger.reserve
      BY <1>1, <3>2, TotalType, ConstantsType DEF Total
    <3>5. n <= n'
      BY <1>1, <2>3, <3>1, ConstantsType
    <3> QED  BY <1>1, <1>2, <3>2, <3>3, <3>4, <3>5, HoldsMove
  <2>9. ASSUME NEW v \in Validators, AddStake(v) PROVE SoundLedger(ledger', n')
    <3>1. /\ Interfere
          /\ ledger' = [ledger EXCEPT !.stake = [ledger.stake EXCEPT ![v] = @ + UserAmount]]
      BY <2>9 DEF AddStake
    <3>2. /\ ledger'.tsa = ledger.tsa /\ ledger'.reserve = ledger.reserve
          /\ ledger'.stake[v] = ledger.stake[v] + UserAmount
          /\ \A u \in Validators \ {v} : ledger'.stake[u] = ledger.stake[u]
      BY <1>1, <3>1 DEF Ledger
    <3>3. \A u \in Validators \ {v} : Total(ledger', u) = Total(ledger, u)
      BY <3>2 DEF Total
    <3>4. Total(ledger', v) + ledger'.reserve = (Total(ledger, v) + ledger.reserve) + UserAmount
      BY <1>1, <3>2, TotalType, ConstantsType DEF Total
    <3>5. n' = n + UserAmount
      BY <2>3, <3>1
    <3>6. (Total(ledger', v) + ledger'.reserve) + n <= (Total(ledger, v) + ledger.reserve) + n'
      BY <1>1, <3>4, <3>5, TotalType, ConstantsType
    <3> QED  BY <1>1, <1>2, <3>2, <3>3, <3>5, <3>6, HoldsChange
  <2>8. ASSUME NEW v \in Validators, MergeTransient(v) PROVE SoundLedger(ledger', n')
    <3>1. UNCHANGED interference
      BY <2>8 DEF MergeTransient
    <3> QED  BY <1>1, <1>2, <2>8, <3>1, MergeMoves DEF n
  <2> QED  BY <1>7, <2>4, <2>5, <2>6, <2>7, <2>8, <2>9 DEF World
<1> QED  BY <1>5, <1>6, <1>7 DEF Next

-----------------------------------------------------------------------------
(* The plan.                                                               *)

\* The view is changed by the three reads only, and the plan is empty then.
LEMMA ViewChanges ==
    ASSUME [Next]_vars
    PROVE  \/ FetchPool \/ FetchList \/ FetchStakes
           \/ view' = view /\ (pc' \in Running => pc \in Running)
<1>1. CASE Aim \/ PlanNext \/ SendTx \/ Confirmed \/ Rejected \/ Finish \/ Crash
  <2>1. view' = view /\ (pc' = pc \/ pc \in Running)
    BY <1>1, PlanNextKeepsChain DEF Aim, SendTx, Confirmed, Rejected, Finish, Crash, Running
  <2> QED  BY <2>1
<1>2. CASE Runtime
  BY <1>2 DEF Runtime, BeginTx, ExpireTx, ExecIx, AbortTx, CommitTx, commandVars
<1>3. CASE World
  BY <1>3 DEF World, AdvanceEpoch, FinishUpdate, MergeTransient, DepositSol, WithdrawSol,
              WithdrawStake, AddStake, RemoveValidator, ReplaceStaker, Interfere, NotTheCommand, commandVars
<1>4. CASE UNCHANGED vars
  BY <1>4 DEF vars, commandVars
<1> QED  BY <1>1, <1>2, <1>3, <1>4 DEF Next, Command

\* What was read is as sound as what the chain holds.
LEMMA NextViewSound ==
    ASSUME TypeOK, LedgersSound, ViewSound, [Next]_vars
    PROVE  ViewSound'
<1>1. CASE view' = view /\ (pc' \in Running => pc \in Running)
  BY <1>1 DEF ViewSound, Total
<1>2. CASE FetchPool
  <2>1. \/ pc' = "panicked" /\ view' = view
        \/ view' = [view EXCEPT !.epoch = epoch]
    BY <1>2 DEF FetchPool, Panic
  <2>2. view'.stake = view.stake /\ view'.tsa = view.tsa
        /\ (pc' \in Running => view'.epoch # 0)
    BY <2>1 DEF TypeOK, ViewType, Running
  <2> QED  BY <2>2 DEF ViewSound, Total
<1>3. CASE FetchList
  <2>1. view' = [view EXCEPT !.status = status] /\ pc \in Running
    BY <1>3 DEF FetchList, Running
  <2>2. view'.stake = view.stake /\ view'.tsa = view.tsa /\ view'.epoch = view.epoch
    BY <2>1 DEF TypeOK, ViewType
  <2> QED  BY <2>1, <2>2 DEF ViewSound, Total
<1>4. CASE FetchStakes
  <2>1. /\ pc \in Running
        /\ \/ view' = view
           \/ view' = [view EXCEPT !.stake = ledger.stake, !.tsa = ledger.tsa]
    BY <1>4 DEF FetchStakes, Running
  <2>2. CASE view' = view
    BY <2>1, <2>2 DEF ViewSound, Total
  <2>3. CASE view' = [view EXCEPT !.stake = ledger.stake, !.tsa = ledger.tsa]
    <3>1. view'.stake = ledger.stake /\ view'.tsa = ledger.tsa /\ view'.epoch = view.epoch
      BY <2>3 DEF TypeOK, ViewType
    <3>2. ASSUME NEW v \in Validators PROVE Total(ledger, v) <= U64Max
      <4>1. ledger \in Ledger /\ interference \in 0 .. MaxInterference
        BY DEF TypeOK
      <4>2. Deposits(interference) \in Nat /\ U64Max \in Nat
        BY <4>1, DepositsType, ConstantsType
      <4>3. Holds(ledger, U64Max - Deposits(interference))
        BY DEF LedgersSound
      <4>4. Total(ledger, v) + ledger.reserve <= U64Max - Deposits(interference)
        BY <4>1, <4>2, <4>3, HoldsEach
      <4> QED  BY <4>1, <4>2, <4>4, TotalType
    <3> QED  BY <2>1, <3>1, <3>2 DEF ViewSound, LedgersSound, Total
  <2> QED  BY <2>1, <2>2, <2>3
<1> QED  BY <1>1, <1>2, <1>3, <1>4, ViewChanges

\* A step that changes neither the plan nor what it was made from keeps what the plan says.
LEMMA KeepsPlan ==
    ASSUME UNCHANGED <<plan, scheme, view, tx>>
    PROVE  /\ PlanFollowsView => PlanFollowsView'
           /\ ChunkIsPlanned => ChunkIsPlanned'
<1>1. PlanFollowsView => PlanFollowsView'
  BY DEF PlanFollowsView, PlanSays, Total, TransientStatus, Desired
<1>2. ChunkIsPlanned => ChunkIsPlanned'
  BY DEF ChunkIsPlanned, IsPlanned, Place
<1> QED  BY <1>1, <1>2

\* A change that is appended to the plan says what it must, and the one instruction that may
\* come with it is the planned one.
LEMMA ChangeKeepsPlan ==
    ASSUME TypeOK, PlanInv, RunInv, PlanFollowsView, ChunkIsPlanned, CanPlan, NEW ty,
           NEW amt \in Nat, Advance(ty, amt),
           \/ tx' = tx
           \/ Emit("Increase", amt) /\ ty \in {"IncreaseStake", "PartialIncreaseStake"}
           \/ Emit("Decrease", amt) /\ ty = "DecreaseStake",
           ty = "IncreaseStake" => Total(view, Item.vote) + amt = Desired(Item),
           ty = "DecreaseStake" /\ TransientStatus(Item.vote) # "Deactivating"
              => view.stake[Item.vote] = Desired(Item) + MinActive + amt
    PROVE  PlanFollowsView' /\ ChunkIsPlanned'
<1>1. /\ DOMAIN plan = 1 .. next - 1 /\ DOMAIN plan' = 1 .. next
      /\ plan'[next] = [ty |-> ty, amt |-> amt]
      /\ \A i \in 1 .. next - 1 : plan'[i] = plan[i]
      /\ next' = next + 1
      /\ UNCHANGED <<pc, scheme, view>>
  BY AppendPlan DEF PlanInv, Advance
<1> PICK n \in Nat : n = next
  BY DEF TypeOK
<1>2. n = next /\ n \in DOMAIN scheme /\ Item = scheme[n] /\ n # 0
  BY DEF TypeOK, CanPlan, Item
<1>3. plan'[n].ty = ty /\ plan'[n].amt = amt
  BY <1>1, <1>2
<1>4. PlanFollowsView'
  <2>1. ASSUME NEW i \in 1 .. n - 1 PROVE i \in DOMAIN scheme /\ PlanSays(i)'
    <3>1. i \in DOMAIN scheme /\ PlanSays(i)
      BY <1>1, <1>2, <2>1 DEF PlanFollowsView
    <3> QED  BY <1>1, <1>2, <2>1, <3>1 DEF PlanSays, Total, TransientStatus, Desired
  <2>2. PlanSays(n)'
    BY <1>1, <1>2, <1>3 DEF PlanSays, Total, TransientStatus, Desired
  <2>3. DOMAIN plan' = 1 .. n
    BY <1>1, <1>2
  <2> QED  BY <1>1, <1>2, <2>1, <2>2, <2>3 DEF PlanFollowsView
<1>5. ChunkIsPlanned'
  <2>1. \A ix : IsPlanned(ix, plan) => IsPlanned(ix, plan')
    BY <1>1, <1>2 DEF IsPlanned
  <2>2. CASE tx' = tx
    BY <2>1, <2>2 DEF ChunkIsPlanned
  <2>3. ASSUME NEW kind, Emit(kind, amt),
               \/ kind = "Increase" /\ ty \in {"IncreaseStake", "PartialIncreaseStake"}
               \/ kind = "Decrease" /\ ty = "DecreaseStake"
        PROVE  ChunkIsPlanned'
    <3> DEFINE ix == [kind |-> kind, vote |-> Item.vote, amt |-> amt, seed |-> next - 1]
    <3>1. tx' = Append(tx, ix) /\ tx \in Seq(Ix)
      BY <2>3 DEF Emit, TypeOK
    <3>2. Place(ix) = n /\ ix.kind = kind /\ ix.amt = amt
      BY <1>2 DEF Place
    <3> HIDE DEF ix
    <3>3. IsPlanned(ix, plan')
      BY <1>1, <1>2, <1>3, <2>3, <3>2 DEF IsPlanned
    <3>4. \A k \in DOMAIN tx' : (k \in DOMAIN tx /\ tx'[k] = tx[k]) \/ tx'[k] = ix
      BY <3>1
    <3>5. \A k \in DOMAIN tx : IsPlanned(tx[k], plan')
      BY <2>1 DEF ChunkIsPlanned
    <3> QED  BY <3>3, <3>4, <3>5 DEF ChunkIsPlanned
  <2> QED  BY <2>2, <2>3
<1> QED  BY <1>4, <1>5

\* A validator that has nothing on its way out is planned with all it was read to have.
LEMMA NextIsTotal ==
    ASSUME TypeOK, ViewSound, NEW v \in Validators, TransientStatus(v) # "Deactivating"
    PROVE  /\ NextEpochStake(v) = Total(view, v)
           /\ TransientStatus(v) \in {"None", "Activating"}
           /\ TransientStatus(v) = "None" => Total(view, v) = view.stake[v]
<1>1. /\ view.stake[v] \in Nat /\ view.tsa[v].stake \in Nat
      /\ view.stake[v] + view.tsa[v].stake <= U64Max
  BY LedgerType DEF ViewSound, Total
<1>2. TransientStatus(v) \in {"None", "Activating"}
  BY DEF TransientStatus
<1>3. CASE TransientStatus(v) = "None"
  <2>1. view.tsa[v] = NoTsa
    BY <1>3 DEF TransientStatus
  <2>2. view.tsa[v].stake = 0
    BY <2>1 DEF NoTsa
  <2>3. NextEpochStake(v) = view.stake[v]
    BY <1>3 DEF NextEpochStake
  <2> QED  BY <1>1, <1>2, <2>2, <2>3 DEF Total
<1>4. CASE TransientStatus(v) = "Activating"
  <2>1. NextEpochStake(v) = SatAdd(view.stake[v], view.tsa[v].stake)
    BY <1>4 DEF NextEpochStake
  <2>2. SatAdd(view.stake[v], view.tsa[v].stake) = view.stake[v] + view.tsa[v].stake
    BY <1>1, ConstantsType DEF SatAdd
  <2> QED  BY <1>2, <1>4, <2>1, <2>2 DEF Total
<1> QED  BY <1>2, <1>3, <1>4

\* All of that counts once it has settled.
LEMMA EffectiveIsTotal ==
    ASSUME TypeOK, ViewSound, pc \in Running, NEW v \in Validators,
           TransientStatus(v) # "Deactivating"
    PROVE  Effective(view, v) = Total(view, v)
<1>1. view.stake[v] \in Nat /\ view.tsa[v].stake \in Nat
  BY LedgerType
<1>2. CASE view.tsa[v] = NoTsa
  <2>1. view.tsa[v].stake = 0
    BY <1>2 DEF NoTsa
  <2> QED  BY <1>1, <2>1 DEF Effective, Total
<1>3. CASE view.tsa[v] # NoTsa
  <2>1. view.tsa[v].activation = view.epoch
    BY <1>3 DEF TransientStatus
  <2>2. view.tsa[v].deactivation = Never
    BY <2>1 DEF ViewSound, Formed
  <2> QED  BY <2>2 DEF Effective, Total
<1> QED  BY <1>2, <1>3

\* A decrease takes everything above the target but MIN_ACTIVE_STAKE.
LEMMA DecreaseIsExact ==
    ASSUME TypeOK, ViewSound, CanPlan, MayDecrease, DecreaseAmt(Item) >= MinTsaBalance,
           TransientStatus(Item.vote) # "Deactivating"
    PROVE  view.stake[Item.vote] = Desired(Item) + MinActive + DecreaseAmt(Item)
<1> DEFINE v == Item.vote
           n == NextEpochStake(v)
           d == Desired(Item)
<1>1. v \in Validators /\ n \in Nat /\ d \in Nat /\ n > d /\ TransientStatus(v) = "None"
  BY ItemType, NextEpochStakeType, DesiredType DEF TypeOK, MayDecrease, WantsLess
<1>2. n = view.stake[v]
  BY <1>1, NextIsTotal
<1>3. DecreaseAmt(Item) = SatSub(n - d, MinActive)
  BY DEF DecreaseAmt
<1> HIDE DEF v, n, d
<1>4. n = d + MinActive + DecreaseAmt(Item)
  BY <1>1, <1>3, ConstantsType DEF SatSub
<1> QED  BY <1>2, <1>4 DEF v, d

\* A full increase fills up to the target.
LEMMA IncreaseIsExact ==
    ASSUME TypeOK, ViewSound, CanPlan, MayIncrease,
           IncreaseAmt(Item) = Desired(Item) - NextEpochStake(Item.vote)
    PROVE  Total(view, Item.vote) + IncreaseAmt(Item) = Desired(Item)
<1>1. /\ Item.vote \in Validators /\ Desired(Item) \in Nat /\ NextEpochStake(Item.vote) \in Nat
      /\ TransientStatus(Item.vote) # "Deactivating"
  BY ItemType, NextEpochStakeType, DesiredType DEF TypeOK, MayIncrease
<1>2. NextEpochStake(Item.vote) = Total(view, Item.vote)
  BY <1>1, NextIsTotal
<1> QED  BY <1>1, <1>2

\* Where no change is needed, the validator has its target, or hardly more.
LEMMA NoChangeIsServed ==
    ASSUME TypeOK, ViewSound, PlanNoChange, TransientStatus(Item.vote) # "Deactivating"
    PROVE  /\ Effective(view, Item.vote) >= Desired(Item)
           /\ Effective(view, Item.vote) < Desired(Item) + MinActive + MinTsaBalance
<1> DEFINE v == Item.vote
           n == NextEpochStake(v)
           d == Desired(Item)
<1>1. CanPlan /\ pc \in Running
  BY DEF PlanNoChange, MayDecrease, WantsLess, PlanActive, CanPlan, Running
<1>2. v \in Validators /\ n \in Nat /\ d \in Nat
  BY <1>1, ItemType, NextEpochStakeType, DesiredType DEF TypeOK
<1>3. n = d \/ (n > d /\ SatSub(n - d, MinActive) < MinTsaBalance)
  BY DEF PlanNoChange, MayDecrease, WantsLess, DecreaseAmt
<1>4. Effective(view, v) = n
  BY <1>1, <1>2, NextIsTotal, EffectiveIsTotal
<1> HIDE DEF v, n, d
<1>5. n >= d /\ n < d + MinActive + MinTsaBalance
  BY <1>2, <1>3, ConstantsType DEF SatSub
<1> QED  BY <1>4, <1>5 DEF v, d

\* Every kind of change keeps what the plan says.
LEMMA PlanNextFollowsView ==
    ASSUME TypeOK, PlanInv, RunInv, ViewSound, PlanFollowsView, ChunkIsPlanned, PlanNext
    PROVE  PlanFollowsView' /\ ChunkIsPlanned'
<1>1. CanPlan
  BY PlanNextKeepsChain
<1>2. CASE PlanBeingRemoved \/ PlanTransientWrongState \/ PlanInsufficientReserve \/ PlanNoChange
  <2>1. PICK ty \in {"ValidatorBeingRemoved", "TransientWrongState",
                     "InsufficientReserveLamports", "NoChange"} : Advance(ty, 0) /\ tx' = tx
    BY <1>2 DEF PlanBeingRemoved, PlanTransientWrongState, PlanInsufficientReserve, PlanNoChange
  <2> QED  BY <1>1, <2>1, ChangeKeepsPlan
<1>3. CASE PlanDecrease
  <2>1. /\ MayDecrease /\ DecreaseAmt(Item) >= MinTsaBalance
        /\ Emit("Decrease", DecreaseAmt(Item)) /\ Advance("DecreaseStake", DecreaseAmt(Item))
    BY <1>3 DEF PlanDecrease
  <2>2. DecreaseAmt(Item) \in Nat
    BY <1>1, ItemType, DecreaseType DEF TypeOK
  <2> QED  BY <1>1, <2>1, <2>2, DecreaseIsExact, ChangeKeepsPlan
<1>4. CASE PlanIncrease
  <2> DEFINE inc == IncreaseAmt(Item)
             ty == IF inc = Desired(Item) - NextEpochStake(Item.vote)
                   THEN "IncreaseStake" ELSE "PartialIncreaseStake"
  <2>1. MayIncrease /\ inc > 0 /\ Emit("Increase", inc) /\ Advance(ty, inc)
    BY <1>4 DEF PlanIncrease
  <2>2. inc \in Nat
    BY <1>1, <2>1, IncreaseFitsTarget DEF RunInv
  <2>3. ty = "IncreaseStake" => Total(view, Item.vote) + inc = Desired(Item)
    BY <1>1, <2>1, IncreaseIsExact
  <2> HIDE DEF inc
  <2> QED  BY <1>1, <2>1, <2>2, <2>3, ChangeKeepsPlan
<1> QED  BY <1>2, <1>3, <1>4 DEF PlanNext

-----------------------------------------------------------------------------
(* The chain.                                                              *)

\* Pending entries of the plan are those with an instruction in the chunk.
LEMMA PlannedBelowNext ==
    ASSUME TypeOK, PlanInv, pc \in {"plan", "confirm"}, NEW i \in DOMAIN plan
    PROVE  i \in Nat /\ i < next
<1>1. plan \in Seq(Changes) /\ Len(plan) = next - 1 /\ next \in Nat
  BY DEF TypeOK, PlanInv, PlanFollowsScheme
<1> QED  BY <1>1

\* A step that leaves the ledger, the plan and what was read alone keeps an entry served.
LEMMA KeepsServed ==
    ASSUME UNCHANGED <<scheme, view>>, NEW i, Served(i), plan'[i] = plan[i],
           Effective(ledger', scheme[i].vote) = Effective(ledger, scheme[i].vote)
    PROVE  Served(i)'
BY DEF Served, TransientStatus, Desired, Effective

\* The planner adds an entry that either waits in the chunk or is served as the pool is.
LEMMA PlanNextServes ==
    ASSUME TypeOK, PlanInv, RunInv, ViewSound, PlanIsServed, PlanNext
    PROVE  PlanIsServed'
<1>1. /\ UNCHANGED <<ledger, inflight, exec, pc, scheme, view, undisturbed>>
      /\ CanPlan /\ pc = "plan"
  BY PlanNextKeepsChain DEF CanPlan, chainVars
<1>2. PICK ty, amt : Advance(ty, amt)
  BY DEF PlanNext, PlanBeingRemoved, PlanTransientWrongState, PlanInsufficientReserve,
         PlanNoChange, PlanDecrease, PlanIncrease
<1>3. /\ DOMAIN plan = 1 .. next - 1 /\ DOMAIN plan' = 1 .. next
      /\ plan'[next] = [ty |-> ty, amt |-> amt]
      /\ \A i \in 1 .. next - 1 : plan'[i] = plan[i]
      /\ next' = next + 1
  BY <1>1, <1>2, AppendPlan DEF PlanInv
<1> PICK n \in Nat : n = next
  BY DEF TypeOK
<1>4. n \in DOMAIN scheme /\ Item = scheme[n] /\ n # 0 /\ n = next
  BY <1>1 DEF TypeOK, CanPlan, Item
<1>5. SUFFICES ASSUME undisturbed, NEW i \in 1 .. n PROVE Pending(i)' \/ Served(i)'
  BY <1>1, <1>3, <1>4 DEF PlanIsServed
<1>6. \/ tx' = tx
      \/ \E ix : tx' = Append(tx, ix)
  <2>1. tx' = tx \/ \E kind, a : Emit(kind, a)
    BY DEF PlanNext, PlanBeingRemoved, PlanTransientWrongState, PlanInsufficientReserve,
           PlanNoChange, PlanDecrease, PlanIncrease
  <2> QED  BY <2>1 DEF Emit
<1>7. ASSUME NEW k \in DOMAIN tx PROVE k \in DOMAIN tx' /\ tx'[k] = tx[k]
  <2>1. tx \in Seq(Ix)
    BY DEF TypeOK
  <2> QED  BY <1>6, <1>7, <2>1
<1>8. CASE i # n
  <2>1. i \in DOMAIN plan /\ i < next /\ next \in Nat
    BY <1>3, <1>4, <1>8
  <2>2. CASE Pending(i)
    <3>1. PICK k \in DOMAIN tx : Place(tx[k]) = i
      BY <2>1, <2>2 DEF Pending
    <3>2. k \in DOMAIN tx' /\ Place(tx'[k]) = i
      BY <1>7, <3>1
    <3> QED  BY <1>1, <3>2 DEF Pending, Place
  <2>3. CASE Served(i)
    <3>1. plan'[i] = plan[i]
      BY <1>3, <2>1
    <3> QED  BY <1>1, <2>3, <3>1, KeepsServed
  <2> QED  BY <1>1, <1>5, <2>1, <2>2, <2>3 DEF PlanIsServed, OnTrack
<1>9. CASE i = n
  <2>1. CASE PlanDecrease \/ PlanIncrease
    <3>1. PICK kind, a : Emit(kind, a)
      BY <2>1 DEF PlanDecrease, PlanIncrease
    <3> DEFINE ix == [kind |-> kind, vote |-> Item.vote, amt |-> a, seed |-> next - 1]
    <3>2. tx' = Append(tx, ix) /\ tx \in Seq(Ix) /\ ix.seed = next - 1
      BY <3>1 DEF Emit, TypeOK
    <3> HIDE DEF ix
    <3>3. Len(tx) + 1 \in DOMAIN tx' /\ tx'[Len(tx) + 1] = ix
      BY <3>2
    <3>4. Place(ix) = i
      BY <1>4, <1>9, <3>2 DEF Place
    <3>5. \E k \in DOMAIN tx' : Place(tx'[k]) = i
      BY <3>3, <3>4
    <3> QED  BY <1>1, <3>5 DEF Pending, Place
  <2>2. CASE PlanNoChange
    <3>1. plan'[i].ty = "NoChange"
      BY <1>3, <1>4, <1>9, <2>2 DEF PlanNoChange, Advance, TypeOK
    <3>2. Pending(n) /\ Alone
      BY <1>1, <1>4, <1>5 DEF Pending, Alone
    <3>3. AsRead(Item.vote)
      BY <1>4, <3>2 DEF RunInv, PendingAsRead
    <3>4. Effective(ledger, Item.vote) = Effective(view, Item.vote)
      BY <1>5, <3>3 DEF AsRead, Effective
    <3>5. TransientStatus(Item.vote) # "Deactivating"
             => /\ Effective(ledger, Item.vote) >= Desired(Item)
                /\ Effective(ledger, Item.vote) < Desired(Item) + MinActive + MinTsaBalance
      BY <2>2, <3>4, NoChangeIsServed
    <3> QED  BY <1>1, <1>4, <1>9, <3>5 DEF Served, TransientStatus, Desired, Effective
  <2>3. CASE PlanBeingRemoved \/ PlanTransientWrongState \/ PlanInsufficientReserve
    <3>1. PICK t \in {"ValidatorBeingRemoved", "TransientWrongState",
                      "InsufficientReserveLamports"} : Advance(t, 0)
      BY <2>3 DEF PlanBeingRemoved, PlanTransientWrongState, PlanInsufficientReserve
    <3>2. plan'[next] = [ty |-> t, amt |-> 0]
      BY <1>1, <3>1, AppendPlan DEF PlanInv
    <3>3. plan'[i].ty = t
      BY <1>4, <1>9, <3>2
    <3> QED  BY <3>3 DEF Served
  <2> QED  BY <2>1, <2>2, <2>3 DEF PlanNext
<1> QED  BY <1>8, <1>9

\* A committing transaction does to the validator of each of its instructions what it says.
LEMMA CommitExecutes ==
    ASSUME TypeOK, RunInv, Alone, CommitTx, NEW k \in DOMAIN tx
    PROVE  LET v == tx[k].vote
           IN  /\ tx[k].kind = "Increase"
                     => Effective(ledger', v) = Total(ledger, v) + tx[k].amt
               /\ tx[k].kind = "Decrease"
                     => Effective(ledger', v) = ledger.stake[v] - tx[k].amt
<1> DEFINE v == tx[k].vote
<1>1. /\ exec.busy /\ exec.pos > Len(exec.tx.ixs) /\ ledger' = exec.ledger
      /\ exec.tx = Mine /\ ExecFollowsChunk
  BY DEF CommitTx, RunInv, OnlyMine
<1>2. Executed(k)
  <2>1. exec.pos > Len(tx) /\ exec.pos \in Nat /\ tx \in Seq(Ix)
    BY <1>1 DEF Mine, TypeOK
  <2> QED  BY <2>1 DEF Executed
<1>3. /\ tx[k].kind = "Increase" => Increased(tx[k])
      /\ tx[k].kind = "Decrease" => Decreased(tx[k])
  BY <1>1, <1>2 DEF ExecFollowsChunk
<1>4. tx[k].amt \in Nat /\ ledger.stake[v] \in Nat /\ ledger.tsa[v].stake \in Nat
  BY ChunkType, LedgerType
<1>5. ASSUME tx[k].kind = "Increase"
      PROVE  Effective(ledger', v) = Total(ledger, v) + tx[k].amt
  <2>1. /\ ledger'.stake[v] = ledger.stake[v]
        /\ ledger'.tsa[v].stake = ledger.tsa[v].stake + tx[k].amt
        /\ ledger'.tsa[v].deactivation = Never
    BY <1>1, <1>3, <1>5 DEF Increased
  <2> QED  BY <1>4, <2>1 DEF Effective, Total
<1>6. ASSUME tx[k].kind = "Decrease"
      PROVE  Effective(ledger', v) = ledger.stake[v] - tx[k].amt
  <2>1. /\ ledger'.stake[v] = ledger.stake[v] - tx[k].amt
        /\ ledger'.tsa[v].deactivation # Never
    BY <1>1, <1>3, <1>6 DEF Decreased
  <2> QED  BY <1>4, <2>1 DEF Effective
<1> QED  BY <1>5, <1>6

\* It does nothing to a validator it has no instruction for.
LEMMA CommitLeavesOthers ==
    ASSUME TypeOK, RunInv, Alone, CommitTx, NEW v \in Validators,
           \A k \in DOMAIN tx : tx[k].vote # v
    PROVE  Effective(ledger', v) = Effective(ledger, v)
<1>1. exec.busy /\ ledger' = exec.ledger /\ ExecFollowsChunk
  BY DEF CommitTx, RunInv
<1>2. Untouched(v)
  BY <1>1 DEF ExecFollowsChunk
<1> QED  BY <1>1, <1>2 DEF Untouched, Effective

\* While the run is undisturbed, a committed transaction serves every entry it was for.
LEMMA CommitServes ==
    ASSUME TypeOK, PlanInv, RunInv, PlanFollowsView, ChunkIsPlanned, PlanIsServed, CommitTx
    PROVE  PlanIsServed'
<1>1. /\ exec.busy /\ UNCHANGED <<pc, scheme, view, next, tx, plan>>
      /\ undisturbed' => undisturbed
  BY DEF CommitTx
<1> SUFFICES ASSUME undisturbed', OnTrack', NEW i \in DOMAIN plan PROVE Served(i)'
  BY <1>1 DEF PlanIsServed
<1>2. undisturbed /\ Alone /\ OnItsWay
  BY <1>1 DEF Alone, OnItsWay
<1>3. pc = "confirm" /\ outcome = "pending"
  BY <1>1, <1>2 DEF RunInv, OnlyMine, OnTrack
<1> DEFINE v == scheme[i].vote
           d == Desired(scheme[i])
<1>4. Pending(i) \/ Served(i)
  BY <1>2, <1>3 DEF PlanIsServed, OnTrack
<1>5. i \in DOMAIN scheme /\ PlanSays(i) /\ i < next /\ i \in Nat /\ next \in Nat
  BY <1>3, PlannedBelowNext DEF PlanFollowsView, TypeOK
<1>6. v \in Validators /\ d \in Nat
  BY <1>5, SchemeType
<1>7. ASSUME NEW k \in DOMAIN tx, Place(tx[k]) = i PROVE Served(i)'
  <2>1. tx[k].vote = v /\ tx[k].kind \in {"Increase", "Decrease"} /\ tx[k].amt \in Nat
    BY <1>7, ChunkType DEF RunInv, ChunkFollowsScheme, IxFollows
  <2>2. IsPlanned(tx[k], plan)
    BY DEF ChunkIsPlanned
  <2>3. Pending(i)
    BY <1>2, <1>7 DEF Pending
  <2>4. AsRead(v)
    BY <1>2, <1>5, <2>3 DEF RunInv, PendingAsRead
  <2>5. ledger.stake[v] = view.stake[v] /\ Total(ledger, v) = Total(view, v)
    BY <1>2, <2>4 DEF AsRead, Total
  <2>6. SUFFICES ASSUME plan[i].ty \in {"DecreaseStake", "IncreaseStake", "NoChange"},
                        TransientStatus(v) # "Deactivating"
                 PROVE  Effective(ledger', v) >= d
                        /\ Effective(ledger', v) < d + MinActive + MinTsaBalance
    BY <1>1 DEF Served, TransientStatus, Desired, Effective
  <2>7. CASE tx[k].kind = "Increase"
    <3>1. plan[i].ty = "IncreaseStake" /\ plan[i].amt = tx[k].amt
      BY <1>7, <2>2, <2>6, <2>7 DEF IsPlanned
    <3>2. Total(view, v) + tx[k].amt = d
      BY <1>5, <3>1 DEF PlanSays
    <3>3. Effective(ledger', v) = Total(ledger, v) + tx[k].amt
      BY <1>2, <2>1, <2>7, CommitExecutes
    <3> QED  BY <1>6, <2>5, <3>2, <3>3, ConstantsType
  <2>8. CASE tx[k].kind = "Decrease"
    <3>1. plan[i].ty = "DecreaseStake" /\ plan[i].amt = tx[k].amt
      BY <1>7, <2>2, <2>8 DEF IsPlanned
    <3>2. view.stake[v] = d + MinActive + tx[k].amt
      BY <1>5, <2>6, <3>1 DEF PlanSays
    <3>3. Effective(ledger', v) = ledger.stake[v] - tx[k].amt
      BY <1>2, <2>1, <2>8, CommitExecutes
    <3> HIDE DEF d
    <3> QED  BY <1>6, <2>1, <2>5, <3>2, <3>3, ConstantsType
  <2> QED  BY <2>1, <2>7, <2>8
<1>8. ASSUME \A k \in DOMAIN tx : Place(tx[k]) # i PROVE Served(i)'
  <2>1. Served(i)
    BY <1>3, <1>4, <1>5, <1>8 DEF Pending
  <2>2. \A k \in DOMAIN tx : tx[k].vote # v
    BY <1>5, <1>8, PlaceOfVote
  <2>3. Effective(ledger', v) = Effective(ledger, v)
    BY <1>2, <1>6, <2>2, CommitLeavesOthers
  <2> QED  BY <1>1, <2>1, <2>3, KeepsServed
<1> QED  BY <1>7, <1>8

\* No other step serves an entry or stops serving one.
LEMMA OtherPlanIsServed ==
    ASSUME TypeOK, PlanIsServed, UNCHANGED <<plan, scheme, view, ledger>>,
           undisturbed' /\ OnTrack' => undisturbed /\ OnTrack,
           undisturbed' /\ OnTrack' => \A i \in DOMAIN plan : Pending(i) => Pending(i)'
    PROVE  PlanIsServed'
<1> SUFFICES ASSUME undisturbed', OnTrack', NEW i \in DOMAIN plan
             PROVE  Pending(i)' \/ Served(i)'
  BY DEF PlanIsServed
<1>1. Pending(i) \/ Served(i)
  BY DEF PlanIsServed
<1>2. Served(i) => Served(i)'
  BY KeepsServed
<1> QED  BY <1>1, <1>2

\* Every step of the system keeps what the plan says.
LEMMA NextFollowsView ==
    ASSUME TypeOK, PlanInv, RunInv, ViewSound, PlanFollowsView, ChunkIsPlanned, [Next]_vars
    PROVE  PlanFollowsView' /\ ChunkIsPlanned'
<1>1. ASSUME plan' = <<>>, tx' = <<>> PROVE PlanFollowsView' /\ ChunkIsPlanned'
  BY <1>1 DEF PlanFollowsView, ChunkIsPlanned
<1>2. CASE FetchPool
  BY <1>1, <1>2 DEF FetchPool
<1>3. CASE FetchList \/ FetchStakes \/ Aim
  <2>1. pc \in Fetching /\ UNCHANGED <<plan, tx>>
    BY <1>3 DEF FetchList, FetchStakes, Aim, Fetching
  <2>2. plan = <<>> /\ tx = <<>>
    BY <2>1, FetchingIsQuiet DEF PlanInv, PlanStartsEmpty
  <2> QED  BY <1>1, <2>1, <2>2
<1>4. CASE PlanNext
  BY <1>4, PlanNextFollowsView
<1>5. CASE Confirmed
  <2>1. UNCHANGED <<plan, scheme, view>> /\ tx' = <<>>
    BY <1>5 DEF Confirmed
  <2> QED
    BY <2>1 DEF PlanFollowsView, PlanSays, Total, TransientStatus, Desired, ChunkIsPlanned
<1>6. CASE SendTx \/ Rejected \/ Finish \/ Crash
  BY <1>6, KeepsPlan DEF SendTx, Rejected, Finish, Crash
<1>7. CASE Runtime
  <2>1. UNCHANGED <<plan, scheme, view, tx>>
    BY <1>7 DEF Runtime, BeginTx, ExpireTx, ExecIx, AbortTx, CommitTx, commandVars
  <2> QED  BY <2>1, KeepsPlan
<1>8. CASE World
  <2>1. UNCHANGED <<plan, scheme, view, tx>>
    BY <1>8 DEF World, AdvanceEpoch, FinishUpdate, MergeTransient, DepositSol, WithdrawSol,
                WithdrawStake, AddStake, RemoveValidator, ReplaceStaker, Interfere, NotTheCommand,
                commandVars
  <2> QED  BY <2>1, KeepsPlan
<1>9. CASE UNCHANGED vars
  BY <1>9, KeepsPlan DEF vars, commandVars
<1> QED  BY <1>2, <1>3, <1>4, <1>5, <1>6, <1>7, <1>8, <1>9 DEF Next, Command

\* Every step of the system keeps the entries of the plan waiting or served.
LEMMA NextPlanIsServed ==
    ASSUME TypeOK, PlanInv, RunInv, ViewSound, PlanFollowsView, ChunkIsPlanned, PlanIsServed,
           [Next]_vars
    PROVE  PlanIsServed'
<1>1. CASE FetchPool \/ FetchList \/ FetchStakes \/ Aim
  <2>1. plan' = <<>>
    BY <1>1 DEF FetchPool, FetchList, FetchStakes, Aim, PlanInv, PlanStartsEmpty, Fetching
  <2> QED  BY <2>1 DEF PlanIsServed
<1>2. CASE PlanNext
  BY <1>2, PlanNextServes
<1>3. undisturbed /\ OnItsWay
        => /\ OnlyMine
           /\ (pc = "confirm" /\ outcome = "pending") \/ pc = "crashed"
  BY DEF RunInv, Alone, OnlyMine
<1>4. CASE SendTx
  <2>1. /\ UNCHANGED <<plan, scheme, view, ledger, tx, next, undisturbed>>
        /\ pc = "plan" /\ inflight' # {}
    BY <1>4 DEF SendTx
  <2>2. ASSUME NEW i \in DOMAIN plan, Pending(i) PROVE Pending(i)'
    <3>1. i \in Nat /\ i < next /\ next \in Nat
      BY <2>1, PlannedBelowNext DEF TypeOK
    <3>2. \E k \in DOMAIN tx : Place(tx[k]) = i
      BY <2>2, <3>1 DEF Pending
    <3>3. OnItsWay'
      BY <2>1 DEF OnItsWay
    <3> QED  BY <2>1, <3>2, <3>3 DEF Pending, Place
  <2> QED  BY <2>1, <2>2, OtherPlanIsServed DEF OnTrack
<1>5. CASE Confirmed \/ Finish
  <2>1. /\ UNCHANGED <<plan, scheme, view, ledger, undisturbed>>
        /\ \/ pc = "confirm" /\ outcome = "confirmed"
           \/ pc = "plan" /\ tx = <<>>
    BY <1>5 DEF Confirmed, Finish, chainVars
  <2>2. ASSUME undisturbed, NEW i \in DOMAIN plan PROVE ~Pending(i)
    <3>1. i \in Nat /\ i < next /\ next \in Nat
      BY <2>1, <2>2, PlannedBelowNext DEF TypeOK
    <3> QED  BY <1>3, <2>1, <2>2, <3>1 DEF Pending
  <2> QED  BY <2>1, <2>2, OtherPlanIsServed DEF OnTrack
<1>6. CASE Rejected \/ Crash
  <2>1. ~OnTrack'
    BY <1>6 DEF Rejected, Crash, Panic, OnTrack
  <2> QED  BY <2>1 DEF PlanIsServed
<1>7. CASE Runtime
  <2>1. ASSUME NEW t \in inflight, BeginTx(t) PROVE PlanIsServed'
    <3>1. /\ UNCHANGED <<plan, scheme, view, ledger, undisturbed, pc, tx, next, outcome>>
          /\ exec'.busy /\ inflight # {}
      BY <2>1 DEF BeginTx, commandVars
    <3> QED  BY <3>1, OtherPlanIsServed DEF OnTrack, Pending, OnItsWay, Place
  <2>2. CASE ExecIx
    <3>1. /\ UNCHANGED <<plan, scheme, view, ledger, undisturbed, pc, tx, next, outcome>>
          /\ exec.busy /\ exec'.busy
      BY <2>2 DEF ExecIx, commandVars, TypeOK
    <3> QED  BY <3>1, OtherPlanIsServed DEF OnTrack, Pending, OnItsWay, Place
  <2>3. ASSUME OnItsWay, pc' = pc, undisturbed' = undisturbed,
               undisturbed /\ pc = "confirm" => outcome' \in {"aborted", "expired"}
        PROVE  PlanIsServed'
    <3>1. ~(undisturbed' /\ OnTrack')
      BY <1>3, <2>3 DEF OnTrack
    <3> QED  BY <3>1 DEF PlanIsServed
  <2>4. ASSUME NEW t \in inflight, ExpireTx(t) PROVE PlanIsServed'
    <3>1. OnItsWay /\ UNCHANGED <<pc, undisturbed>> /\ Report(t, "expired")
      BY <2>4 DEF ExpireTx, OnItsWay
    <3>2. undisturbed => t.run = run
      BY <1>3, <3>1 DEF OnlyMine, Mine
    <3> QED  BY <2>3, <3>1, <3>2 DEF Report
  <2>5. CASE AbortTx
    <3>1. OnItsWay /\ UNCHANGED <<pc, undisturbed>> /\ Report(exec.tx, "aborted") /\ exec.busy
      BY <2>5 DEF AbortTx, OnItsWay
    <3>2. undisturbed => exec.tx.run = run
      BY <1>3, <3>1 DEF OnlyMine, Mine
    <3> QED  BY <2>3, <3>1, <3>2 DEF Report
  <2>6. CASE CommitTx
    BY <2>6, CommitServes
  <2> QED  BY <1>7, <2>1, <2>2, <2>4, <2>5, <2>6 DEF Runtime
<1>8. CASE World
  <2>1. ~undisturbed'
    BY <1>8 DEF World, AdvanceEpoch, FinishUpdate, MergeTransient, DepositSol, WithdrawSol,
                WithdrawStake, AddStake, RemoveValidator, ReplaceStaker, Interfere
  <2> QED  BY <2>1 DEF PlanIsServed
<1>9. CASE UNCHANGED vars
  <2>1. UNCHANGED <<plan, scheme, view, ledger, undisturbed, pc, tx, next, outcome, inflight,
                    exec>>
    BY <1>9 DEF vars, chainVars, commandVars
  <2> QED  BY <2>1, OtherPlanIsServed DEF OnTrack, Pending, OnItsWay, Place
<1> QED  BY <1>1, <1>2, <1>4, <1>5, <1>6, <1>7, <1>8, <1>9 DEF Next, Command

\* Before the first run nothing is read or planned, and the pool is as it is found.
LEMMA InitSettledInv ==
    ASSUME TransientsFormed, SupplyFits
    PROVE  Init => SettledInv
<1> SUFFICES ASSUME Init PROVE SettledInv
  OBVIOUS
<1>1. /\ ledger \in InitialLedgers /\ interference = 0 /\ exec = Idle /\ pc = "idle"
      /\ view.stake = [v \in Validators |-> 0] /\ view.tsa = [v \in Validators |-> NoTsa]
      /\ plan = <<>> /\ tx = <<>> /\ undisturbed = FALSE
  BY DEF Init
<1>2. ~exec.busy /\ exec.ledger.tsa = [v \in Validators |-> NoTsa]
  BY <1>1 DEF Idle
<1>3. Formed(NoTsa) /\ NoTsa.stake = 0
  BY DEF Formed, NoTsa
<1>4. LedgersSound
  BY <1>1, <1>2, <1>3 DEF LedgersSound, SupplyFits, TransientsFormed
<1>5. ViewSound
  BY <1>1, <1>3, ConstantsType DEF ViewSound, Total, Running
<1> QED
  BY <1>1, <1>4, <1>5 DEF SettledInv, PlanFollowsView, ChunkIsPlanned, PlanIsServed

\* After an undisturbed run that ended, every validator it could serve has its target, or
\* exceeds it by less than what is too little to split off, for every pool, chunk size and
\* request that names no validator twice, as long as the lamports of the pool fit u64.
THEOREM SettledCorrect ==
    ASSUME DistinctRequests, TransientsFormed, SupplyFits
    PROVE  Spec => []SettledAfterRun
<1>1. TypeOK /\ TypeOK' /\ PlanInv /\ RunInv /\ SettledInv /\ [Next]_vars => SettledInv'
  BY NextLedgersSound, NextViewSound, NextFollowsView, NextPlanIsServed DEF SettledInv
<1>2. ASSUME TypeOK, RunInv, SettledInv PROVE SettledAfterRun
  <2> SUFFICES ASSUME pc = "done", undisturbed, NEW i \in DOMAIN plan PROVE Served(i)
    BY DEF SettledAfterRun, Served
  <2>1. ~OnItsWay
    BY <1>2 DEF RunInv, Alone, OnlyMine
  <2>2. ~Pending(i)
    BY <2>1 DEF Pending
  <2> QED  BY <1>2, <2>2 DEF SettledInv, PlanIsServed, OnTrack
<1> QED  BY <1>1, <1>2, InitSettledInv, RunCorrect, PlanCorrect, PTL DEF Spec
=============================================================================
