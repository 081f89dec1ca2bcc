----------------------- MODULE SyncValidatorList_proofs -----------------------
(***************************************************************************)
(* Proofs about SyncValidatorList, for any validators, configs, pools,     *)
(* sizes of the chunks and bounds: its types, that every step of it is one *)
(* that ListSync allows, what an undisturbed run achieves, and that it is  *)
(* not refused anything.                                                   *)
(***************************************************************************)
EXTENDS SyncValidatorList, FoldLemmas, FiniteSetTheorems

-----------------------------------------------------------------------------
(* Instructions and transactions.                                          *)

\* What a transaction is executed on, and one instruction of it.
Execution == [ok : BOOLEAN, pool : Pool, seeds : SUBSET {0}]
ExecuteOne(e, ix) ==
    IF e.ok /\ Accepts(e, ix)
    THEN [ok    |-> TRUE, pool |-> Effect(e.pool, ix),
          seeds |-> IF ix.kind = "Decrease" THEN e.seeds \cup {ix.seed} ELSE e.seeds]
    ELSE [e EXCEPT !.ok = FALSE]

\* The program accepts an instruction on a pool, if the transaction got that far.
Allowed(p, ix) == \E e \in Execution : e.pool = p /\ Accepts(e, ix)

\* The instructions of a transaction take a pool from state to state.
Performs(pools, ixs) ==
    /\ pools \in [0 .. Len(ixs) -> Pool]
    /\ \A i \in 1 .. Len(ixs) : Allowed(pools[i - 1], ixs[i])
                                /\ pools[i] = Effect(pools[i - 1], ixs[i])

\* An instruction that is accepted leaves a pool.
LEMMA EffectType ==
    ASSUME epoch \in 0 .. MaxEpoch, NEW p \in Pool, NEW ix \in Ix, Allowed(p, ix)
    PROVE  Effect(p, ix) \in Pool
<1>0. p.list \in [Votes -> Entry] /\ p.reserve \in Nat /\ NewVsa \in Nat /\ Rent \in Nat
      /\ ix.amt \in Nat /\ MaxEpoch \in Nat
  BY ListConstants DEF Pool, Ix
<1>1. PICK e : e.pool = p /\ Accepts(e, ix)
  BY DEF Allowed
<1>2. CASE ix.kind = "Decrease"
  <2>1. Active(p, ix.vote) /\ p.list[ix.vote].vsa >= ix.amt + NewVsa /\ ix.vote \in Votes
    BY <1>1, <1>2 DEF Accepts, Ix
  <2>2. p.list[ix.vote] \in Entry
    BY <1>0, <2>1
  <2>3. p.list[ix.vote].vsa - ix.amt \in Nat
        /\ SatSub(p.list[ix.vote].active_stake_lamports, ix.amt) \in Nat
    BY <1>0, <2>1, <2>2 DEF Entry, SatSub
  <2> DEFINE f == [p.list[ix.vote] EXCEPT
                     !.vsa = p.list[ix.vote].vsa - ix.amt,
                     !.active_stake_lamports = SatSub(p.list[ix.vote].active_stake_lamports, ix.amt)]
  <2>4. f \in Entry
    BY <2>2, <2>3 DEF Entry
  <2>5. Effect(p, ix) = [p EXCEPT !.list = [p.list EXCEPT ![ix.vote] = f]]
    BY <1>0, <1>2, <2>1, <2>2 DEF Effect, Entry, Pool
  <2> QED  BY <1>0, <2>4, <2>5 DEF Pool
<1>3. CASE ix.kind = "Remove"
  <2>1. ix.vote \in Votes
    BY <1>3 DEF Ix
  <2>2. p.list[ix.vote] \in Entry
    BY <1>0, <2>1
  <2> DEFINE f == [p.list[ix.vote] EXCEPT !.status = "Deactivating", !.live = FALSE]
  <2>3. f \in Entry
    BY <2>2 DEF Entry, Statuses
  <2>4. Effect(p, ix) = [p EXCEPT !.list = [p.list EXCEPT ![ix.vote] = f],
                                  !.deposit = IF @ = ix.vote THEN None ELSE @,
                                  !.withdraw = IF @ = ix.vote THEN None ELSE @]
    BY <1>0, <1>3, <2>1, <2>2, ZenonT(60) DEF Effect, Entry, Pool
  <2>5. (IF p.deposit = ix.vote THEN None ELSE p.deposit) \in Votes \cup {None}
        /\ (IF p.withdraw = ix.vote THEN None ELSE p.withdraw) \in Votes \cup {None}
    BY DEF Pool
  <2>6. [p.list EXCEPT ![ix.vote] = f] \in [Votes -> Entry]
    BY <1>0, <2>3
  <2> HIDE DEF f
  <2> QED  BY <2>4, <2>5, <2>6 DEF Pool
<1>4. CASE ix.kind = "Add"
  <2>1. ix.vote \in Votes /\ p.reserve >= NewVsa + Rent
    BY <1>1, <1>4 DEF Accepts, Ix
  <2> DEFINE f == [NoEntry EXCEPT !.status = "Active", !.live = TRUE,
                                  !.active_stake_lamports = NewVsa, !.vsa = NewVsa,
                                  !.last_update_epoch = epoch]
  <2>2. f \in Entry
    <3>1. NoEntry \in Entry
      BY <1>0 DEF NoEntry, Entry, Statuses
    <3> QED  BY <1>0, <3>1 DEF Entry, Statuses
  <2>3. p.reserve - NewVsa \in Nat
    BY <1>0, <2>1
  <2>4. Effect(p, ix) = [p EXCEPT !.list = [p.list EXCEPT ![ix.vote] = f],
                                  !.reserve = p.reserve - NewVsa]
    BY <1>0, <1>4, <2>1 DEF Effect, Pool
  <2>5. [p.list EXCEPT ![ix.vote] = f] \in [Votes -> Entry]
    BY <1>0, <2>2
  <2> HIDE DEF f
  <2> QED  BY <2>3, <2>4, <2>5 DEF Pool
<1>5. CASE ix.kind = "PreferDeposit"
  <2>1. ix.vote \in Votes \cup {None}
    BY <1>5 DEF Ix
  <2> QED  BY <1>5, <2>1 DEF Effect, Pool
<1>6. CASE ix.kind = "PreferWithdraw"
  <2>1. ix.vote \in Votes \cup {None}
    BY <1>6 DEF Ix
  <2> QED  BY <1>6, <2>1 DEF Effect, Pool
<1> QED  BY <1>2, <1>3, <1>4, <1>5, <1>6 DEF Ix

\* An instruction leaves an execution.
LEMMA ExecuteOneType ==
    ASSUME epoch \in 0 .. MaxEpoch, NEW e \in Execution, NEW ix \in Ix
    PROVE  ExecuteOne(e, ix) \in Execution
<1>1. CASE e.ok /\ Accepts(e, ix)
  <2>1. Effect(e.pool, ix) \in Pool
    BY <1>1, EffectType DEF Execution, Allowed
  <2>2. ix.seed = 0
    BY DEF Ix
  <2> QED  BY <1>1, <2>1, <2>2 DEF ExecuteOne, Execution
<1>2. CASE ~(e.ok /\ Accepts(e, ix))
  BY <1>2 DEF ExecuteOne, Execution
<1> QED  BY <1>1, <1>2

\* A transaction runs instruction by instruction.
Executing(run, p, ixs) ==
    /\ run \in [0 .. Len(ixs) -> Execution]
    /\ run[0] = [ok |-> TRUE, pool |-> p, seeds |-> {}] /\ Execute(p, ixs) = run[Len(ixs)]
    /\ \A i \in 1 .. Len(ixs) : run[i] = ExecuteOne(run[i - 1], ixs[i])

\* A transaction can be followed from instruction to instruction.
LEMMA ExecuteRun ==
    ASSUME epoch \in 0 .. MaxEpoch, NEW p \in Pool, NEW ixs \in Seq(Ix)
    PROVE  \E run : Executing(run, p, ixs)
<1> DEFINE n == Len(ixs)
           b == [ok |-> TRUE, pool |-> p, seeds |-> {}]
           G == [i \in 1 .. n |-> [e \in Execution |-> ExecuteOne(e, ixs[i])]]
           P(c) == c = [ps \in SUBSET DOMAIN ixs |->
                          IF ps = {} THEN b ELSE ExecuteOne(c[ps \ {Max(ps)}], ixs[Max(ps)])]
           d == CHOOSE c : P(c)
<1>1. n \in Nat /\ DOMAIN ixs = 1 .. n /\ \A i \in 1 .. n : ixs[i] \in Ix
  OBVIOUS
<1>2. b \in Execution
  BY DEF Execution
<1>3. G \in [1 .. n -> [Execution -> Execution]]
  BY <1>1, ExecuteOneType
<1>4. Execute(p, ixs) = d[DOMAIN ixs]
  BY DEF Execute, ExecuteOne, FoldLeft, MapThenFoldSet
<1>5. \E c : P(c)
  <2> HIDE DEF G, n, b
  <2>1. PICK c : FoldsSets(c, n, Execution, b, G)
    BY <1>1, <1>2, <1>3, FoldExists DEF StepsWithin
  <2>2. ASSUME NEW ps \in SUBSET (1 .. n), ps # {}
        PROVE  /\ c[ps \ {Max(ps)}] \in Execution
               /\ G[Max(ps)][c[ps \ {Max(ps)}]] = ExecuteOne(c[ps \ {Max(ps)}], ixs[Max(ps)])
    <3>1. Max(ps) \in 1 .. n
      BY <1>1, <2>2, MaxInRange
    <3>2. c[ps \ {Max(ps)}] \in Execution
      BY <2>1 DEF FoldsSets
    <3> QED  BY <3>1, <3>2 DEF G
  <2>3. c = [ps \in SUBSET (1 .. n) |->
               IF ps = {} THEN b ELSE ExecuteOne(c[ps \ {Max(ps)}], ixs[Max(ps)])]
    BY <2>1, <2>2 DEF FoldsSets
  <2> QED  BY <1>1, <2>3
<1>6. P(d)
  BY <1>5, Zenon
<1>7. FoldsPrefixes(d, n, Execution, b, G)
  <2>1. d[{}] = b
    BY <1>6
  <2>2. ASSUME NEW i \in 1 .. n, d[1 .. (i - 1)] \in Execution
        PROVE  d[1 .. i] = G[i][d[1 .. (i - 1)]]
    <3>1. Max(1 .. i) = i /\ (1 .. i) \ {Max(1 .. i)} = 1 .. (i - 1) /\ 1 .. i # {}
      <4>1. i \in Nat \ {0}
        BY <1>1
      <4> QED  BY <4>1, MaxOfRange
    <3>2. 1 .. i \in SUBSET DOMAIN ixs
      BY <1>1
    <3>3. d[1 .. i] = ExecuteOne(d[1 .. (i - 1)], ixs[i])
      <4> HIDE DEF d
      <4> QED  BY <1>6, <3>1, <3>2
    <3>4. \A e \in Execution : G[i][e] = ExecuteOne(e, ixs[i])
      OBVIOUS
    <3> HIDE DEF d, G
    <3> QED  BY <2>2, <3>3, <3>4
  <2> HIDE DEF d, G, b
  <2> QED  BY <2>1, <2>2 DEF FoldsPrefixes
<1> HIDE DEF d, b
<1>8. PICK run : IsRun(run, n, Execution, b, G) /\ d[1 .. n] = run[n]
  <2>1. StepsWithin(G, n, Execution)
    BY <1>1, <1>3 DEF StepsWithin
  <2> HIDE DEF G, n
  <2>2. RunsTo(d[1 .. n], n, Execution, b, G)
    BY <1>2, <1>7, <2>1, FoldRun
  <2> QED  BY <2>2 DEF RunsTo
<1>9. \A i \in 1 .. n : run[i] = ExecuteOne(run[i - 1], ixs[i])
  <2> SUFFICES ASSUME NEW i \in 1 .. n
               PROVE  run[i] = ExecuteOne(run[i - 1], ixs[i])
    OBVIOUS
  <2>1. run[i - 1] \in Execution /\ run[i] = G[i][run[i - 1]]
    <3> HIDE DEF G, n
    <3>1. i - 1 \in 0 .. n
      BY <1>1
    <3> QED  BY <1>8, <3>1 DEF IsRun
  <2>2. \A e \in Execution : G[i][e] = ExecuteOne(e, ixs[i])
    OBVIOUS
  <2> HIDE DEF G
  <2> QED  BY <2>1, <2>2
<1>10. run \in [0 .. n -> Execution] /\ run[0] = b /\ Execute(p, ixs) = run[n]
  BY <1>1, <1>4, <1>8 DEF IsRun
<1> HIDE DEF G
<1>11. Executing(run, p, ixs)
  BY <1>9, <1>10 DEF Executing, b
<1> QED  BY <1>11

\* A transaction that is accepted takes the pool from state to state.
LEMMA ExecutePerforms ==
    ASSUME epoch \in 0 .. MaxEpoch, NEW p \in Pool, NEW ixs \in Seq(Ix), Execute(p, ixs).ok
    PROVE  \E pools : /\ Performs(pools, ixs)
                      /\ pools[0] = p /\ pools[Len(ixs)] = Execute(p, ixs).pool
<1>1. PICK run : Executing(run, p, ixs)
  BY ExecuteRun
<1> DEFINE n == Len(ixs)
           pools == [i \in 0 .. n |-> run[i].pool]
           T == {i \in 0 .. n : run[i].ok => \A j \in 0 .. i : run[j].ok}
<1>2. n \in Nat /\ run \in [0 .. n -> Execution] /\ run[n].ok /\ run[0].pool = p
      /\ run[n].pool = Execute(p, ixs).pool
      /\ \A i \in 1 .. n : run[i] = ExecuteOne(run[i - 1], ixs[i])
  BY <1>1 DEF Executing
<1> HIDE DEF n
<1>3. ASSUME NEW i \in 1 .. n, run[i].ok
      PROVE  /\ run[i - 1].ok /\ Accepts(run[i - 1], ixs[i])
             /\ run[i].pool = Effect(run[i - 1].pool, ixs[i])
  <2>1. i - 1 \in 0 .. n /\ run[i] = ExecuteOne(run[i - 1], ixs[i])
    BY <1>2
  <2>2. run[i - 1] \in Execution
    BY <1>2, <2>1
  <2>3. CASE run[i - 1].ok /\ Accepts(run[i - 1], ixs[i])
    BY <2>1, <2>3 DEF ExecuteOne
  <2>4. CASE ~(run[i - 1].ok /\ Accepts(run[i - 1], ixs[i]))
    <3>1. run[i] = [run[i - 1] EXCEPT !.ok = FALSE]
      BY <2>1, <2>4 DEF ExecuteOne
    <3>2. run[i].ok = FALSE
      BY <2>2, <3>1 DEF Execution
    <3> QED  BY <1>3, <3>2
  <2> QED  BY <2>3, <2>4
<1>4. 0 .. n \subseteq T
  <2>1. 0 \in T
    BY <1>2
  <2>2. ASSUME NEW i \in 1 .. n, i - 1 \in T
        PROVE  i \in T
    <3> SUFFICES ASSUME run[i].ok, NEW j \in 0 .. i
                 PROVE  run[j].ok
      BY <1>2
    <3>1. run[i - 1].ok
      BY <1>3
    <3>2. CASE j = i
      BY <3>2
    <3>3. CASE j # i
      BY <1>2, <2>2, <3>1, <3>3
    <3> QED  BY <3>2, <3>3
  <2> HIDE DEF T
  <2> QED  BY <1>2, <2>1, <2>2, Induction
<1>5. \A i \in 0 .. n : run[i].ok
  BY <1>2, <1>4
<1>6. pools \in [0 .. n -> Pool]
  BY <1>2 DEF Execution
<1>7. ASSUME NEW i \in 1 .. n
      PROVE  Allowed(pools[i - 1], ixs[i]) /\ pools[i] = Effect(pools[i - 1], ixs[i])
  <2>1. i - 1 \in 0 .. n /\ i \in 0 .. n
    BY <1>2
  <2>2. Accepts(run[i - 1], ixs[i]) /\ run[i].pool = Effect(run[i - 1].pool, ixs[i])
    BY <1>3, <1>5, <2>1
  <2>3. pools[i] = run[i].pool /\ pools[i - 1] = run[i - 1].pool /\ run[i - 1] \in Execution
    BY <1>2, <2>1
  <2> QED  BY <2>2, <2>3 DEF Allowed
<1>8. pools[0] = p /\ pools[n] = Execute(p, ixs).pool
  BY <1>2
<1> HIDE DEF pools
<1>9. Performs(pools, ixs)
  BY <1>6, <1>7 DEF Performs, n
<1> QED  BY <1>8, <1>9 DEF n

-----------------------------------------------------------------------------
(* Types.                                                                  *)

\* A run starts with nothing planned, and waits for no empty transaction.
PhaseInv ==
    /\ pc \in {"fetch_list", "update", "fetch_vsas"} =>
          phase = "remove" /\ half = None /\ tx = <<>>
    /\ pc = "confirm" => tx # <<>>

\* The types, and what they rest on.
TypeInv == TypeOK /\ PhaseInv

\* Helpers of the command.
LEMMA PlanType ==
    ASSUME TypeOK, NEW v \in Votes
    PROVE  /\ LamportsToDecrease(v) \in Nat
           /\ Instruction("Decrease", v, LamportsToDecrease(v)) \in Ix
           /\ Instruction("Remove", v, 0) \in Ix
           /\ Instruction("Add", v, 0) \in Ix
           /\ v # None
<1>1. seen.list[v] \in Entry /\ NewVsa \in Nat
  BY ListConstants DEF TypeOK
<1>2. LamportsToDecrease(v) \in Nat
  BY <1>1 DEF LamportsToDecrease, SatSub, Entry
<1> QED  BY <1>2, ListConstants DEF Instruction, Ix

\* The instructions that set the preferred validators.
PreferIxs == (IF seen.deposit # config.deposit
              THEN <<Instruction("PreferDeposit", config.deposit, 0)>> ELSE <<>>)
             \o (IF seen.withdraw # config.withdraw
                 THEN <<Instruction("PreferWithdraw", config.withdraw, 0)>> ELSE <<>>)

\* They are one or two, each for what it is to set.
LEMMA PreferType ==
    ASSUME TypeOK
    PROVE  /\ PreferIxs \in Seq(Ix)
           /\ \A i \in 1 .. Len(PreferIxs) :
                 \/ PreferIxs[i].kind = "PreferDeposit" /\ PreferIxs[i].vote = config.deposit
                 \/ PreferIxs[i].kind = "PreferWithdraw" /\ PreferIxs[i].vote = config.withdraw
<1> DEFINE d == Instruction("PreferDeposit", config.deposit, 0)
           w == Instruction("PreferWithdraw", config.withdraw, 0)
<1>1. /\ d \in Ix /\ w \in Ix
      /\ d.kind = "PreferDeposit" /\ d.vote = config.deposit
      /\ w.kind = "PreferWithdraw" /\ w.vote = config.withdraw
  BY DEF TypeOK, Config, Instruction, Ix
<1> HIDE DEF d, w
<1>2. PICK a \in {<<>>, <<d>>}, b \in {<<>>, <<w>>} : PreferIxs = a \o b
  BY DEF PreferIxs, d, w
<1>3. /\ a \in Seq(Ix) /\ b \in Seq(Ix)
      /\ \A i \in 1 .. Len(a) : a[i] = d
      /\ \A i \in 1 .. Len(b) : b[i] = w
  <2>1. <<>> \in Seq(Ix) /\ Len(<<>>) = 0
    OBVIOUS
  <2>2. \A x \in Ix : <<x>> \in Seq(Ix) /\ Len(<<x>>) = 1 /\ \A i \in 1 .. 1 : <<x>>[i] = x
    OBVIOUS
  <2>3. \A i \in 1 .. 0 : FALSE
    OBVIOUS
  <2>4. CASE a = <<>>
    <3>1. a \in Seq(Ix) /\ \A i \in 1 .. Len(a) : a[i] = d
      BY <2>1, <2>3, <2>4
    <3>2. b \in Seq(Ix) /\ \A i \in 1 .. Len(b) : b[i] = w
      BY <1>1, <2>1, <2>2, <2>3
    <3> QED  BY <3>1, <3>2
  <2>5. CASE a = <<d>>
    <3>1. a \in Seq(Ix) /\ \A i \in 1 .. Len(a) : a[i] = d
      BY <1>1, <2>2, <2>5
    <3>2. b \in Seq(Ix) /\ \A i \in 1 .. Len(b) : b[i] = w
      BY <1>1, <2>1, <2>2, <2>3
    <3> QED  BY <3>1, <3>2
  <2> QED  BY <2>4, <2>5
<1>4. a \o b \in Seq(Ix)
      /\ \A i \in 1 .. Len(a \o b) : (a \o b)[i] = d \/ (a \o b)[i] = w
  <2>1. Len(a \o b) = Len(a) + Len(b) /\ Len(a) \in Nat /\ Len(b) \in Nat
    BY <1>3
  <2>2. ASSUME NEW i \in 1 .. (Len(a) + Len(b))
        PROVE  (a \o b)[i] = d \/ (a \o b)[i] = w
    <3>1. CASE i <= Len(a)
      BY <1>3, <2>1, <3>1
    <3>2. CASE ~(i <= Len(a))
      <4>1. (a \o b)[i] = b[i - Len(a)] /\ i - Len(a) \in 1 .. Len(b)
        BY <1>3, <2>1, <3>2
      <4> QED  BY <1>3, <4>1
    <3> QED  BY <3>1, <3>2
  <2> QED  BY <1>3, <2>1, <2>2
<1> QED  BY <1>1, <1>2, <1>4

\* What an update makes of an entry.
LEMMA RefreshedType ==
    ASSUME TypeOK, NEW e \in Entry
    PROVE  /\ Refreshed(e) \in Entry
           /\ Refreshed(e).status = IF e.status = "Active" THEN "Active" ELSE "Absent"
<1>1. MaxEpoch \in Nat /\ epoch \in 0 .. MaxEpoch /\ epoch \in Int
  BY ListConstants DEF TypeOK
<1>2. NoEntry \in Entry /\ NoEntry.status = "Absent"
  BY <1>1 DEF NoEntry, Entry, Statuses
<1> DEFINE m == IF e.since < epoch THEN e.activating ELSE 0
<1>3. m \in Nat /\ e.activating - m \in Nat /\ e.vsa + m \in Nat
  BY <1>1 DEF Entry
<1>4. Refreshed(e) = IF e.status # "Active" THEN NoEntry
                     ELSE [e EXCEPT !.vsa = e.vsa + m, !.activating = e.activating - m,
                                    !.active_stake_lamports = e.vsa + m,
                                    !.last_update_epoch = epoch]
  BY DEF Refreshed, Entry
<1> HIDE DEF m
<1>5. CASE e.status = "Active"
  BY <1>1, <1>3, <1>4, <1>5 DEF Entry
<1>6. CASE e.status # "Active"
  BY <1>2, <1>4, <1>6
<1> QED  BY <1>5, <1>6

\* The initial states have their types.
LEMMA InitType ==
    ASSUME Init
    PROVE  TypeInv
<1>1. MaxEpoch \in Nat \ {0}
  BY ListConstants
<1>2. NoEntry \in Entry
  BY <1>1 DEF NoEntry, Entry, Statuses
<1>3. seen \in [epoch : 0 .. MaxEpoch, poolEpoch : 0 .. MaxEpoch, list : [Votes -> Entry],
                deposit : Votes \cup {None}, withdraw : Votes \cup {None}]
  BY <1>1, <1>2 DEF Init, NoPool
<1>4. pool \in Pool /\ config \in Config
  BY ListConstants DEF Init
<1>5. epoch \in 1 .. MaxEpoch /\ poolEpoch \in 0 .. MaxEpoch
      /\ interference \in 0 .. MaxInterference /\ losses \in 0 .. MaxLosses
  BY <1>1, ListConstants DEF Init
<1>6. pc \in Ended /\ half \in toRemove \cup {None} /\ toRemove \subseteq Votes
      /\ toAdd \subseteq Votes /\ undisturbed \in BOOLEAN
  BY DEF Init, Ended
<1>7. late \subseteq Seq(Ix) /\ tx \in Seq(Ix) /\ Len(tx) <= MaxRemoveIxs /\ phase = "remove"
  BY ListConstants DEF Init
<1>8. TypeOK
  BY <1>3, <1>4, <1>5, <1>6, <1>7 DEF TypeOK
<1> QED  BY <1>8 DEF TypeInv, PhaseInv, Init

\* Other users and time leave a pool with the same validators in it.
LEMMA OthersStep ==
    ASSUME TypeInv, AdvanceEpoch \/ \E v \in Votes : DepositStake(v) \/ DeactivateDelinquent(v)
    PROVE  /\ TypeInv'
           /\ \A v \in Votes : pool'.list[v].status = pool.list[v].status
           /\ pool'.deposit = pool.deposit /\ pool'.withdraw = pool.withdraw
<1>0. TypeOK /\ PhaseInv /\ pool \in Pool /\ Extra \in Nat
      /\ \A v \in Votes : pool.list[v] \in Entry
  BY ListConstants DEF TypeInv, TypeOK, Pool
<1>1. PICK l \in [Votes -> Entry] :
         /\ pool' = [pool EXCEPT !.list = l]
         /\ \A v \in Votes : l[v].status = pool.list[v].status
  <2>1. CASE AdvanceEpoch
    <3>1. PICK rewarded \in SUBSET Votes :
             pool' = [pool EXCEPT !.list =
                     [v \in Votes |-> IF v \in rewarded
                                      THEN [pool.list[v] EXCEPT !.vsa = @ + Extra]
                                      ELSE pool.list[v]]]
      BY <2>1, ListConstants DEF AdvanceEpoch
    <3> DEFINE l == [v \in Votes |-> IF v \in rewarded
                                     THEN [pool.list[v] EXCEPT !.vsa = @ + Extra]
                                     ELSE pool.list[v]]
    <3>2. \A v \in Votes : l[v] \in Entry /\ l[v].status = pool.list[v].status
      BY <1>0 DEF Entry
    <3>3. l \in [Votes -> Entry]
      BY <3>2
    <3> HIDE DEF l
    <3> QED  BY <3>1, <3>2, <3>3 DEF l
  <2>2. ASSUME NEW v \in Votes, DepositStake(v)
        PROVE  \E l \in [Votes -> Entry] :
                 /\ pool' = [pool EXCEPT !.list = l]
                 /\ \A u \in Votes : l[u].status = pool.list[u].status
    <3> DEFINE f == [pool.list[v] EXCEPT
                       !.vsa = pool.list[v].vsa + Extra,
                       !.active_stake_lamports = pool.list[v].active_stake_lamports + Extra]
               l == [pool.list EXCEPT ![v] = f]
    <3>1. f \in Entry /\ f.status = pool.list[v].status
      <4>1. \A e \in Entry : e.vsa + Extra \in Nat /\ e.active_stake_lamports + Extra \in Nat
        BY <1>0 DEF Entry
      <4> QED  BY <1>0, <4>1 DEF Entry
    <3>2. pool' = [pool EXCEPT !.list = l]
      BY <1>0, <2>2 DEF DepositStake, Pool, Entry
    <3> HIDE DEF f
    <3>3. l \in [Votes -> Entry] /\ \A u \in Votes : l[u].status = pool.list[u].status
      BY <1>0, <3>1 DEF Pool
    <3> QED  BY <3>2, <3>3
  <2>3. ASSUME NEW v \in Votes, DeactivateDelinquent(v)
        PROVE  \E l \in [Votes -> Entry] :
                 /\ pool' = [pool EXCEPT !.list = l]
                 /\ \A u \in Votes : l[u].status = pool.list[u].status
    <3> DEFINE f == [pool.list[v] EXCEPT !.live = FALSE]
               l == [pool.list EXCEPT ![v] = f]
    <3>1. f \in Entry /\ f.status = pool.list[v].status
      BY <1>0 DEF Entry
    <3>2. pool' = [pool EXCEPT !.list = l]
      BY <1>0, <2>3 DEF DeactivateDelinquent, Pool, Entry
    <3> HIDE DEF f
    <3>3. l \in [Votes -> Entry] /\ \A u \in Votes : l[u].status = pool.list[u].status
      BY <1>0, <3>1 DEF Pool
    <3> QED  BY <3>2, <3>3
  <2> QED  BY <2>1, <2>2, <2>3
<1>2. pool' \in Pool /\ (\A v \in Votes : pool'.list[v].status = pool.list[v].status)
      /\ pool'.deposit = pool.deposit /\ pool'.withdraw = pool.withdraw
  BY <1>0, <1>1 DEF Pool
<1>3. UNCHANGED <<late, losses, command>> /\ undisturbed' = FALSE /\ poolEpoch' = poolEpoch
      /\ epoch' \in 1 .. MaxEpoch /\ interference' \in 0 .. MaxInterference
  <2>0. /\ epoch \in 1 .. MaxEpoch /\ MaxEpoch \in Nat
        /\ interference \in 0 .. MaxInterference /\ MaxInterference \in Nat
    BY <1>0, ListConstants DEF TypeOK
  <2>1. CASE AdvanceEpoch
    <3>1. /\ epoch < MaxEpoch /\ epoch' = epoch + 1 /\ undisturbed' = FALSE
          /\ UNCHANGED <<late, losses, command, poolEpoch, interference>>
      BY <2>1 DEF AdvanceEpoch, Others
    <3> QED  BY <2>0, <3>1
  <2>2. CASE Interfere
    <3>1. /\ interference < MaxInterference /\ interference' = interference + 1
          /\ undisturbed' = FALSE /\ UNCHANGED <<late, losses, command, poolEpoch, epoch>>
      BY <2>2 DEF Interfere, Others
    <3> QED  BY <2>0, <3>1
  <2> QED  BY <2>1, <2>2 DEF DepositStake, DeactivateDelinquent
<1> QED  BY <1>0, <1>2, <1>3 DEF command, TypeInv, TypeOK, PhaseInv

\* A step of the command keeps the types.
LEMMA StepType ==
    ASSUME TypeInv, Step
    PROVE  TypeInv'
<1>0. TypeOK /\ PhaseInv
  BY DEF TypeInv
<1>1. CASE FetchPool
  <2>1. NoPool.list \in [Votes -> Entry]
    BY ListConstants DEF NoPool, NoEntry, Entry, Statuses
  <2>2. seen' \in [epoch : 0 .. MaxEpoch, poolEpoch : 0 .. MaxEpoch, list : [Votes -> Entry],
                   deposit : Votes \cup {None}, withdraw : Votes \cup {None}]
    <3>1. pool.deposit \in Votes \cup {None} /\ pool.withdraw \in Votes \cup {None}
      BY <1>0 DEF TypeOK, Pool
    <3>2. epoch \in 0 .. MaxEpoch /\ poolEpoch \in 0 .. MaxEpoch
      BY <1>0, ListConstants DEF TypeOK
    <3> QED  BY <1>1, <2>1, <3>1, <3>2 DEF FetchPool
  <2>3. pc' = "fetch_list" /\ phase' = "remove" /\ toRemove' = {} /\ toAdd' = {} /\ half' = None
        /\ tx' = <<>> /\ undisturbed' = TRUE /\ UNCHANGED <<chain, config>>
    BY <1>1 DEF FetchPool
  <2>4. tx' \in Seq(Ix) /\ Len(tx') <= MaxRemoveIxs
    BY <2>3, ListConstants
  <2> QED  BY <1>0, <2>2, <2>3, <2>4 DEF chain, TypeInv, TypeOK, PhaseInv, Alive
<1>2. CASE FetchList
  <2>1. pool.list \in [Votes -> Entry]
    BY <1>0 DEF TypeOK, Pool
  <2>2. seen' \in [epoch : 0 .. MaxEpoch, poolEpoch : 0 .. MaxEpoch, list : [Votes -> Entry],
                   deposit : Votes \cup {None}, withdraw : Votes \cup {None}]
    BY <1>0, <1>2, <2>1 DEF FetchList, TypeOK
  <2>3. pc = "fetch_list" /\ pc' = "update"
        /\ UNCHANGED <<chain, config, phase, toRemove, toAdd, half, tx, undisturbed>>
    BY <1>2 DEF FetchList
  <2> QED  BY <1>0, <2>2, <2>3 DEF chain, TypeInv, TypeOK, PhaseInv, Alive
<1>3. CASE UpdateNotRequired
  BY <1>0, <1>3 DEF UpdateNotRequired, chain, TypeInv, TypeOK, PhaseInv, Alive
<1>4. CASE UpdatePool
  <2>1. pool' \in Pool
    <3>1. \A v \in Votes : Refreshed(pool.list[v]) \in Entry
      BY <1>0, RefreshedType DEF TypeOK, Pool
    <3>2. [v \in Votes |-> Refreshed(pool.list[v])] \in [Votes -> Entry]
      BY <3>1
    <3> QED  BY <1>0, <1>4, <3>2 DEF UpdatePool, TypeOK, Pool
  <2>2. epoch \in 0 .. MaxEpoch
    BY <1>0, ListConstants DEF TypeOK
  <2> QED  BY <1>0, <1>4, <2>1, <2>2 DEF UpdatePool, TypeInv, TypeOK, PhaseInv, Alive
<1>5. CASE FetchVsas
  <2>1. toAdd' \subseteq Votes /\ toRemove' \subseteq Votes
    BY <1>0, <1>5 DEF FetchVsas, TypeOK, Config
  <2>2. seen' \in [epoch : 0 .. MaxEpoch, poolEpoch : 0 .. MaxEpoch, list : [Votes -> Entry],
                   deposit : Votes \cup {None}, withdraw : Votes \cup {None}]
    <3>1. CASE UNCHANGED seen
      BY <1>0, <3>1 DEF TypeOK
    <3>2. CASE seen' = [seen EXCEPT !.list =
                  [v \in Votes |-> [seen.list[v] EXCEPT !.live = pool.list[v].live]]]
      <4>1. \A v \in Votes : seen.list[v] \in Entry /\ pool.list[v] \in Entry
        BY <1>0 DEF TypeOK, Pool
      <4>2. \A v \in Votes : [seen.list[v] EXCEPT !.live = pool.list[v].live] \in Entry
        BY <4>1 DEF Entry
      <4> QED  BY <1>0, <3>2, <4>2 DEF TypeOK
    <3> QED  BY <1>5, <3>1, <3>2 DEF FetchVsas
  <2>3. half = None /\ phase = "remove" /\ pc' \in {"panicked", "plan"}
        /\ UNCHANGED <<chain, config, phase, half, tx, undisturbed>>
    BY <1>0, <1>5 DEF FetchVsas, PhaseInv
  <2>4. pc' \in Ended \cup Alive /\ half' \in toRemove' \cup {None}
        /\ pc' \notin {"fetch_list", "update", "fetch_vsas", "confirm"}
    BY <2>3 DEF Ended, Alive
  <2> QED  BY <1>0, <2>1, <2>2, <2>3, <2>4 DEF chain, TypeInv, TypeOK, PhaseInv
<1>6. ASSUME NEW v \in Votes, EmitDecrease(v)
      PROVE  TypeInv'
  <2>1. tx' = tx \o <<Instruction("Decrease", v, LamportsToDecrease(v))>> /\ pc = "plan"
        /\ Len(tx) < MaxRemoveIxs /\ v \in toRemove /\ half' = v
        /\ UNCHANGED <<chain, config, pc, phase, seen, toRemove, toAdd, undisturbed>>
    BY <1>6 DEF EmitDecrease, RoomToRemove, Emit
  <2>2. tx' \in Seq(Ix) /\ Len(tx') = Len(tx) + 1
    BY <1>0, <2>1, PlanType DEF TypeOK
  <2>3. Len(tx') <= MaxRemoveIxs
    <3>1. Len(tx) \in Nat /\ MaxRemoveIxs \in Nat
      BY <1>0, ListConstants DEF TypeOK
    <3> QED  BY <2>1, <2>2, <3>1
  <2> QED  BY <1>0, <2>1, <2>2, <2>3 DEF chain, TypeInv, TypeOK, PhaseInv
<1>7. ASSUME NEW v \in Votes, EmitRemove(v)
      PROVE  TypeInv'
  <2>1. tx' = tx \o <<Instruction("Remove", v, 0)>> /\ pc = "plan"
        /\ Len(tx) < MaxRemoveIxs /\ toRemove' = toRemove \ {v} /\ half' = None
        /\ UNCHANGED <<chain, config, pc, phase, seen, toAdd, undisturbed>>
    BY <1>7 DEF EmitRemove, RoomToRemove, Emit
  <2>2. tx' \in Seq(Ix) /\ Len(tx') = Len(tx) + 1
    BY <1>0, <2>1, PlanType DEF TypeOK
  <2>3. Len(tx') <= MaxRemoveIxs
    <3>1. Len(tx) \in Nat /\ MaxRemoveIxs \in Nat
      BY <1>0, ListConstants DEF TypeOK
    <3> QED  BY <2>1, <2>2, <3>1
  <2> QED  BY <1>0, <2>1, <2>2, <2>3 DEF chain, TypeInv, TypeOK, PhaseInv
<1>8. ASSUME NEW v \in Votes, EmitAdd(v)
      PROVE  TypeInv'
  <2>1. tx' = tx \o <<Instruction("Add", v, 0)>> /\ pc = "plan" /\ phase = "add"
        /\ toAdd' = toAdd \ {v}
        /\ UNCHANGED <<chain, config, pc, phase, seen, toRemove, half, undisturbed>>
    BY <1>8 DEF EmitAdd, Emit
  <2>2. tx' \in Seq(Ix)
    BY <1>0, <2>1, PlanType DEF TypeOK
  <2> QED  BY <1>0, <2>1, <2>2 DEF chain, TypeInv, TypeOK, PhaseInv
<1>9. CASE EmitPreferred
  <2>1. tx' = tx \o PreferIxs /\ pc = "plan" /\ phase' = "end"
        /\ UNCHANGED <<chain, config, pc, seen, toRemove, toAdd, half, undisturbed>>
    BY <1>9 DEF EmitPreferred, Emit, PreferIxs
  <2>2. tx' \in Seq(Ix)
    BY <1>0, <2>1, PreferType DEF TypeOK
  <2> QED  BY <1>0, <2>1, <2>2 DEF chain, TypeInv, TypeOK, PhaseInv
<1>10. CASE SendTx
  BY <1>0, <1>10 DEF SendTx, chain, TypeInv, TypeOK, PhaseInv, Alive
<1>11. CASE NextPhase
  <2>1. /\ pc = "plan" /\ tx = <<>> /\ pc' \in {"plan", "done"}
        /\ phase' \in {"remove", "add", "prefer", "end"}
        /\ UNCHANGED <<chain, config, seen, toRemove, toAdd, half, tx, undisturbed>>
    BY <1>0, <1>11 DEF NextPhase, TypeOK
  <2>2. Len(tx) <= MaxRemoveIxs
    BY <2>1, ListConstants
  <2> QED  BY <1>0, <2>1, <2>2 DEF chain, TypeInv, TypeOK, PhaseInv, Ended, Alive
<1> QED  BY <1>1, <1>2, <1>3, <1>4, <1>5, <1>6, <1>7, <1>8, <1>9, <1>10, <1>11 DEF Step

\* The pool that an accepted transaction leaves is a pool.
LEMMA ExecuteType ==
    ASSUME TypeOK, NEW ixs \in Seq(Ix), Execute(pool, ixs).ok
    PROVE  Execute(pool, ixs).pool \in Pool
<1>1. pool \in Pool /\ epoch \in 0 .. MaxEpoch
  <2>1. pool \in Pool /\ epoch \in 1 .. MaxEpoch
    BY DEF TypeOK
  <2> QED  BY <2>1
<1>2. PICK pools : Performs(pools, ixs) /\ pools[Len(ixs)] = Execute(pool, ixs).pool
  BY <1>1, ExecutePerforms
<1>3. Len(ixs) \in Nat
  OBVIOUS
<1> QED  BY <1>2, <1>3 DEF Performs

\* A transaction that is accepted keeps the types,
LEMMA CommitType ==
    ASSUME TypeInv, CommitTx
    PROVE  TypeInv'
<1>0. TypeOK /\ PhaseInv
  BY DEF TypeInv
<1>1. pool' \in Pool
  BY <1>0, ExecuteType DEF CommitTx, TypeOK
<1>2. /\ pc' = "plan" /\ tx' = <<>>
      /\ UNCHANGED <<epoch, poolEpoch, late, interference, losses, undisturbed>>
      /\ UNCHANGED <<config, phase, seen, toRemove, toAdd, half>>
  BY DEF CommitTx
<1>3. tx' \in Seq(Ix) /\ Len(tx') <= MaxRemoveIxs
  <2>1. <<>> \in Seq(Ix) /\ Len(<<>>) = 0 /\ MaxRemoveIxs \in Nat
    BY ListConstants
  <2> QED  BY <1>2, <2>1
<1> QED  BY <1>0, <1>1, <1>2, <1>3 DEF TypeInv, TypeOK, PhaseInv, Alive

\* also when nobody waits for it any more.
LEMMA LateType ==
    ASSUME TypeInv, NEW t \in late, LandLate(t) \/ DropLate(t)
    PROVE  TypeInv'
<1>0. TypeOK /\ PhaseInv
  BY DEF TypeInv
<1>1. pool' \in Pool
  <2>1. CASE LandLate(t)
    BY <1>0, <2>1, ExecuteType DEF LandLate, TypeOK
  <2>2. CASE DropLate(t)
    BY <1>0, <2>2 DEF DropLate, TypeOK
  <2> QED  BY <2>1, <2>2
<1>2. late' \subseteq Seq(Ix) /\ undisturbed' \in BOOLEAN
  BY <1>0 DEF LandLate, DropLate, TypeOK
<1>3. UNCHANGED <<epoch, poolEpoch, interference, losses, command>>
  BY DEF LandLate, DropLate
<1> QED  BY <1>0, <1>1, <1>2, <1>3 DEF command, TypeInv, TypeOK, PhaseInv

\* So does every step.
LEMMA TypeStep ==
    ASSUME TypeInv, [Next]_vars
    PROVE  TypeInv'
<1>0. TypeOK /\ PhaseInv
  BY DEF TypeInv
<1>1. CASE Crash
  <2>1. losses' \in 0 .. MaxLosses
    <3>1. losses \in Nat /\ MaxLosses \in Nat
      BY <1>0, ListConstants DEF TypeOK
    <3>2. losses < MaxLosses /\ losses' = losses + 1
      BY <1>1 DEF Crash
    <3> QED  BY <3>1, <3>2
  <2>2. pc' = "dead" /\ late' \subseteq Seq(Ix)
        /\ UNCHANGED <<epoch, poolEpoch, pool, interference, config, phase, seen,
                       toRemove, toAdd, half, tx, undisturbed>>
    BY <1>0, <1>1 DEF Crash, TypeOK
  <2> QED  BY <1>0, <2>1, <2>2 DEF TypeInv, TypeOK, PhaseInv, Ended, Alive
<1>2. CASE AbortTx \/ LoseTx
  <2>1. pc' = "panicked"
        /\ UNCHANGED <<epoch, poolEpoch, pool, late, interference>>
        /\ UNCHANGED <<config, phase, seen, toRemove, toAdd, half, tx>>
    BY <1>2 DEF AbortTx, LoseTx, chain
  <2>2. losses' \in 0 .. MaxLosses /\ undisturbed' \in BOOLEAN
    <3>1. CASE AbortTx
      BY <1>0, <3>1 DEF AbortTx, chain, TypeOK
    <3>2. CASE LoseTx
      <4>1. losses \in Nat /\ MaxLosses \in Nat
        BY <1>0, ListConstants DEF TypeOK
      <4>2. losses < MaxLosses /\ losses' = losses + 1 /\ undisturbed' = FALSE
        BY <3>2 DEF LoseTx
      <4>3. losses' \in 0 .. MaxLosses
        BY <4>1, <4>2
      <4> QED  BY <4>2, <4>3
    <3> QED  BY <1>2, <3>1, <3>2
  <2> QED  BY <1>0, <2>1, <2>2 DEF TypeInv, TypeOK, PhaseInv, Ended, Alive
<1>3. CASE UNCHANGED vars
  BY <1>0, <1>3 DEF vars, chain, command, TypeInv, TypeOK, PhaseInv
<1> QED  BY <1>1, <1>2, <1>3, StepType, CommitType, LateType, OthersStep DEF Next, Runtime

\* The variables keep their types, and no chunk is larger than its transaction can hold.
THEOREM TypeCorrect == Spec => []TypeOK
<1>1. Init => TypeInv
  BY InitType
<1>2. TypeInv /\ [Next]_vars => TypeInv'
  BY TypeStep
<1>3. TypeInv => TypeOK
  BY DEF TypeInv
<1> QED  BY <1>1, <1>2, <1>3, PTL DEF Spec

-----------------------------------------------------------------------------
(* What transactions do to the list of validators.                         *)

\* Validators of the pool that the config does not name.
Unwanted(p) == {v \in Votes \ config.validators : p.list[v].status = "Active"}

\* Each transaction of the command is of one kind.
Removes(ixs) ==
    \A i \in 1 .. Len(ixs) : /\ ixs[i].kind \in {"Decrease", "Remove"}
                             /\ ixs[i].vote \in Votes \ config.validators
Adds(ixs) ==
    \A i \in 1 .. Len(ixs) : ixs[i].kind = "Add" /\ ixs[i].vote \in config.validators
Prefers(ixs) ==
    \A i \in 1 .. Len(ixs) :
        \/ ixs[i].kind = "PreferDeposit" /\ ixs[i].vote = config.deposit
        \/ ixs[i].kind = "PreferWithdraw" /\ ixs[i].vote = config.withdraw

\* What a pool q is that was p before some validators were removed, added or preferred.
Gone(p, q) == {v \in Votes : p.list[v].status = "Active" /\ q.list[v].status # "Active"}
AfterRemoval(p, q) ==
    /\ \A v \in Votes : \/ q.list[v].status = p.list[v].status
                        \/ /\ v \notin config.validators /\ p.list[v].status = "Active"
                           /\ q.list[v].status = "Deactivating"
    /\ q.deposit = IF p.deposit \in Gone(p, q) THEN None ELSE p.deposit
    /\ q.withdraw = IF p.withdraw \in Gone(p, q) THEN None ELSE p.withdraw
AfterAddition(p, q) ==
    /\ \A v \in Votes : \/ q.list[v].status = p.list[v].status
                        \/ /\ v \in config.validators /\ p.list[v].status = "Absent"
                           /\ q.list[v].status = "Active"
    /\ q.deposit = p.deposit /\ q.withdraw = p.withdraw
AfterPreference(p, q) ==
    /\ \A v \in Votes : q.list[v].status = p.list[v].status
    /\ \/ q.deposit = p.deposit
       \/ q.deposit = config.deposit /\ (config.deposit = None \/ Active(p, config.deposit))
    /\ \/ q.withdraw = p.withdraw
       \/ q.withdraw = config.withdraw /\ (config.withdraw = None \/ Active(p, config.withdraw))

\* What one instruction does to the list.
LEMMA EffectOnList ==
    ASSUME NEW p \in Pool, NEW ix \in Ix, Allowed(p, ix)
    PROVE  LET q == Effect(p, ix)
               v == ix.vote
           IN  \/ /\ ix.kind = "Decrease"
                  /\ \A u \in Votes : q.list[u].status = p.list[u].status
                  /\ q.deposit = p.deposit /\ q.withdraw = p.withdraw
               \/ /\ ix.kind = "Remove" /\ p.list[v].status = "Active"
                  /\ q.list[v].status = "Deactivating"
                  /\ \A u \in Votes \ {v} : q.list[u].status = p.list[u].status
                  /\ q.deposit = IF p.deposit = v THEN None ELSE p.deposit
                  /\ q.withdraw = IF p.withdraw = v THEN None ELSE p.withdraw
               \/ /\ ix.kind = "Add" /\ p.list[v].status = "Absent"
                  /\ q.list[v].status = "Active"
                  /\ \A u \in Votes \ {v} : q.list[u].status = p.list[u].status
                  /\ q.deposit = p.deposit /\ q.withdraw = p.withdraw
               \/ /\ ix.kind = "PreferDeposit" /\ (v = None \/ Active(p, v))
                  /\ q.list = p.list /\ q.deposit = v /\ q.withdraw = p.withdraw
               \/ /\ ix.kind = "PreferWithdraw" /\ (v = None \/ Active(p, v))
                  /\ q.list = p.list /\ q.withdraw = v /\ q.deposit = p.deposit
<1>0. p.list \in [Votes -> Entry] /\ \A u \in Votes : p.list[u] \in Entry
  BY DEF Pool
<1>1. PICK e : e.pool = p /\ Accepts(e, ix)
  BY DEF Allowed
<1> DEFINE q == Effect(p, ix)
           v == ix.vote
<1>2. CASE ix.kind = "Decrease"
  <2>1. q = [p EXCEPT !.list[v].vsa = @ - ix.amt,
                      !.list[v].active_stake_lamports = SatSub(@, ix.amt)]
    BY <1>2 DEF Effect
  <2>2. (\A u \in Votes : q.list[u].status = p.list[u].status)
        /\ q.deposit = p.deposit /\ q.withdraw = p.withdraw
    <3> HIDE DEF q, v
    <3> QED  BY <1>0, <2>1 DEF Pool, Entry
  <2> QED  BY <1>2, <2>2
<1>3. CASE ix.kind = "Remove"
  <2>1. q = [p EXCEPT !.list[v].status = "Deactivating", !.list[v].live = FALSE,
                      !.deposit = IF @ = v THEN None ELSE @,
                      !.withdraw = IF @ = v THEN None ELSE @]
    BY <1>3 DEF Effect
  <2>2. v \in Votes /\ p.list[v].status = "Active"
    BY <1>1, <1>3 DEF Accepts, Active, Ix
  <2>3. /\ q.list[v].status = "Deactivating"
        /\ \A u \in Votes \ {v} : q.list[u].status = p.list[u].status
    <3> HIDE DEF q, v
    <3> QED  BY <1>0, <2>1, <2>2 DEF Pool, Entry
  <2>4. /\ q.deposit = IF p.deposit = v THEN None ELSE p.deposit
        /\ q.withdraw = IF p.withdraw = v THEN None ELSE p.withdraw
    <3> HIDE DEF q, v
    <3> QED  BY <1>0, <2>1, <2>2 DEF Pool
  <2> QED  BY <1>3, <2>2, <2>3, <2>4
<1>4. CASE ix.kind = "Add"
  <2> DEFINE f == [NoEntry EXCEPT !.status = "Active", !.live = TRUE,
                                  !.active_stake_lamports = NewVsa, !.vsa = NewVsa,
                                  !.last_update_epoch = epoch]
  <2>1. q = [p EXCEPT !.list[v] = f, !.reserve = @ - NewVsa]
    BY <1>4 DEF Effect
  <2>2. v \in Votes /\ p.list[v].status = "Absent"
    BY <1>1, <1>4 DEF Accepts, Ix
  <2>3. f.status = "Active"
    BY DEF NoEntry
  <2>4. /\ q.list[v].status = "Active" /\ q.deposit = p.deposit /\ q.withdraw = p.withdraw
        /\ \A u \in Votes \ {v} : q.list[u].status = p.list[u].status
    <3> HIDE DEF q, v, f
    <3> QED  BY <1>0, <2>1, <2>2, <2>3 DEF Pool
  <2> QED  BY <1>4, <2>2, <2>4
<1>5. CASE ix.kind = "PreferDeposit"
  <2>1. q = [p EXCEPT !.deposit = v] /\ (v = None \/ Active(p, v))
    BY <1>1, <1>5 DEF Effect, Accepts
  <2>2. q.list = p.list /\ q.deposit = v /\ q.withdraw = p.withdraw
    <3> HIDE DEF q, v
    <3> QED  BY <2>1 DEF Pool
  <2> QED  BY <1>5, <2>1, <2>2
<1>6. CASE ix.kind = "PreferWithdraw"
  <2>1. q = [p EXCEPT !.withdraw = v] /\ (v = None \/ Active(p, v))
    BY <1>1, <1>6 DEF Effect, Accepts
  <2>2. q.list = p.list /\ q.withdraw = v /\ q.deposit = p.deposit
    <3> HIDE DEF q, v
    <3> QED  BY <2>1 DEF Pool
  <2> QED  BY <1>6, <2>1, <2>2
<1> QED  BY <1>2, <1>3, <1>4, <1>5, <1>6 DEF Ix

\* Removals take away what they name and nothing else, and the preferences with it.
LEMMA RemovalInduction ==
    ASSUME NEW ixs \in Seq(Ix), Removes(ixs), NEW pools, Performs(pools, ixs),
           config \in Config
    PROVE  /\ AfterRemoval(pools[0], pools[Len(ixs)])
           /\ \A j \in 1 .. Len(ixs) : ixs[j].kind = "Remove" =>
                 pools[Len(ixs)].list[ixs[j].vote].status # "Active"
<1> DEFINE n == Len(ixs)
           Cleared(i) == \A j \in 1 .. i : ixs[j].kind = "Remove" =>
                            pools[i].list[ixs[j].vote].status # "Active"
           T == {i \in 0 .. n : AfterRemoval(pools[0], pools[i]) /\ Cleared(i)}
<1>1. n \in Nat /\ \A i \in 1 .. n : ixs[i] \in Ix
  OBVIOUS
<1>2. 0 \in T
  <2>1. pools[0] \in Pool /\ Gone(pools[0], pools[0]) = {}
    BY <1>1 DEF Performs, Gone
  <2> QED  BY <1>1, <2>1 DEF AfterRemoval
<1>3. ASSUME NEW i \in 1 .. n, i - 1 \in T
      PROVE  i \in T
  <2> DEFINE p == pools[0]  q == pools[i - 1]  r == pools[i]  ix == ixs[i]
  <2>1. p \in Pool /\ q \in Pool /\ r \in Pool /\ ix \in Ix
        /\ Allowed(q, ix) /\ r = Effect(q, ix)
    BY <1>1 DEF Performs
  <2>2. AfterRemoval(p, q) /\ Cleared(i - 1)
    BY <1>3
  <2>3. ix.kind \in {"Decrease", "Remove"} /\ ix.vote \in Votes \ config.validators
    BY DEF Removes
  <2>4. \/ /\ ix.kind = "Decrease"
           /\ \A u \in Votes : r.list[u].status = q.list[u].status
           /\ r.deposit = q.deposit /\ r.withdraw = q.withdraw
        \/ /\ ix.kind = "Remove" /\ q.list[ix.vote].status = "Active"
           /\ r.list[ix.vote].status = "Deactivating"
           /\ \A u \in Votes \ {ix.vote} : r.list[u].status = q.list[u].status
           /\ r.deposit = IF q.deposit = ix.vote THEN None ELSE q.deposit
           /\ r.withdraw = IF q.withdraw = ix.vote THEN None ELSE q.withdraw
    BY <2>1, <2>3, EffectOnList
  <2>5. \A j \in 1 .. (i - 1) : ixs[j].kind = "Remove" =>
           q.list[ixs[j].vote].status # "Active" /\ ixs[j].vote \in Votes
    BY <1>1, <2>2 DEF Removes
  <2>6. \A u \in Votes : q.list[u].status # "Active" => r.list[u].status # "Active"
    <3> HIDE DEF p, q, r, ix
    <3> QED  BY <2>4
  <2>7. Cleared(i)
    <3> SUFFICES ASSUME NEW j \in 1 .. i, ixs[j].kind = "Remove"
                 PROVE  r.list[ixs[j].vote].status # "Active"
      OBVIOUS
    <3>1. CASE j = i
      BY <2>4, <3>1
    <3>2. CASE j # i
      <4>1. j \in 1 .. (i - 1)
        BY <1>1, <3>2
      <4> QED  BY <2>5, <2>6, <4>1
    <3> QED  BY <3>1, <3>2
  <2>8. AfterRemoval(p, r)
    <3> HIDE DEF p, q, r, ix
    <3>1. CASE ix.kind = "Decrease"
      <4>1. Gone(p, r) = Gone(p, q)
        BY <2>4, <3>1 DEF Gone
      <4> QED  BY <2>2, <2>4, <3>1, <4>1 DEF AfterRemoval
    <3>2. CASE ix.kind = "Remove"
      <4>1. p.list[ix.vote].status = "Active"
        BY <2>2, <2>3, <2>4, <3>2 DEF AfterRemoval
      <4>2. Gone(p, r) = Gone(p, q) \cup {ix.vote}
        BY <2>3, <2>4, <3>2, <4>1 DEF Gone
      <4>3. \A v \in Votes : \/ r.list[v].status = p.list[v].status
                             \/ /\ v \notin config.validators /\ p.list[v].status = "Active"
                                /\ r.list[v].status = "Deactivating"
        BY <2>2, <2>3, <2>4, <3>2, <4>1 DEF AfterRemoval
      <4>4. None # ix.vote
        BY <2>3, ListConstants
      <4>5. r.deposit = IF p.deposit \in Gone(p, r) THEN None ELSE p.deposit
        BY <2>2, <2>4, <3>2, <4>2, <4>4 DEF AfterRemoval
      <4>6. r.withdraw = IF p.withdraw \in Gone(p, r) THEN None ELSE p.withdraw
        BY <2>2, <2>4, <3>2, <4>2, <4>4 DEF AfterRemoval
      <4> QED  BY <4>3, <4>5, <4>6 DEF AfterRemoval
    <3> QED  BY <2>3, <3>1, <3>2
  <2> QED  BY <1>1, <2>7, <2>8
<1>4. 0 .. n \subseteq T
  <2> HIDE DEF T, n
  <2> QED  BY <1>1, <1>2, <1>3, Induction
<1> QED  BY <1>1, <1>4

\* Additions bring what they name and nothing else.
LEMMA AdditionInduction ==
    ASSUME NEW ixs \in Seq(Ix), Adds(ixs), NEW pools, Performs(pools, ixs), config \in Config
    PROVE  /\ AfterAddition(pools[0], pools[Len(ixs)])
           /\ \A j \in 1 .. Len(ixs) : pools[Len(ixs)].list[ixs[j].vote].status = "Active"
<1> DEFINE n == Len(ixs)
           Added(i) == \A j \in 1 .. i : pools[i].list[ixs[j].vote].status = "Active"
           T == {i \in 0 .. n : AfterAddition(pools[0], pools[i]) /\ Added(i)}
<1>1. n \in Nat /\ \A i \in 1 .. n : ixs[i] \in Ix
  OBVIOUS
<1>2. 0 \in T
  BY <1>1 DEF AfterAddition
<1>3. ASSUME NEW i \in 1 .. n, i - 1 \in T
      PROVE  i \in T
  <2> DEFINE p == pools[0]  q == pools[i - 1]  r == pools[i]  ix == ixs[i]
  <2>1. q \in Pool /\ ix \in Ix /\ Allowed(q, ix) /\ r = Effect(q, ix)
    BY <1>1 DEF Performs
  <2>2. AfterAddition(p, q)
    BY <1>3
  <2>3. ix.kind = "Add" /\ ix.vote \in config.validators /\ ix.vote \in Votes
    BY DEF Adds, Config
  <2>4. /\ q.list[ix.vote].status = "Absent" /\ r.list[ix.vote].status = "Active"
        /\ \A u \in Votes \ {ix.vote} : r.list[u].status = q.list[u].status
        /\ r.deposit = q.deposit /\ r.withdraw = q.withdraw
    BY <2>1, <2>3, EffectOnList
  <2>5. AfterAddition(p, r)
    <3> HIDE DEF p, q, r, ix
    <3>1. p.list[ix.vote].status = "Absent"
      BY <2>2, <2>3, <2>4 DEF AfterAddition
    <3> QED  BY <2>2, <2>3, <2>4, <3>1 DEF AfterAddition
  <2>6. Added(i)
    <3> SUFFICES ASSUME NEW j \in 1 .. i
                 PROVE  r.list[ixs[j].vote].status = "Active"
      OBVIOUS
    <3>1. CASE j = i
      BY <2>4, <3>1
    <3>2. CASE j # i
      <4>1. j \in 1 .. (i - 1) /\ ixs[j].vote \in Votes
        BY <1>1, <3>2 DEF Adds, Config
      <4>2. q.list[ixs[j].vote].status = "Active"
        BY <1>3, <4>1
      <4> QED  BY <2>4, <4>1, <4>2
    <3> QED  BY <3>1, <3>2
  <2> QED  BY <1>1, <2>5, <2>6
<1>4. 0 .. n \subseteq T
  <2> HIDE DEF T, n
  <2> QED  BY <1>1, <1>2, <1>3, Induction
<1> QED  BY <1>1, <1>4

\* Preferences are set to what they name, if that is in the pool, and change no validator.
LEMMA PreferenceInduction ==
    ASSUME NEW ixs \in Seq(Ix), Prefers(ixs), NEW pools, Performs(pools, ixs), config \in Config
    PROVE  /\ AfterPreference(pools[0], pools[Len(ixs)])
           /\ \A j \in 1 .. Len(ixs) :
                 /\ ixs[j].kind = "PreferDeposit" => pools[Len(ixs)].deposit = config.deposit
                 /\ ixs[j].kind = "PreferWithdraw" => pools[Len(ixs)].withdraw = config.withdraw
<1> DEFINE n == Len(ixs)
           Set(i) == \A j \in 1 .. i :
                 /\ ixs[j].kind = "PreferDeposit" => pools[i].deposit = config.deposit
                 /\ ixs[j].kind = "PreferWithdraw" => pools[i].withdraw = config.withdraw
           T == {i \in 0 .. n : AfterPreference(pools[0], pools[i]) /\ Set(i)}
<1>1. n \in Nat /\ \A i \in 1 .. n : ixs[i] \in Ix
  OBVIOUS
<1>2. 0 \in T
  BY <1>1 DEF AfterPreference
<1>3. ASSUME NEW i \in 1 .. n, i - 1 \in T
      PROVE  i \in T
  <2> DEFINE p == pools[0]  q == pools[i - 1]  r == pools[i]  ix == ixs[i]
  <2>1. q \in Pool /\ ix \in Ix /\ Allowed(q, ix) /\ r = Effect(q, ix)
    BY <1>1 DEF Performs
  <2>2. AfterPreference(p, q)
    BY <1>3
  <2>3. \/ ix.kind = "PreferDeposit" /\ ix.vote = config.deposit
        \/ ix.kind = "PreferWithdraw" /\ ix.vote = config.withdraw
    BY DEF Prefers
  <2>4. /\ ix.vote = None \/ Active(q, ix.vote)
        /\ r.list = q.list
        /\ \/ ix.kind = "PreferDeposit" /\ r.deposit = ix.vote /\ r.withdraw = q.withdraw
           \/ ix.kind = "PreferWithdraw" /\ r.withdraw = ix.vote /\ r.deposit = q.deposit
    BY <2>1, <2>3, EffectOnList
  <2>5. ix.vote \in Votes \cup {None}
    BY <2>3 DEF Config
  <2>6. AfterPreference(p, r)
    <3> HIDE DEF p, q, r, ix
    <3>1. ix.vote = None \/ Active(p, ix.vote)
      BY <2>2, <2>4, <2>5 DEF AfterPreference, Active
    <3>2. \A u \in Votes : r.list[u].status = p.list[u].status
      BY <2>2, <2>4 DEF AfterPreference
    <3>3. CASE ix.kind = "PreferDeposit"
      BY <2>2, <2>3, <2>4, <3>1, <3>2, <3>3 DEF AfterPreference
    <3>4. CASE ix.kind = "PreferWithdraw"
      BY <2>2, <2>3, <2>4, <3>1, <3>2, <3>4 DEF AfterPreference
    <3> QED  BY <2>3, <3>3, <3>4
  <2>7. Set(i)
    <3> SUFFICES ASSUME NEW j \in 1 .. i
                 PROVE  /\ ixs[j].kind = "PreferDeposit" => r.deposit = config.deposit
                        /\ ixs[j].kind = "PreferWithdraw" => r.withdraw = config.withdraw
      OBVIOUS
    <3>1. CASE j = i
      BY <2>3, <2>4, <3>1
    <3>2. CASE j # i
      <4>1. j \in 1 .. (i - 1)
        BY <1>1, <3>2
      <4>2. /\ ixs[j].kind = "PreferDeposit" => q.deposit = config.deposit
            /\ ixs[j].kind = "PreferWithdraw" => q.withdraw = config.withdraw
        BY <1>3, <4>1
      <4> QED  BY <2>3, <2>4, <4>2
    <3> QED  BY <3>1, <3>2
  <2> QED  BY <1>1, <2>6, <2>7
<1>4. 0 .. n \subseteq T
  <2> HIDE DEF T, n
  <2> QED  BY <1>1, <1>2, <1>3, Induction
<1> QED  BY <1>1, <1>4

-----------------------------------------------------------------------------
(* The run behind its transactions.                                        *)

\* A preferred validator is in the pool.
PreferredInv == \A v \in {pool.deposit, pool.withdraw} : v = None \/ Active(pool, v)

\* What is sent removes what the config does not name, or else there is no such validator left.
Batch(ixs) == Removes(ixs) \/ ((Adds(ixs) \/ Prefers(ixs)) /\ Unwanted(pool) = {})

\* What a run plans: every validator that has to go is going to be removed, and the rest waits
\* until they are gone.
PlanInv ==
    /\ pc \in {"update", "fetch_vsas"} =>
          \A v \in Unwanted(pool) : seen.list[v].status = "Active"
    /\ pc \in {"plan", "confirm"} =>
          /\ toRemove \cap config.validators = {} /\ toAdd \subseteq config.validators
          /\ phase = "remove" =>
                /\ Removes(tx)
                /\ \A v \in Unwanted(pool) : v \in toRemove \/
                      \E i \in 1 .. Len(tx) : tx[i].kind = "Remove" /\ tx[i].vote = v
          /\ phase = "add" => Adds(tx)
          /\ phase = "prefer" => tx = <<>>
          /\ phase = "end" => Prefers(tx)
          /\ phase # "remove" => Unwanted(pool) = {}

SafeInv == PreferredInv /\ (\A t \in late : Batch(t)) /\ PlanInv

\* The pool that an accepted transaction leaves.
After(ixs) ==
    \/ /\ Removes(ixs) /\ AfterRemoval(pool, pool')
       /\ \A j \in 1 .. Len(ixs) : ixs[j].kind = "Remove" =>
             pool'.list[ixs[j].vote].status # "Active"
    \/ /\ Adds(ixs) /\ Unwanted(pool) = {} /\ AfterAddition(pool, pool')
       /\ \A j \in 1 .. Len(ixs) : pool'.list[ixs[j].vote].status = "Active"
    \/ /\ Prefers(ixs) /\ Unwanted(pool) = {} /\ AfterPreference(pool, pool')
       /\ \A j \in 1 .. Len(ixs) :
             /\ ixs[j].kind = "PreferDeposit" => pool'.deposit = config.deposit
             /\ ixs[j].kind = "PreferWithdraw" => pool'.withdraw = config.withdraw

\* It is one of these three.
LEMMA Landed ==
    ASSUME TypeInv, NEW ixs \in Seq(Ix), Batch(ixs),
           Execute(pool, ixs).ok, pool' = Execute(pool, ixs).pool
    PROVE  After(ixs)
<1>1. pool \in Pool /\ config \in Config /\ epoch \in 0 .. MaxEpoch
  BY ListConstants DEF TypeInv, TypeOK
<1>2. PICK pools : Performs(pools, ixs) /\ pools[0] = pool /\ pools[Len(ixs)] = pool'
  BY <1>1, ExecutePerforms
<1> QED
  BY <1>1, <1>2, RemovalInduction, AdditionInduction, PreferenceInduction DEF Batch, After

\* When nobody joins who is not wanted, what has been sent stays what it is.
LEMMA BatchKept ==
    ASSUME Unwanted(pool)' \subseteq Unwanted(pool), config' = config, NEW ixs, Batch(ixs)
    PROVE  Batch(ixs)'
BY DEF Batch, Removes, Adds, Prefers

\* What is planned may be sent.
LEMMA PlanBatch ==
    ASSUME TypeOK, PlanInv, pc \in {"plan", "confirm"}
    PROVE  Batch(tx)
BY DEF PlanInv, Batch, Removes, TypeOK

\* What the transaction that the run waits for does when it is accepted.
LEMMA CommitList ==
    ASSUME TypeInv, SafeInv, CommitTx
    PROVE  After(tx)
<1>1. TypeOK /\ PlanInv /\ pc = "confirm" /\ tx \in Seq(Ix)
      /\ Execute(pool, tx).ok /\ pool' = Execute(pool, tx).pool
  BY DEF CommitTx, TypeInv, TypeOK, SafeInv
<1> QED  BY <1>1, PlanBatch, Landed

\* An accepted transaction brings nobody whom the config does not name, and leaves nobody
\* preferred who is not in the pool.
LEMMA LandedKeeps ==
    ASSUME TypeInv, SafeInv, NEW ixs, After(ixs), config' = config
    PROVE  Unwanted(pool)' \subseteq Unwanted(pool) /\ PreferredInv'
<1>0. /\ pool \in Pool /\ config \in Config
      /\ \A v \in {pool.deposit, pool.withdraw} : v = None \/ (v \in Votes /\ Active(pool, v))
  BY DEF TypeInv, TypeOK, SafeInv, PreferredInv, Pool
<1>1. \A v \in Votes : \/ pool'.list[v].status = pool.list[v].status
                       \/ v \in config.validators
                       \/ pool'.list[v].status # "Active"
  BY DEF After, AfterRemoval, AfterAddition, AfterPreference
<1>2. Unwanted(pool)' \subseteq Unwanted(pool)
  BY <1>1 DEF Unwanted
<1>3. PreferredInv'
  <2>1. ASSUME AfterRemoval(pool, pool')
        PROVE  PreferredInv'
    BY <1>0, <2>1 DEF AfterRemoval, Gone, PreferredInv, Active
  <2>2. ASSUME AfterAddition(pool, pool')
        PROVE  PreferredInv'
    BY <1>0, <2>2 DEF AfterAddition, PreferredInv, Active
  <2>3. ASSUME AfterPreference(pool, pool')
        PROVE  PreferredInv'
    <3>1. config.deposit \in Votes \cup {None} /\ config.withdraw \in Votes \cup {None}
      BY <1>0 DEF Config
    <3> QED  BY <1>0, <2>3, <3>1 DEF AfterPreference, PreferredInv, Active
  <2> QED  BY <2>1, <2>2, <2>3 DEF After
<1> QED  BY <1>2, <1>3

\* An accepted transaction leaves the run where its plan says.
LEMMA CommitSafe ==
    ASSUME TypeInv, SafeInv, CommitTx
    PROVE  SafeInv'
<1>1. /\ pc = "confirm" /\ pc' = "plan" /\ tx' = <<>>
      /\ UNCHANGED <<late, config, phase, seen, toRemove, toAdd, half>>
  BY DEF CommitTx
<1>2. After(tx) /\ Unwanted(pool)' \subseteq Unwanted(pool) /\ PreferredInv'
  BY <1>1, CommitList, LandedKeeps
<1>3. \A t \in late' : Batch(t)'
  BY <1>1, <1>2, BatchKept DEF SafeInv
<1>4. PlanInv'
  <2>1. Removes(<<>>) /\ Adds(<<>>) /\ Prefers(<<>>)
    BY DEF Removes, Adds, Prefers
  <2>2. ASSUME phase = "remove", NEW v \in Unwanted(pool)'
        PROVE  v \in toRemove
    <3>1. v \in Unwanted(pool) /\ v \in Votes /\ pool'.list[v].status = "Active"
      BY <1>2 DEF Unwanted
    <3>2. CASE Unwanted(pool) = {}
      BY <3>1, <3>2
    <3>3. CASE \A j \in 1 .. Len(tx) : tx[j].kind = "Remove" =>
                  pool'.list[tx[j].vote].status # "Active"
      BY <1>1, <2>2, <3>1, <3>3 DEF SafeInv, PlanInv
    <3> QED  BY <1>2, <3>2, <3>3 DEF After
  <2> QED  BY <1>1, <1>2, <2>1, <2>2 DEF SafeInv, PlanInv, Removes, Adds, Prefers
<1> QED  BY <1>2, <1>3, <1>4 DEF SafeInv

\* So does what nobody waits for any more.
LEMMA LateSafe ==
    ASSUME TypeInv, SafeInv, NEW t \in late, LandLate(t) \/ DropLate(t)
    PROVE  SafeInv'
<1>1. UNCHANGED <<config, pc, phase, seen, toRemove, toAdd, tx>> /\ late' \subseteq late
  BY DEF LandLate, DropLate, command
<1>2. Unwanted(pool)' \subseteq Unwanted(pool) /\ PreferredInv'
  <2>1. CASE LandLate(t)
    <3>1. t \in Seq(Ix) /\ Batch(t)
      BY DEF TypeInv, TypeOK, SafeInv
    <3>2. After(t)
      BY <2>1, <3>1, Landed DEF LandLate
    <3> QED  BY <1>1, <3>2, LandedKeeps
  <2>2. CASE DropLate(t)
    BY <1>1, <2>2 DEF DropLate, Unwanted, SafeInv, PreferredInv, Active
  <2> QED  BY <2>1, <2>2
<1>3. \A u \in late' : Batch(u)'
  BY <1>1, <1>2, BatchKept DEF SafeInv
<1>4. PlanInv'
  BY <1>1, <1>2 DEF SafeInv, PlanInv, Removes, Adds, Prefers
<1> QED  BY <1>2, <1>3, <1>4 DEF SafeInv

\* Steps that change no validator's place in the pool leave the run where it was.
LEMMA SameList ==
    ASSUME TypeInv, SafeInv, UNCHANGED command, late' = late,
           \A v \in Votes : pool'.list[v].status = pool.list[v].status,
           pool'.deposit = pool.deposit, pool'.withdraw = pool.withdraw
    PROVE  SafeInv'
<1>1. \A v \in {pool.deposit, pool.withdraw} : v = None \/ v \in Votes
  BY DEF TypeInv, TypeOK, Pool
<1>2. Unwanted(pool)' = Unwanted(pool)
  BY DEF Unwanted, command
<1>3. PreferredInv'
  BY <1>1 DEF SafeInv, PreferredInv, Active
<1>4. \A t \in late' : Batch(t)'
  BY <1>2, BatchKept DEF SafeInv, command
<1>5. PlanInv'
  BY <1>2 DEF SafeInv, PlanInv, Removes, Adds, Prefers, command
<1> QED  BY <1>3, <1>4, <1>5 DEF SafeInv

\* What is added to a transaction.
LEMMA Emitted ==
    ASSUME TypeOK, NEW ixs \in Seq(Ix), NEW ix \in Ix, NEW s, s = ixs \o <<ix>>
    PROVE  /\ Len(s) = Len(ixs) + 1 /\ s[Len(s)] = ix /\ Len(ixs) \in Nat
           /\ \A i \in 1 .. Len(s) : i = Len(s) \/ (i \in 1 .. Len(ixs) /\ s[i] = ixs[i])
           /\ \A i \in 1 .. Len(ixs) : i \in 1 .. Len(s) /\ s[i] = ixs[i]
OBVIOUS

\* Steps that touch neither the pool nor what has been sent leave it alone who is unwanted.
LEMMA QuietStep ==
    ASSUME SafeInv, UNCHANGED <<pool, late, config>>
    PROVE  PreferredInv' /\ (\A t \in late' : Batch(t)') /\ Unwanted(pool)' = Unwanted(pool)
BY DEF SafeInv, PreferredInv, Active, Batch, Removes, Adds, Prefers, Unwanted

\* The update of a pool drops those that are leaving and nobody else.
LEMMA UpdateList ==
    ASSUME TypeInv, UpdatePool
    PROVE  /\ pool'.deposit = pool.deposit /\ pool'.withdraw = pool.withdraw
           /\ \/ \A v \in Votes : pool'.list[v].status = pool.list[v].status
              \/ \A v \in Votes : pool'.list[v].status =
                    IF pool.list[v].status = "Active" THEN "Active" ELSE "Absent"
<1>1. TypeOK /\ pool \in Pool /\ \A v \in Votes : pool.list[v] \in Entry
  BY DEF TypeInv, TypeOK, Pool
<1>2. \A v \in Votes : Refreshed(pool.list[v]).status =
                          IF pool.list[v].status = "Active" THEN "Active" ELSE "Absent"
  BY <1>1, RefreshedType
<1>3. CASE pool' = pool
  BY <1>3
<1>4. CASE pool' = [pool EXCEPT !.list = [v \in Votes |-> Refreshed(pool.list[v])]]
  BY <1>1, <1>2, <1>4 DEF Pool
<1> QED  BY <1>3, <1>4 DEF UpdatePool

\* Every step of the command follows the plan.
LEMMA StepSafe ==
    ASSUME TypeInv, SafeInv, Step
    PROVE  SafeInv'
<1>0. TypeOK /\ PhaseInv /\ PlanInv /\ tx \in Seq(Ix)
  BY DEF TypeInv, TypeOK, SafeInv
<1>1. CASE FetchPool \/ FetchList \/ UpdateNotRequired
  <2>1. UNCHANGED <<pool, late, config>>
    BY <1>1 DEF FetchPool, FetchList, UpdateNotRequired, chain
  <2>2. PlanInv'
    <3>1. CASE FetchPool
      BY <2>1, <3>1 DEF FetchPool, PlanInv
    <3>2. CASE FetchList
      BY <1>0, <2>1, <3>2 DEF FetchList, PlanInv, Unwanted, TypeOK
    <3>3. CASE UpdateNotRequired
      BY <1>0, <2>1, <3>3 DEF UpdateNotRequired, PlanInv, Unwanted
    <3> QED  BY <1>1, <3>1, <3>2, <3>3
  <2> QED  BY <2>1, <2>2, QuietStep DEF SafeInv
<1>2. CASE UpdatePool
  <2>1. /\ pc = "update" /\ pc' = "fetch_vsas" /\ UNCHANGED <<late, config, seen>>
    BY <1>2 DEF UpdatePool
  <2>2. /\ pool'.deposit = pool.deposit /\ pool'.withdraw = pool.withdraw
        /\ \A v \in Votes : pool'.list[v].status = "Active" <=> pool.list[v].status = "Active"
    BY <1>2, UpdateList
  <2>3. Unwanted(pool)' = Unwanted(pool)
    BY <2>1, <2>2 DEF Unwanted
  <2>4. PreferredInv'
    <3>1. \A v \in {pool.deposit, pool.withdraw} : v = None \/ v \in Votes
      BY <1>0 DEF TypeOK, Pool
    <3> QED  BY <2>2, <3>1 DEF SafeInv, PreferredInv, Active
  <2>5. PlanInv'
    BY <1>0, <2>1, <2>3 DEF PlanInv
  <2> QED  BY <2>1, <2>3, <2>4, <2>5, BatchKept DEF SafeInv
<1>3. CASE FetchVsas
  <2>1. /\ pc = "fetch_vsas" /\ pc' \in {"plan", "panicked"} /\ phase = "remove" /\ tx = <<>>
        /\ toAdd' = {v \in config.validators : seen.list[v].status = "Absent"}
        /\ toRemove' = {v \in Votes \ config.validators : seen.list[v].status = "Active"}
        /\ UNCHANGED <<pool, late, config, phase, tx>>
    BY <1>0, <1>3 DEF FetchVsas, PhaseInv, chain
  <2>2. \A v \in Unwanted(pool) : v \in toRemove'
    BY <1>0, <2>1 DEF PlanInv, Unwanted
  <2>3. Removes(tx)' /\ Unwanted(pool)' = Unwanted(pool)
    BY <2>1 DEF Removes, Unwanted
  <2>4. PlanInv'
    BY <2>1, <2>2, <2>3 DEF PlanInv
  <2> QED  BY <2>1, <2>4, QuietStep DEF SafeInv
<1>4. ASSUME NEW v \in Votes, EmitDecrease(v)
      PROVE  SafeInv'
  <2> DEFINE ix == Instruction("Decrease", v, LamportsToDecrease(v))
  <2>1. /\ pc = "plan" /\ phase = "remove" /\ v \in toRemove /\ tx' = tx \o <<ix>>
        /\ UNCHANGED <<pool, late, config, pc, phase, toRemove, toAdd>>
    BY <1>4 DEF EmitDecrease, RoomToRemove, Emit, chain
  <2>2. ix \in Ix /\ ix.kind = "Decrease" /\ ix.vote = v
    BY <1>0, PlanType DEF Instruction
  <2> HIDE DEF ix
  <2>3. /\ Len(tx') = Len(tx) + 1 /\ tx'[Len(tx')] = ix
        /\ \A i \in 1 .. Len(tx') : i = Len(tx') \/ (i \in 1 .. Len(tx) /\ tx'[i] = tx[i])
        /\ \A i \in 1 .. Len(tx) : i \in 1 .. Len(tx') /\ tx'[i] = tx[i]
    BY <1>0, <2>1, <2>2, Emitted
  <2>4. Removes(tx)'
    <3>1. Removes(tx) /\ v \in Votes \ config.validators
      BY <1>0, <2>1 DEF PlanInv
    <3> QED  BY <2>1, <2>2, <2>3, <3>1 DEF Removes
  <2>5. PlanInv'
    <3>1. Unwanted(pool)' = Unwanted(pool)
      BY <2>1 DEF Unwanted
    <3> QED  BY <1>0, <2>1, <2>3, <2>4, <3>1 DEF PlanInv
  <2> QED  BY <2>1, <2>5, QuietStep DEF SafeInv
<1>5. ASSUME NEW v \in Votes, EmitRemove(v)
      PROVE  SafeInv'
  <2> DEFINE ix == Instruction("Remove", v, 0)
  <2>1. /\ pc = "plan" /\ phase = "remove" /\ v \in toRemove /\ tx' = tx \o <<ix>>
        /\ toRemove' = toRemove \ {v}
        /\ UNCHANGED <<pool, late, config, pc, phase, toAdd>>
    BY <1>5 DEF EmitRemove, RoomToRemove, Emit, chain
  <2>2. ix \in Ix /\ ix.kind = "Remove" /\ ix.vote = v
    BY <1>0, PlanType DEF Instruction
  <2> HIDE DEF ix
  <2>3. /\ Len(tx') = Len(tx) + 1 /\ tx'[Len(tx')] = ix /\ Len(tx) \in Nat
        /\ \A i \in 1 .. Len(tx') : i = Len(tx') \/ (i \in 1 .. Len(tx) /\ tx'[i] = tx[i])
        /\ \A i \in 1 .. Len(tx) : i \in 1 .. Len(tx') /\ tx'[i] = tx[i]
    BY <1>0, <2>1, <2>2, Emitted
  <2>4. Removes(tx)'
    <3>1. Removes(tx) /\ v \in Votes \ config.validators
      BY <1>0, <2>1 DEF PlanInv
    <3> QED  BY <2>1, <2>2, <2>3, <3>1 DEF Removes
  <2>5. Unwanted(pool)' = Unwanted(pool)
    BY <2>1 DEF Unwanted
  <2>6. ASSUME NEW u \in Unwanted(pool)
        PROVE  u \in toRemove' \/ \E i \in 1 .. Len(tx') : tx'[i].kind = "Remove" /\ tx'[i].vote = u
    <3>1. CASE u = v
      <4>1. Len(tx') \in 1 .. Len(tx')
        BY <2>3
      <4> QED  BY <2>2, <2>3, <3>1, <4>1
    <3>2. CASE u # v /\ u \in toRemove
      BY <2>1, <3>2
    <3>3. CASE \E i \in 1 .. Len(tx) : tx[i].kind = "Remove" /\ tx[i].vote = u
      BY <2>3, <3>3
    <3> QED  BY <1>0, <2>1, <3>1, <3>2, <3>3 DEF PlanInv
  <2>7. PlanInv'
    BY <1>0, <2>1, <2>4, <2>5, <2>6 DEF PlanInv
  <2> QED  BY <2>1, <2>7, QuietStep DEF SafeInv
<1>6. ASSUME NEW v \in Votes, EmitAdd(v)
      PROVE  SafeInv'
  <2> DEFINE ix == Instruction("Add", v, 0)
  <2>1. /\ pc = "plan" /\ phase = "add" /\ v \in toAdd /\ tx' = tx \o <<ix>>
        /\ toAdd' = toAdd \ {v}
        /\ UNCHANGED <<pool, late, config, pc, phase, toRemove>>
    BY <1>6 DEF EmitAdd, Emit, chain
  <2>2. ix \in Ix /\ ix.kind = "Add" /\ ix.vote = v
    BY <1>0, PlanType DEF Instruction
  <2> HIDE DEF ix
  <2>3. /\ Len(tx') = Len(tx) + 1 /\ tx'[Len(tx')] = ix
        /\ \A i \in 1 .. Len(tx') : i = Len(tx') \/ (i \in 1 .. Len(tx) /\ tx'[i] = tx[i])
    BY <1>0, <2>1, <2>2, Emitted
  <2>4. Adds(tx)'
    <3>1. Adds(tx) /\ v \in config.validators
      BY <1>0, <2>1 DEF PlanInv
    <3> QED  BY <2>1, <2>2, <2>3, <3>1 DEF Adds
  <2>5. Unwanted(pool)' = Unwanted(pool)
    BY <2>1 DEF Unwanted
  <2>6. PlanInv'
    BY <1>0, <2>1, <2>4, <2>5 DEF PlanInv
  <2> QED  BY <2>1, <2>6, QuietStep DEF SafeInv
<1>7. CASE EmitPreferred
  <2>1. /\ pc = "plan" /\ phase = "prefer" /\ phase' = "end" /\ tx = <<>> /\ tx' = tx \o PreferIxs
        /\ UNCHANGED <<pool, late, config, pc, toRemove, toAdd>>
    BY <1>7 DEF EmitPreferred, Emit, PreferIxs, chain
  <2>2. tx' = PreferIxs
    BY <1>0, <2>1, PreferType
  <2>3. Prefers(tx)'
    BY <1>0, <2>1, <2>2, PreferType DEF Prefers
  <2>4. Unwanted(pool)' = Unwanted(pool)
    BY <2>1 DEF Unwanted
  <2>5. PlanInv'
    BY <1>0, <2>1, <2>3, <2>4 DEF PlanInv
  <2> QED  BY <2>1, <2>5, QuietStep DEF SafeInv
<1>8. CASE SendTx
  <2>1. /\ pc = "plan" /\ pc' = "confirm"
        /\ UNCHANGED <<pool, late, config, phase, toRemove, toAdd, tx>>
    BY <1>8 DEF SendTx, chain
  <2>2. Unwanted(pool)' = Unwanted(pool)
    BY <2>1 DEF Unwanted
  <2>3. PlanInv'
    BY <1>0, <2>1, <2>2 DEF PlanInv, Removes, Adds, Prefers
  <2> QED  BY <2>1, <2>3, QuietStep DEF SafeInv
<1>9. CASE NextPhase
  <2>1. /\ pc = "plan" /\ tx = <<>> /\ PhaseEmitted
        /\ UNCHANGED <<pool, late, config, toRemove, toAdd, tx>>
        /\ \/ pc' = "done"
           \/ pc' = "plan" /\ phase = "remove" /\ phase' = "add"
           \/ pc' = "plan" /\ phase = "add" /\ phase' = "prefer"
    BY <1>0, <1>9 DEF NextPhase, TypeOK, chain
  <2>2. Unwanted(pool)' = Unwanted(pool)
    BY <2>1 DEF Unwanted
  <2>3. \A i \in 1 .. Len(tx) : FALSE
    BY <2>1
  <2>4. phase = "remove" => Unwanted(pool) = {}
    BY <1>0, <2>1, <2>3 DEF PlanInv, PhaseEmitted
  <2>5. Adds(tx)'
    BY <2>1, <2>3 DEF Adds
  <2>6. PlanInv'
    BY <1>0, <2>1, <2>2, <2>4, <2>5 DEF PlanInv
  <2> QED  BY <2>1, <2>6, QuietStep DEF SafeInv
<1> QED  BY <1>1, <1>2, <1>3, <1>4, <1>5, <1>6, <1>7, <1>8, <1>9 DEF Step

\* Every step does.
LEMMA SafeStep ==
    ASSUME TypeInv, SafeInv, [Next]_vars
    PROVE  SafeInv'
<1>1. CASE Crash \/ AbortTx \/ LoseTx
  <2>1. /\ UNCHANGED <<pool, config>> /\ pc' \in {"dead", "panicked"}
        /\ \A t \in late' : t \in late \/ (t = tx /\ pc = "confirm")
    BY <1>1 DEF Crash, AbortTx, LoseTx, chain
  <2>2. Unwanted(pool)' = Unwanted(pool) /\ PreferredInv'
    BY <2>1 DEF Unwanted, SafeInv, PreferredInv, Active
  <2>3. \A t \in late' : Batch(t)
    BY <2>1, PlanBatch DEF SafeInv, TypeInv
  <2>4. \A t \in late' : Batch(t)'
    BY <2>1, <2>2, <2>3, BatchKept
  <2>5. PlanInv'
    BY <2>1 DEF PlanInv
  <2> QED  BY <2>2, <2>4, <2>5 DEF SafeInv
<1>2. CASE UNCHANGED vars
  BY <1>2, SameList DEF vars, chain, command
<1>3. ASSUME AdvanceEpoch \/ \E v \in Votes : DepositStake(v) \/ DeactivateDelinquent(v)
      PROVE  SafeInv'
  <2>1. UNCHANGED command /\ late' = late
    BY <1>3 DEF AdvanceEpoch, DepositStake, DeactivateDelinquent, Interfere, Others
  <2> QED  BY <1>3, <2>1, OthersStep, SameList
<1> QED  BY <1>1, <1>2, <1>3, StepSafe, CommitSafe, LateSafe DEF Next, Runtime

-----------------------------------------------------------------------------
(* ListSync.                                                               *)

\* How the pool looks to ListSync.
LEMMA PromiseVars ==
    /\ Promise!Members = {v \in Votes : pool.list[v].status = "Active"}
    /\ Promise!Members' = {v \in Votes : pool'.list[v].status = "Active"}
    /\ \A S, s : Promise!Become(S, s) <=>
          [v \in Votes |-> pool'.list[v].status]
             = [v \in Votes |-> IF v \in S THEN s ELSE pool.list[v].status]
    /\ UNCHANGED Promise!vars <=>
          /\ [v \in Votes |-> pool'.list[v].status] = [v \in Votes |-> pool.list[v].status]
          /\ pool'.deposit = pool.deposit /\ pool'.withdraw = pool.withdraw /\ config' = config
<1>1. \A S, s : [v \in Votes |-> IF v \in S THEN s ELSE [u \in Votes |-> pool.list[u].status][v]]
                = [v \in Votes |-> IF v \in S THEN s ELSE pool.list[v].status]
  OBVIOUS
<1>2. \A S, s : Promise!Become(S, s) <=>
          [v \in Votes |-> pool'.list[v].status]
             = [v \in Votes |-> IF v \in S THEN s ELSE pool.list[v].status]
  BY <1>1 DEF Promise!Become
<1> QED  BY <1>2 DEF Promise!Members, Promise!vars

\* A step that changes no validator's place and no preference is none of ListSync.
LEMMA StutterAllowed ==
    ASSUME \A v \in Votes : pool'.list[v].status = pool.list[v].status,
           pool'.deposit = pool.deposit, pool'.withdraw = pool.withdraw, config' = config
    PROVE  UNCHANGED Promise!vars
BY PromiseVars

\* What an accepted transaction does ListSync allows.
LEMMA LandedAllowed ==
    ASSUME TypeInv, SafeInv, NEW ixs, After(ixs), config' = config
    PROVE  [Promise!Next]_(Promise!vars)
<1>0. /\ config' = config /\ pool \in Pool /\ config \in Config
      /\ \A v \in {pool.deposit, pool.withdraw} : v = None \/ (v \in Votes /\ Active(pool, v))
  BY DEF TypeInv, TypeOK, SafeInv, PreferredInv, Pool
<1>1. ASSUME AfterRemoval(pool, pool')
      PROVE  [Promise!Next]_(Promise!vars)
  <2> DEFINE S == Gone(pool, pool')
  <2>1. \A v \in Votes : pool'.list[v].status =
                            IF v \in S THEN "Deactivating" ELSE pool.list[v].status
    BY <1>1 DEF AfterRemoval, Gone
  <2>2. CASE S = {}
    BY <1>0, <1>1, <2>1, <2>2, StutterAllowed DEF AfterRemoval
  <2>3. CASE S # {}
    <3>1. S \in SUBSET (Promise!Members \ config.validators)
      BY <1>1, PromiseVars DEF AfterRemoval, Gone
    <3>2. Promise!Become(S, "Deactivating")
      BY <2>1, PromiseVars
    <3>3. pool'.deposit = Promise!Unless(pool.deposit, S)
          /\ pool'.withdraw = Promise!Unless(pool.withdraw, S)
      BY <1>1 DEF AfterRemoval, Promise!Unless
    <3> HIDE DEF S
    <3>4. Promise!Remove
      BY <1>0, <2>3, <3>1, <3>2, <3>3 DEF Promise!Remove
    <3> QED  BY <3>4 DEF Promise!Next
  <2> QED  BY <2>2, <2>3
<1>2. ASSUME Unwanted(pool) = {}, AfterAddition(pool, pool')
      PROVE  [Promise!Next]_(Promise!vars)
  <2> DEFINE S == {v \in Votes : pool'.list[v].status # pool.list[v].status}
  <2>1. \A v \in Votes : pool'.list[v].status = IF v \in S THEN "Active" ELSE pool.list[v].status
    BY <1>2 DEF AfterAddition
  <2>2. CASE S = {}
    BY <1>0, <1>2, <2>1, <2>2, StutterAllowed DEF AfterAddition
  <2>3. CASE S # {}
    <3>1. S \in SUBSET {v \in config.validators :
                           [u \in Votes |-> pool.list[u].status][v] = "Absent"}
      BY <1>2 DEF AfterAddition
    <3>2. Promise!Become(S, "Active")
      BY <2>1, PromiseVars
    <3>3. Promise!Members \subseteq config.validators
      BY <1>2, PromiseVars DEF Unwanted
    <3>4. pool'.deposit = pool.deposit /\ pool'.withdraw = pool.withdraw
      BY <1>2 DEF AfterAddition
    <3> HIDE DEF S
    <3>5. Promise!Add
      BY <1>0, <2>3, <3>1, <3>2, <3>3, <3>4 DEF Promise!Add
    <3> QED  BY <3>5 DEF Promise!Next
  <2> QED  BY <2>2, <2>3
<1>3. ASSUME Unwanted(pool) = {}, AfterPreference(pool, pool')
      PROVE  [Promise!Next]_(Promise!vars)
  <2>1. \A v \in Votes : pool'.list[v].status = pool.list[v].status
    BY <1>3 DEF AfterPreference
  <2>2. CASE pool'.deposit = pool.deposit /\ pool'.withdraw = pool.withdraw
    BY <1>0, <2>1, <2>2, StutterAllowed
  <2>3. CASE ~(pool'.deposit = pool.deposit /\ pool'.withdraw = pool.withdraw)
    <3>1. Promise!Members \subseteq config.validators
      BY <1>3, PromiseVars DEF Unwanted
    <3>2. pool'.deposit \in {pool.deposit, config.deposit}
          /\ pool'.withdraw \in {pool.withdraw, config.withdraw}
      BY <1>3 DEF AfterPreference
    <3>3. {pool'.deposit, pool'.withdraw} \subseteq Promise!Members \cup {None}
      <4>1. config.deposit \in Votes \cup {None} /\ config.withdraw \in Votes \cup {None}
        BY <1>0 DEF Config
      <4> QED  BY <1>0, <1>3, <2>1, <4>1, PromiseVars DEF AfterPreference, Active
    <3>4. [v \in Votes |-> pool'.list[v].status] = [v \in Votes |-> pool.list[v].status]
      BY <2>1
    <3>5. <<pool'.deposit, pool'.withdraw>> # <<pool.deposit, pool.withdraw>>
      BY <2>3
    <3>6. Promise!Prefer
      BY <1>0, <3>1, <3>2, <3>3, <3>4, <3>5 DEF Promise!Prefer
    <3> QED  BY <3>6 DEF Promise!Next
  <2> QED  BY <2>2, <2>3
<1> QED  BY <1>1, <1>2, <1>3 DEF After

\* So is what the update of a pool does.
LEMMA UpdateAllowed ==
    ASSUME TypeInv, UpdatePool
    PROVE  [Promise!Next]_(Promise!vars)
<1>0. config' = config /\ pool \in Pool /\ \A v \in Votes : pool.list[v].status \in Statuses
  BY DEF UpdatePool, TypeInv, TypeOK, Pool, Entry
<1> DEFINE S == {v \in Votes : pool.list[v].status = "Deactivating"}
<1>1. CASE \A v \in Votes : pool'.list[v].status = pool.list[v].status
  BY <1>0, <1>1, UpdateList, StutterAllowed
<1>2. CASE \A v \in Votes : pool'.list[v].status =
                    IF pool.list[v].status = "Active" THEN "Active" ELSE "Absent"
  <2>1. \A v \in Votes : pool'.list[v].status = IF v \in S THEN "Absent" ELSE pool.list[v].status
    BY <1>0, <1>2 DEF Statuses
  <2>2. CASE S = {}
    BY <1>0, <2>1, <2>2, UpdateList, StutterAllowed
  <2>3. CASE S # {}
    <3>1. PICK R : R = S
      OBVIOUS
    <3>2. Promise!Become(R, "Absent")
      BY <2>1, <3>1, PromiseVars
    <3>3. R \subseteq {v \in Votes : [u \in Votes |-> pool.list[u].status][v] = "Deactivating"}
          /\ R \in (SUBSET Votes) \ {{}}
      BY <2>3, <3>1
    <3> HIDE DEF S
    <3>4. Promise!Clean(R)
      BY <1>0, <3>2, <3>3, UpdateList DEF Promise!Clean
    <3> QED  BY <3>3, <3>4 DEF Promise!Next
  <2> QED  BY <2>2, <2>3
<1> QED  BY <1>1, <1>2, UpdateList

\* Every step of the system is a step of ListSync or none.
LEMMA StepAllowed ==
    ASSUME TypeInv, SafeInv, [Next]_vars
    PROVE  [Promise!Next]_(Promise!vars)
<1>1. CASE UNCHANGED <<pool, config>>
  BY <1>1, StutterAllowed
<1>2. ASSUME Step, ~UpdatePool
      PROVE  UNCHANGED <<pool, config>>
  BY <1>2 DEF Step, FetchPool, FetchList, UpdateNotRequired, FetchVsas, EmitDecrease, EmitRemove,
              EmitAdd, EmitPreferred, SendTx, NextPhase, chain
<1>3. ASSUME Crash \/ AbortTx \/ LoseTx
      PROVE  UNCHANGED <<pool, config>>
  BY <1>3 DEF Crash, AbortTx, LoseTx, chain
<1>4. ASSUME AdvanceEpoch \/ \E v \in Votes : DepositStake(v) \/ DeactivateDelinquent(v)
      PROVE  [Promise!Next]_(Promise!vars)
  <2>1. config' = config
    BY <1>4 DEF AdvanceEpoch, DepositStake, DeactivateDelinquent, Interfere, Others, command
  <2> QED  BY <1>4, <2>1, OthersStep, StutterAllowed
<1>5. CASE UNCHANGED vars
  BY <1>1, <1>5 DEF vars, chain, command
<1>6. CASE CommitTx
  <2>1. config' = config
    BY <1>6 DEF CommitTx
  <2> QED  BY <1>6, <2>1, CommitList, LandedAllowed
<1>7. ASSUME NEW t \in late, LandLate(t)
      PROVE  [Promise!Next]_(Promise!vars)
  <2>1. t \in Seq(Ix) /\ Batch(t) /\ config' = config
    BY <1>7 DEF LandLate, command, TypeInv, TypeOK, SafeInv
  <2>2. After(t)
    BY <1>7, <2>1, Landed DEF LandLate
  <2> QED  BY <2>1, <2>2, LandedAllowed
<1>8. ASSUME NEW t \in late, DropLate(t)
      PROVE  UNCHANGED <<pool, config>>
  BY <1>8 DEF DropLate, command
<1> QED  BY <1>1, <1>2, <1>3, <1>4, <1>5, <1>6, <1>7, <1>8, UpdateAllowed DEF Next, Runtime

\* The pools the command may find are such as ListSync starts from.
LEMMA InitAllowed ==
    ASSUME Init
    PROVE  Promise!Init /\ SafeInv
<1>1. TypeOK /\ pool \in Pool /\ (\A v \in Votes : pool.list[v].status \in Statuses)
      /\ {pool.deposit, pool.withdraw} \subseteq
            {None} \cup {v \in Votes : pool.list[v].status = "Active"}
  <2>1. TypeOK
    BY InitType DEF TypeInv
  <2>2. pool \in Pool /\ (\A v \in Votes : pool.list[v].status \in Statuses)
    BY <2>1 DEF TypeOK, Pool, Entry
  <2> QED  BY <2>1, <2>2, ListConstants DEF Init
<1>2. Promise!Init
  BY <1>1, PromiseVars DEF Promise!Init, Statuses
<1>3. PreferredInv
  BY <1>1, ListConstants DEF PreferredInv, Active
<1>4. late = {} /\ pc = "idle"
  BY DEF Init
<1> QED  BY <1>2, <1>3, <1>4 DEF SafeInv, PlanInv

\* However the runs are cut short and the list changes under them, the chain only ever sees
\* the steps that ListSync allows: the safety half of the refinement.
THEOREM AllowedStepsCorrect == Spec => AllowedSteps
<1> DEFINE Inv == TypeInv /\ SafeInv
<1>1. Init => Inv /\ Promise!Init
  BY InitType, InitAllowed
<1>2. Inv /\ [Next]_vars => Inv'
  BY TypeStep, SafeStep
<1>3. Inv /\ [Next]_vars => [Promise!Next]_(Promise!vars)
  BY StepAllowed
<1> HIDE DEF Inv
<1> QED  BY <1>1, <1>2, <1>3, PTL DEF Spec, AllowedSteps, Promise!Spec

-----------------------------------------------------------------------------
(* What an undisturbed run has achieved.                                   *)

\* The run started on a pool that was up to date, and nobody has got in its way.
Quiet == undisturbed /\ seen.poolEpoch = seen.epoch

\* A preference is what it was, unless its validator has been removed.
Kept(now, before) == now = before \/ (now = None /\ before \notin config.validators)

\* A preference that has been planned is set, or its instruction is still to come.
Planned(kind, now, before, wanted) ==
    IF before = wanted THEN Kept(now, wanted)
    ELSE now = wanted \/ \E i \in 1 .. Len(tx) : tx[i].kind = kind

\* A validator of the config that was in the pool or leaving it still is; any other one is to
\* be added, is being added or has been.
Attended(v) ==
    /\ seen.list[v].status # "Absent" => pool.list[v].status = seen.list[v].status
    /\ seen.list[v].status = "Absent" =>
          /\ \/ v \in toAdd \/ pool.list[v].status = "Active"
             \/ phase = "add" /\ \E i \in 1 .. Len(tx) : tx[i].vote = v
          /\ phase \in {"prefer", "end"} => pool.list[v].status = "Active"

\* Until an undisturbed run is done, what it has fetched and what it still plans make up for
\* what the pool lacks.
RunInv ==
    Quiet =>
       /\ pc \in {"fetch_list", "update", "fetch_vsas"} =>
             pool.deposit = seen.deposit /\ pool.withdraw = seen.withdraw
       /\ pc \in {"update", "fetch_vsas"} =>
             \A v \in Votes : seen.list[v].status = pool.list[v].status
       /\ pc \in {"plan", "confirm"} =>
          /\ \A v \in config.validators : Attended(v)
          /\ phase # "end" =>
                Kept(pool.deposit, seen.deposit) /\ Kept(pool.withdraw, seen.withdraw)
          /\ phase = "end" =>
                /\ Planned("PreferDeposit", pool.deposit, seen.deposit, config.deposit)
                /\ Planned("PreferWithdraw", pool.withdraw, seen.withdraw, config.withdraw)
       /\ SyncedAfterRun

\* The run knows which of its transactions is accepted.
LEMMA CommitPhase ==
    ASSUME TypeInv, SafeInv, CommitTx
    PROVE  /\ pc = "confirm" /\ pc' = "plan" /\ tx' = <<>>
           /\ \/ phase = "remove" /\ AfterRemoval(pool, pool')
              \/ /\ phase = "add" /\ AfterAddition(pool, pool')
                 /\ \A i \in 1 .. Len(tx) : pool'.list[tx[i].vote].status = "Active"
              \/ /\ phase = "end" /\ AfterPreference(pool, pool')
                 /\ \A i \in 1 .. Len(tx) :
                       /\ tx[i].kind = "PreferDeposit" => pool'.deposit = config.deposit
                       /\ tx[i].kind = "PreferWithdraw" => pool'.withdraw = config.withdraw
<1>0. PhaseInv /\ PlanInv /\ tx \in Seq(Ix) /\ phase \in {"remove", "add", "prefer", "end"}
  BY DEF TypeInv, TypeOK, SafeInv
<1>1. pc = "confirm" /\ pc' = "plan" /\ tx' = <<>> /\ tx # <<>>
  BY <1>0 DEF CommitTx, PhaseInv
<1>2. 1 \in 1 .. Len(tx)
  BY <1>0, <1>1
<1>3. /\ phase # "prefer"
      /\ phase = "remove" => Removes(tx)
      /\ phase = "add" => Adds(tx)
      /\ phase = "end" => Prefers(tx)
  BY <1>0, <1>1 DEF PlanInv
<1>4. /\ Removes(tx) => tx[1].kind \in {"Decrease", "Remove"}
      /\ Adds(tx) => tx[1].kind = "Add"
      /\ Prefers(tx) => tx[1].kind \in {"PreferDeposit", "PreferWithdraw"}
  BY <1>2 DEF Removes, Adds, Prefers
<1> QED  BY <1>0, <1>1, <1>3, <1>4, CommitList DEF After

\* A preference loses its validator only when that is removed.
LEMMA RemovalKeeps ==
    ASSUME NEW x \in Votes \cup {None}, NEW y, NEW p, NEW q, AfterRemoval(p, q), Kept(x, y)
    PROVE  Kept(IF x \in Gone(p, q) THEN None ELSE x, y)
<1>1. \A v \in Gone(p, q) : v # None /\ v \notin config.validators
  BY ListConstants DEF Gone, AfterRemoval
<1> QED  BY <1>1 DEF Kept

\* An accepted transaction does what was planned with it.
LEMMA RunCommit ==
    ASSUME TypeInv, SafeInv, RunInv, CommitTx
    PROVE  RunInv'
<1>0. /\ TypeOK /\ PlanInv /\ pool.deposit \in Votes \cup {None}
      /\ pool.withdraw \in Votes \cup {None} /\ config.validators \subseteq Votes
      /\ phase \in {"remove", "add", "prefer", "end"}
  BY DEF TypeInv, TypeOK, SafeInv, Pool, Config
<1>1. UNCHANGED <<undisturbed, config, phase, seen, toRemove, toAdd, half>>
  BY DEF CommitTx
<1>2. CASE ~Quiet
  <2>1. ~Quiet'
    BY <1>1, <1>2 DEF Quiet
  <2> QED  BY <1>1, <2>1 DEF RunInv
<1>3. CASE Quiet
  <2>1. pc = "confirm" /\ pc' = "plan" /\ tx' = <<>>
    BY CommitPhase
  <2>2. /\ \A v \in config.validators : Attended(v)
        /\ phase # "end" =>
              Kept(pool.deposit, seen.deposit) /\ Kept(pool.withdraw, seen.withdraw)
        /\ phase = "end" =>
              /\ Planned("PreferDeposit", pool.deposit, seen.deposit, config.deposit)
              /\ Planned("PreferWithdraw", pool.withdraw, seen.withdraw, config.withdraw)
    BY <1>3, <2>1 DEF RunInv
  <2>3. CASE phase = "remove" /\ AfterRemoval(pool, pool')
    <3>1. ASSUME NEW v \in config.validators
          PROVE  Attended(v)'
      <4>1. pool'.list[v].status = pool.list[v].status
        BY <1>0, <2>3 DEF AfterRemoval
      <4> QED  BY <1>1, <2>2, <2>3, <4>1 DEF Attended
    <3>2. Kept(pool.deposit, seen.deposit)' /\ Kept(pool.withdraw, seen.withdraw)'
      <4>1. Kept(pool'.deposit, seen.deposit) /\ Kept(pool'.withdraw, seen.withdraw)
        BY <1>0, <2>2, <2>3, RemovalKeeps DEF AfterRemoval
      <4> QED  BY <1>1, <4>1 DEF Kept
    <3> QED  BY <1>1, <2>1, <2>3, <3>1, <3>2 DEF RunInv, SyncedAfterRun
  <2>4. CASE /\ phase = "add" /\ AfterAddition(pool, pool')
             /\ \A i \in 1 .. Len(tx) : pool'.list[tx[i].vote].status = "Active"
    <3>1. ASSUME NEW v \in config.validators
          PROVE  Attended(v)'
      <4>1. \/ pool'.list[v].status = pool.list[v].status
            \/ pool.list[v].status = "Absent" /\ pool'.list[v].status = "Active"
        BY <1>0, <2>4 DEF AfterAddition
      <4>2. CASE seen.list[v].status # "Absent"
        BY <1>1, <2>2, <4>1, <4>2 DEF Attended
      <4>3. CASE seen.list[v].status = "Absent"
        <5>1. v \in toAdd \/ pool'.list[v].status = "Active"
          BY <2>2, <2>4, <4>1, <4>3 DEF Attended
        <5> QED  BY <1>1, <2>4, <4>3, <5>1 DEF Attended
      <4> QED  BY <4>2, <4>3
    <3>2. pool'.deposit = pool.deposit /\ pool'.withdraw = pool.withdraw
      BY <2>4 DEF AfterAddition
    <3>3. Kept(pool.deposit, seen.deposit)' /\ Kept(pool.withdraw, seen.withdraw)'
      BY <1>1, <2>2, <2>4, <3>2 DEF Kept
    <3> QED  BY <1>1, <2>1, <2>4, <3>1, <3>3 DEF RunInv, SyncedAfterRun
  <2>5. CASE /\ phase = "end" /\ AfterPreference(pool, pool')
             /\ \A i \in 1 .. Len(tx) :
                   /\ tx[i].kind = "PreferDeposit" => pool'.deposit = config.deposit
                   /\ tx[i].kind = "PreferWithdraw" => pool'.withdraw = config.withdraw
    <3>1. ASSUME NEW v \in config.validators
          PROVE  Attended(v)'
      <4>1. pool'.list[v].status = pool.list[v].status
        BY <1>0, <2>5 DEF AfterPreference
      <4> QED  BY <1>1, <2>2, <2>5, <4>1 DEF Attended
    <3>2. /\ pool'.deposit = pool.deposit \/ pool'.deposit = config.deposit
          /\ pool'.withdraw = pool.withdraw \/ pool'.withdraw = config.withdraw
      BY <2>5 DEF AfterPreference
    <3>3. Planned("PreferDeposit", pool.deposit, seen.deposit, config.deposit)'
      BY <1>1, <2>2, <2>5, <3>2 DEF Planned, Kept
    <3>4. Planned("PreferWithdraw", pool.withdraw, seen.withdraw, config.withdraw)'
      BY <1>1, <2>2, <2>5, <3>2 DEF Planned, Kept
    <3> QED  BY <1>1, <2>1, <2>5, <3>1, <3>3, <3>4 DEF RunInv, SyncedAfterRun
  <2> QED  BY <1>3, <2>3, <2>4, <2>5, CommitPhase
<1> QED  BY <1>2, <1>3

\* The instructions of the preferences that differ.
LEMMA PreferSets ==
    /\ seen.deposit # config.deposit =>
          \E i \in 1 .. Len(PreferIxs) : PreferIxs[i].kind = "PreferDeposit"
    /\ seen.withdraw # config.withdraw =>
          \E i \in 1 .. Len(PreferIxs) : PreferIxs[i].kind = "PreferWithdraw"
<1> DEFINE d == Instruction("PreferDeposit", config.deposit, 0)
           w == Instruction("PreferWithdraw", config.withdraw, 0)
<1>1. d.kind = "PreferDeposit" /\ w.kind = "PreferWithdraw"
  BY DEF Instruction
<1>2. PreferIxs = (IF seen.deposit # config.deposit THEN <<d>> ELSE <<>>)
                  \o (IF seen.withdraw # config.withdraw THEN <<w>> ELSE <<>>)
  BY DEF PreferIxs
<1> HIDE DEF d, w
<1>3. ASSUME seen.deposit # config.deposit
      PROVE  \E i \in 1 .. Len(PreferIxs) : PreferIxs[i].kind = "PreferDeposit"
  <2>1. PICK b \in {<<>>, <<w>>} : PreferIxs = <<d>> \o b
    BY <1>2, <1>3
  <2>2. Len(PreferIxs) \in Nat /\ 1 \in 1 .. Len(PreferIxs) /\ PreferIxs[1] = d
    BY <2>1
  <2> QED  BY <1>1, <2>2
<1>4. ASSUME seen.withdraw # config.withdraw
      PROVE  \E i \in 1 .. Len(PreferIxs) : PreferIxs[i].kind = "PreferWithdraw"
  <2>1. PICK a \in {<<>>, <<d>>} : PreferIxs = a \o <<w>>
    BY <1>2, <1>4
  <2>2. Len(PreferIxs) \in 1 .. Len(PreferIxs) /\ PreferIxs[Len(PreferIxs)] = w
    <3>1. CASE a = <<>>
      BY <2>1, <3>1
    <3>2. CASE a = <<d>>
      BY <2>1, <3>2
    <3> QED  BY <3>1, <3>2
  <2> QED  BY <1>1, <2>2
<1> QED  BY <1>3, <1>4

\* Steps that neither end nor plan anything leave alone what a run has achieved.
LEMMA RunStep ==
    ASSUME TypeInv, SafeInv, RunInv, Step
    PROVE  RunInv'
<1>0. /\ TypeOK /\ PhaseInv /\ PlanInv /\ tx \in Seq(Ix) /\ config.validators \subseteq Votes
  BY DEF TypeInv, TypeOK, SafeInv, Config, RunInv
<1>1. CASE FetchPool
  <2>1. /\ pc' = "fetch_list" /\ UNCHANGED chain
        /\ seen'.deposit = pool.deposit /\ seen'.withdraw = pool.withdraw
    BY <1>1 DEF FetchPool
  <2> QED  BY <2>1 DEF RunInv, SyncedAfterRun, chain
<1>2. CASE FetchList
  <2>1. /\ pc = "fetch_list" /\ pc' = "update" /\ UNCHANGED <<chain, config, undisturbed>>
        /\ seen'.deposit = seen.deposit /\ seen'.withdraw = seen.withdraw
        /\ seen'.epoch = seen.epoch /\ seen'.poolEpoch = seen.poolEpoch
        /\ seen'.list = pool.list
    BY <1>0, <1>2 DEF FetchList, TypeOK
  <2> QED  BY <1>0, <2>1 DEF RunInv, Quiet, SyncedAfterRun, chain
<1>3. CASE UpdateNotRequired
  <2>1. pc = "update" /\ pc' = "fetch_vsas" /\ UNCHANGED <<chain, config, undisturbed, seen>>
    BY <1>3 DEF UpdateNotRequired
  <2> QED  BY <1>0, <2>1 DEF RunInv, Quiet, SyncedAfterRun, chain
<1>4. CASE UpdatePool
  <2>1. /\ pc = "update" /\ pc' = "fetch_vsas" /\ seen.poolEpoch < seen.epoch
        /\ UNCHANGED seen
    BY <1>4 DEF UpdatePool
  <2>2. ~Quiet'
    <3>1. seen.poolEpoch # seen.epoch
      BY <1>0, <2>1 DEF TypeOK
    <3> QED  BY <2>1, <3>1 DEF Quiet
  <2> QED  BY <1>0, <2>1, <2>2 DEF RunInv
<1>5. CASE FetchVsas
  <2>1. /\ pc = "fetch_vsas" /\ pc' \in {"plan", "panicked"} /\ phase = "remove"
        /\ toAdd' = {v \in config.validators : seen.list[v].status = "Absent"}
        /\ UNCHANGED <<pool, late, config, undisturbed, phase, tx>>
    BY <1>0, <1>5 DEF FetchVsas, PhaseInv, chain
  <2>2. /\ seen'.deposit = seen.deposit /\ seen'.withdraw = seen.withdraw
        /\ seen'.epoch = seen.epoch /\ seen'.poolEpoch = seen.poolEpoch
        /\ \A v \in Votes : seen'.list[v].status = seen.list[v].status
    <3>1. CASE UNCHANGED seen
      BY <3>1
    <3>2. CASE seen' = [seen EXCEPT !.list =
                  [v \in Votes |-> [seen.list[v] EXCEPT !.live = pool.list[v].live]]]
      <4>1. \A v \in Votes : seen.list[v] \in Entry
        BY <1>0 DEF TypeOK
      <4>2. \A v \in Votes : [seen.list[v] EXCEPT !.live = pool.list[v].live].status
                                = seen.list[v].status
        BY <4>1 DEF Entry
      <4> QED  BY <1>0, <3>2, <4>2 DEF TypeOK
    <3> QED  BY <1>5, <3>1, <3>2 DEF FetchVsas
  <2>3. CASE Quiet'
    <3>1. /\ Quiet /\ pool.deposit = seen.deposit /\ pool.withdraw = seen.withdraw
          /\ \A v \in Votes : seen.list[v].status = pool.list[v].status
      <4>1. Quiet
        BY <2>1, <2>2, <2>3 DEF Quiet
      <4> QED  BY <2>1, <4>1 DEF RunInv
    <3>2. \A v \in config.validators : Attended(v)'
      BY <1>0, <2>1, <2>2, <3>1 DEF Attended
    <3> QED  BY <1>0, <2>1, <2>2, <3>1, <3>2 DEF RunInv, SyncedAfterRun, Kept
  <2> QED  BY <1>0, <2>1, <2>3 DEF RunInv
<1>6. ASSUME NEW v \in Votes, EmitDecrease(v) \/ EmitRemove(v)
      PROVE  RunInv'
  <2>1. /\ pc = "plan" /\ phase = "remove"
        /\ UNCHANGED <<pool, late, config, pc, phase, seen, toAdd, undisturbed>>
    BY <1>6 DEF EmitDecrease, EmitRemove, RoomToRemove, chain
  <2>2. ASSUME NEW u \in config.validators, Attended(u)
        PROVE  Attended(u)'
    BY <2>1, <2>2 DEF Attended
  <2> QED  BY <1>0, <2>1, <2>2 DEF RunInv, Quiet, SyncedAfterRun, Kept
<1>7. ASSUME NEW v \in Votes, EmitAdd(v)
      PROVE  RunInv'
  <2> DEFINE ix == Instruction("Add", v, 0)
  <2>1. /\ pc = "plan" /\ phase = "add" /\ toAdd' = toAdd \ {v} /\ tx' = tx \o <<ix>>
        /\ UNCHANGED <<pool, late, config, pc, phase, seen, undisturbed>>
    BY <1>7 DEF EmitAdd, Emit, chain
  <2>2. ix \in Ix /\ ix.vote = v
    BY <1>0, PlanType DEF Instruction
  <2> HIDE DEF ix
  <2>3. /\ Len(tx') = Len(tx) + 1 /\ tx'[Len(tx')] = ix /\ Len(tx) \in Nat
        /\ \A i \in 1 .. Len(tx) : i \in 1 .. Len(tx') /\ tx'[i] = tx[i]
    BY <1>0, <2>1, <2>2, Emitted
  <2>4. ASSUME NEW u \in config.validators, Attended(u)
        PROVE  Attended(u)'
    <3>1. CASE seen.list[u].status # "Absent"
      BY <2>1, <2>4, <3>1 DEF Attended
    <3>2. CASE seen.list[u].status = "Absent"
      <4>1. \/ u \in toAdd' \/ pool.list[u].status = "Active"
            \/ \E i \in 1 .. Len(tx') : tx'[i].vote = u
        <5>1. CASE u = v
          <6>1. Len(tx') \in 1 .. Len(tx')
            BY <2>3
          <6> QED  BY <2>2, <2>3, <5>1, <6>1
        <5>2. CASE u # v
          BY <2>1, <2>3, <2>4, <3>2, <5>2 DEF Attended
        <5> QED  BY <5>1, <5>2
      <4> QED  BY <2>1, <3>2, <4>1 DEF Attended
    <3> QED  BY <3>1, <3>2
  <2> QED  BY <1>0, <2>1, <2>4 DEF RunInv, Quiet, SyncedAfterRun, Kept
<1>8. CASE EmitPreferred
  <2>1. /\ pc = "plan" /\ phase = "prefer" /\ phase' = "end" /\ tx = <<>> /\ tx' = tx \o PreferIxs
        /\ UNCHANGED <<pool, late, config, pc, seen, toAdd, undisturbed>>
    BY <1>8 DEF EmitPreferred, Emit, PreferIxs, chain
  <2>2. tx' = PreferIxs
    BY <1>0, <2>1, PreferType
  <2>3. ASSUME NEW u \in config.validators, Attended(u)
        PROVE  Attended(u)'
    BY <2>1, <2>3 DEF Attended
  <2>4. CASE Quiet'
    <3>1. /\ \A u \in config.validators : Attended(u)
          /\ Kept(pool.deposit, seen.deposit) /\ Kept(pool.withdraw, seen.withdraw)
      <4>1. Quiet
        BY <2>1, <2>4 DEF Quiet
      <4> QED  BY <2>1, <4>1 DEF RunInv
    <3>2. Planned("PreferDeposit", pool.deposit, seen.deposit, config.deposit)'
      BY <2>1, <2>2, <3>1, PreferSets DEF Planned, Kept
    <3>3. Planned("PreferWithdraw", pool.withdraw, seen.withdraw, config.withdraw)'
      BY <2>1, <2>2, <3>1, PreferSets DEF Planned, Kept
    <3> QED  BY <1>0, <2>1, <2>3, <3>1, <3>2, <3>3 DEF RunInv, SyncedAfterRun
  <2> QED  BY <1>0, <2>1, <2>4 DEF RunInv
<1>9. CASE SendTx
  <2>1. /\ pc = "plan" /\ pc' = "confirm"
        /\ UNCHANGED <<pool, config, phase, seen, toAdd, tx, undisturbed>>
    BY <1>9 DEF SendTx, chain
  <2>2. ASSUME NEW u \in config.validators, Attended(u)
        PROVE  Attended(u)'
    BY <2>1, <2>2 DEF Attended
  <2> QED  BY <2>1, <2>2 DEF RunInv, Quiet, SyncedAfterRun, Kept, Planned
<1>10. CASE NextPhase
  <2>1. /\ pc = "plan" /\ tx = <<>> /\ PhaseEmitted
        /\ UNCHANGED <<pool, late, config, seen, toAdd, tx, undisturbed>>
        /\ \/ pc' = "done" /\ phase' = phase /\ phase \in {"prefer", "end"}
           \/ pc' = "plan" /\ phase = "remove" /\ phase' = "add"
           \/ pc' = "plan" /\ phase = "add" /\ phase' = "prefer"
    BY <1>0, <1>10 DEF NextPhase, TypeOK, chain
  <2>2. ~(\E i \in 1 .. Len(tx) : TRUE)
    BY <2>1
  <2>3. CASE Quiet'
    <3>1. /\ Quiet /\ \A u \in config.validators : Attended(u)
      <4>1. Quiet
        BY <2>1, <2>3 DEF Quiet
      <4> QED  BY <2>1, <4>1 DEF RunInv
    <3>2. CASE pc' = "plan"
      <4>1. Kept(pool.deposit, seen.deposit) /\ Kept(pool.withdraw, seen.withdraw)
        BY <2>1, <3>1, <3>2 DEF RunInv
      <4>2. ASSUME NEW u \in config.validators
            PROVE  Attended(u)'
        <5>1. Attended(u)
          BY <3>1
        <5>2. phase = "add" => toAdd = {}
          BY <2>1 DEF PhaseEmitted
        <5> QED  BY <2>1, <2>2, <3>2, <5>1, <5>2 DEF Attended
      <4> QED  BY <1>0, <2>1, <3>2, <4>1, <4>2 DEF RunInv, SyncedAfterRun, Kept
    <3>3. CASE pc' = "done"
      <4>1. phase \in {"prefer", "end"} /\ Unwanted(pool) = {}
        BY <1>0, <2>1, <3>3 DEF PlanInv
      <4>2. \A u \in config.validators :
               /\ seen.list[u].status # "Absent" => pool.list[u].status = seen.list[u].status
               /\ seen.list[u].status = "Absent" => pool.list[u].status = "Active"
        BY <3>1, <4>1 DEF Attended
      <4>3. \A u \in Votes : Active(pool, u) <=> pool.list[u].status = "Active"
        BY ListConstants DEF Active
      <4>4. \A u \in Votes : seen.list[u].status \in Statuses
        BY <1>0 DEF TypeOK, Entry
      <4>5. {u \in Votes : Active(pool, u)}
              = {u \in config.validators : seen.list[u].status # "Deactivating"}
        BY <1>0, <4>1, <4>2, <4>3, <4>4 DEF Unwanted, Statuses
      <4>6. ASSUME {config.deposit, config.withdraw} \subseteq config.validators \cup {None}
            PROVE  pool.deposit = config.deposit /\ pool.withdraw = config.withdraw
        <5>1. CASE phase = "prefer"
          BY <2>1, <3>1, <4>6, <5>1 DEF RunInv, PhaseEmitted, Kept
        <5>2. CASE phase = "end"
          BY <2>1, <2>2, <3>1, <4>6, <5>2 DEF RunInv, Planned, Kept
        <5> QED  BY <4>1, <5>1, <5>2
      <4>7. SyncedAfterRun'
        BY <2>1, <4>5, <4>6 DEF SyncedAfterRun, Active
      <4> QED  BY <1>0, <2>1, <3>3, <4>7 DEF RunInv
    <3> QED  BY <2>1, <3>2, <3>3
  <2> QED  BY <1>0, <2>1, <2>3 DEF RunInv
<1> QED  BY <1>1, <1>2, <1>3, <1>4, <1>5, <1>6, <1>7, <1>8, <1>9, <1>10 DEF Step

\* So does everything else.
LEMMA RunNext ==
    ASSUME TypeInv, SafeInv, RunInv, [Next]_vars
    PROVE  RunInv'
<1>1. CASE Crash
  BY <1>1 DEF Crash, RunInv, SyncedAfterRun
<1>2. CASE AbortTx
  BY <1>2 DEF AbortTx, RunInv, SyncedAfterRun
<1>3. CASE LoseTx
  BY <1>3 DEF LoseTx, RunInv, Quiet
<1>4. ASSUME AdvanceEpoch \/ \E v \in Votes : DepositStake(v) \/ DeactivateDelinquent(v)
      PROVE  RunInv'
  <2>1. undisturbed' = FALSE
    BY <1>4 DEF AdvanceEpoch, DepositStake, DeactivateDelinquent, Interfere, Others
  <2> QED  BY <2>1 DEF RunInv, Quiet
<1>5. CASE UNCHANGED vars
  BY <1>5 DEF vars, chain, command, RunInv, Quiet, Attended, Kept, Planned, SyncedAfterRun, Active
<1>6. ASSUME NEW t \in late, LandLate(t)
      PROVE  RunInv'
  BY <1>6 DEF LandLate, RunInv, Quiet
<1>7. ASSUME NEW t \in late, DropLate(t)
      PROVE  RunInv'
  <2>1. UNCHANGED <<pool, command, undisturbed>>
    BY <1>7 DEF DropLate
  <2> QED  BY <2>1 DEF command, RunInv, Quiet, Attended, Kept, Planned, SyncedAfterRun, Active
<1> QED  BY <1>1, <1>2, <1>3, <1>4, <1>5, <1>6, <1>7, RunStep, RunCommit DEF Next, Runtime

\* A run that nobody disturbs on a pool that was up to date leaves the list and the preferences
\* as the config asks, however many chunks they take.
THEOREM SyncedCorrect == Spec => []SyncedAfterRun
<1> DEFINE Inv == TypeInv /\ SafeInv /\ RunInv
<1>1. Init => Inv
  <2>1. Init => RunInv
    BY DEF Init, RunInv, Quiet
  <2> QED  BY <2>1, InitType, InitAllowed
<1>2. Inv /\ [Next]_vars => Inv'
  BY TypeStep, SafeStep, RunNext
<1>3. Inv => SyncedAfterRun
  BY DEF RunInv, Quiet, SyncedAfterRun
<1> HIDE DEF Inv
<1> QED  BY <1>1, <1>2, <1>3, PTL DEF Spec

-----------------------------------------------------------------------------
(* An undisturbed run does not panic.                                      *)

\* Validators of the config that the pool does not have.
Missing(p) == {v \in config.validators : p.list[v].status # "Active"}

\* The reserve can pay for all of them, and for the accounts of a decrease.
Solvent(p) == p.reserve >= 2 * Rent + NewVsa * Cardinality(Missing(p))

\* What the list says of a validator's stake is what its stake account holds.
Counts(p) == \A v \in Votes : p.list[v].status = "Active" /\ p.list[v].live =>
                                 p.list[v].vsa = p.list[v].active_stake_lamports

Tally(p) == Solvent(p) /\ (poolEpoch = epoch => Counts(p))

\* The books are right, whoever else uses the pool.
BooksInv == poolEpoch <= epoch /\ Tally(pool)

\* The pool that the run has found asks nothing of it that it cannot do: see
\* UndisturbedRunNeverPanics.
Careful ==
    /\ Quiet
    /\ Cardinality({v \in Removed : NeedsDecrease(v)}) <= 1
    /\ \A v \in Removed : /\ seen.list[v].activating = 0
                          /\ NeedsDecrease(v) => LamportsToDecrease(v) >= NewVsa
    /\ \A v \in {config.deposit, config.withdraw} \ {None} :
          v \in config.validators /\ seen.list[v].status # "Deactivating"

\* No instruction about the validator has been executed since the list was fetched.
AsSeen(v) == pool.list[v] = seen.list[v]

\* Its stake has been moved out as far as it has to be for the removal.
Drained(p, v) == /\ p.list[v].status = "Active" /\ p.list[v].activating = 0
                 /\ p.list[v].live => p.list[v].vsa <= NewVsa

\* What a transaction has done before its i-th instruction is what that instruction needs.
Before(ixs, i) == {ixs[j] : j \in 1 .. (i - 1)}
DecreaseReady(ixs, i) ==
    LET v == ixs[i].vote
    IN  /\ v \in Removed /\ NeedsDecrease(v) /\ AsSeen(v)
        /\ ixs[i].amt = LamportsToDecrease(v)
        /\ \A ix \in Before(ixs, i) : ix.kind = "Remove" /\ ix.vote # v
RemoveReady(ixs, i) ==
    LET v == ixs[i].vote
    IN  /\ \A ix \in Before(ixs, i) : ix.vote = v => ix.kind = "Decrease"
        /\ \/ Drained(pool, v)
           \/ \E ix \in Before(ixs, i) : ix.vote = v
RemovalsReady(ixs) ==
    \A i \in 1 .. Len(ixs) : \/ ixs[i].kind = "Decrease" /\ DecreaseReady(ixs, i)
                             \/ ixs[i].kind = "Remove" /\ RemoveReady(ixs, i)
AdditionsReady(ixs) ==
    \A i \in 1 .. Len(ixs) : /\ pool.list[ixs[i].vote].status = "Absent"
                             /\ \A ix \in Before(ixs, i) : ix.vote # ixs[i].vote

\* A transaction is not about a validator.
Leaves(ixs, v) == \A i \in 1 .. Len(ixs) : ixs[i].vote # v

\* Half of the work on a validator is done, or in the transaction.
Halfway(v) ==
    /\ \A i \in 1 .. Len(tx) : tx[i].vote = v => tx[i].kind = "Decrease"
    /\ Drained(pool, v) \/ \E i \in 1 .. Len(tx) : tx[i].vote = v

\* What is planned will be accepted.
PlanReady ==
    /\ phase = "remove" =>
          /\ RemovalsReady(tx)
          /\ \A v \in toAdd : pool.list[v].status = "Absent"
          /\ \A v \in toRemove \ {half} : v \in Removed /\ AsSeen(v) /\ Leaves(tx, v)
          /\ half # None => Halfway(half)
    /\ phase = "add" =>
          /\ AdditionsReady(tx)
          /\ \A v \in toAdd : pool.list[v].status = "Absent" /\ Leaves(tx, v)

\* An undisturbed run works on the pool that it has fetched, and plans what the program accepts.
CareInv ==
    /\ Quiet => poolEpoch = epoch /\ seen.epoch = epoch
    /\ Quiet /\ pc \in {"update", "fetch_vsas"} => seen.list = pool.list
    /\ Careful => pc # "panicked"
    /\ Careful /\ pc \in {"plan", "confirm"} => PlanReady

\* What one instruction does to the reserve and to the validators' stake.
LEMMA EffectOnStake ==
    ASSUME NEW p \in Pool, NEW ix \in Ix, Allowed(p, ix)
    PROVE  LET q == Effect(p, ix)
               v == ix.vote
               e == p.list[v]
               f == q.list[v]
           IN  /\ q.reserve = IF ix.kind = "Add" THEN p.reserve - NewVsa ELSE p.reserve
               /\ \A u \in Votes \ {v} : q.list[u] = p.list[u]
               /\ ix.kind \in {"PreferDeposit", "PreferWithdraw"} => q.list = p.list
               /\ ix.kind \in {"Decrease", "Remove", "Add"} => v \in Votes
               /\ ix.kind = "Decrease" =>
                     /\ e.vsa >= ix.amt + NewVsa /\ e.status = "Active" /\ f.status = e.status
                     /\ f.live = e.live /\ e.live /\ f.activating = 0
                     /\ f.vsa = e.vsa - ix.amt
                     /\ f.active_stake_lamports = SatSub(e.active_stake_lamports, ix.amt)
               /\ ix.kind = "Remove" => f.status = "Deactivating"
               /\ ix.kind = "Add" =>
                     /\ e.status = "Absent" /\ p.reserve >= NewVsa + Rent
                     /\ f.status = "Active" /\ f.vsa = NewVsa /\ f.active_stake_lamports = NewVsa
<1>0. p.list \in [Votes -> Entry] /\ \A u \in Votes : p.list[u] \in Entry
  BY DEF Pool
<1>1. PICK e : e.pool = p /\ Accepts(e, ix)
  BY DEF Allowed
<1> DEFINE q == Effect(p, ix)
           v == ix.vote
<1>2. CASE ix.kind = "Decrease"
  <2>1. q = [p EXCEPT !.list[v].vsa = @ - ix.amt,
                      !.list[v].active_stake_lamports = SatSub(@, ix.amt)]
    BY <1>2 DEF Effect
  <2>2. /\ v \in Votes /\ p.list[v].status = "Active" /\ p.list[v].live
        /\ p.list[v].activating = 0 /\ p.list[v].vsa >= ix.amt + NewVsa
    BY <1>1, <1>2 DEF Accepts, Active, Ix
  <2>3. /\ q.reserve = p.reserve /\ \A u \in Votes \ {v} : q.list[u] = p.list[u]
        /\ q.list[v].status = p.list[v].status /\ q.list[v].live = p.list[v].live
        /\ q.list[v].activating = p.list[v].activating
        /\ q.list[v].vsa = p.list[v].vsa - ix.amt
        /\ q.list[v].active_stake_lamports = SatSub(p.list[v].active_stake_lamports, ix.amt)
    <3> HIDE DEF q, v
    <3> QED  BY <1>0, <2>1, <2>2 DEF Pool, Entry
  <2> QED  BY <1>2, <2>2, <2>3
<1>3. CASE ix.kind = "Remove"
  <2>1. q = [p EXCEPT !.list[v].status = "Deactivating", !.list[v].live = FALSE,
                      !.deposit = IF @ = v THEN None ELSE @,
                      !.withdraw = IF @ = v THEN None ELSE @]
    BY <1>3 DEF Effect
  <2>2. v \in Votes
    BY <1>3 DEF Ix
  <2>3. /\ q.reserve = p.reserve /\ \A u \in Votes \ {v} : q.list[u] = p.list[u]
        /\ q.list[v].status = "Deactivating"
    <3> HIDE DEF q, v
    <3> QED  BY <1>0, <2>1, <2>2 DEF Pool, Entry
  <2> QED  BY <1>3, <2>2, <2>3
<1>4. CASE ix.kind = "Add"
  <2> DEFINE f == [NoEntry EXCEPT !.status = "Active", !.live = TRUE,
                                  !.active_stake_lamports = NewVsa, !.vsa = NewVsa,
                                  !.last_update_epoch = epoch]
  <2>1. q = [p EXCEPT !.list[v] = f, !.reserve = @ - NewVsa]
    BY <1>4 DEF Effect
  <2>2. v \in Votes /\ p.list[v].status = "Absent" /\ p.reserve >= NewVsa + Rent
    BY <1>1, <1>4 DEF Accepts, Ix
  <2>3. f.status = "Active" /\ f.vsa = NewVsa /\ f.active_stake_lamports = NewVsa
    BY DEF NoEntry
  <2>4. /\ q.list[v] = f /\ q.reserve = p.reserve - NewVsa
        /\ \A u \in Votes \ {v} : q.list[u] = p.list[u]
    <3> HIDE DEF q, v, f
    <3> QED  BY <1>0, <2>1, <2>2 DEF Pool
  <2> HIDE DEF f
  <2> QED  BY <1>4, <2>2, <2>3, <2>4
<1>5. CASE ix.kind = "PreferDeposit"
  <2>1. q = [p EXCEPT !.deposit = v]
    BY <1>5 DEF Effect
  <2>2. q.list = p.list /\ q.reserve = p.reserve
    <3> HIDE DEF q, v
    <3> QED  BY <2>1 DEF Pool
  <2> QED  BY <1>5, <2>2
<1>6. CASE ix.kind = "PreferWithdraw"
  <2>1. q = [p EXCEPT !.withdraw = v]
    BY <1>6 DEF Effect
  <2>2. q.list = p.list /\ q.reserve = p.reserve
    <3> HIDE DEF q, v
    <3> QED  BY <2>1 DEF Pool
  <2> QED  BY <1>6, <2>2
<1> QED  BY <1>2, <1>3, <1>4, <1>5, <1>6 DEF Ix

\* A validator less to pay for.
LEMMA OneLessMissing ==
    ASSUME IsFiniteSet(Votes), config \in Config, NEW p, NEW q, NEW v \in Missing(p),
           p.reserve \in Nat, Solvent(p)
    PROVE  /\ p.reserve >= 2 * Rent + NewVsa
           /\ Missing(q) = Missing(p) \ {v} /\ q.reserve = p.reserve - NewVsa => Solvent(q)
<1>1. Missing(p) \subseteq Votes /\ IsFiniteSet(Missing(p))
  <2>1. Missing(p) \subseteq Votes
    BY DEF Missing, Config
  <2> QED  BY <2>1, FS_Subset
<1> DEFINE c == Cardinality(Missing(p))
           d == Cardinality(Missing(p) \ {v})
<1>2. c \in Nat /\ d \in Nat /\ d = c - 1
  BY <1>1, FS_CardinalityType, FS_RemoveElement
<1>3. NewVsa \in Nat /\ Rent \in Nat /\ p.reserve >= 2 * Rent + NewVsa * c
  BY ListConstants DEF Solvent
<1> HIDE DEF c, d
<1>4. NewVsa * c = NewVsa * d + NewVsa /\ NewVsa * d \in Nat
  <2>1. c = d + 1
    BY <1>2
  <2> QED  BY <1>2, <1>3, <2>1
<1>5. p.reserve >= 2 * Rent + NewVsa /\ p.reserve - NewVsa >= 2 * Rent + NewVsa * d
  BY <1>2, <1>3, <1>4
<1> QED  BY <1>5 DEF Solvent, d

\* An instruction that removes nobody whom the config names, and adds nobody else.
InPlan(ix) == /\ ix.kind = "Remove" => ix.vote \notin config.validators
              /\ ix.kind = "Add" => ix.vote \in config.validators

\* The books are right after an instruction if they were before.
LEMMA EffectTally ==
    ASSUME IsFiniteSet(Votes), config \in Config, NEW p \in Pool, NEW ix \in Ix,
           Allowed(p, ix), InPlan(ix), Tally(p)
    PROVE  Tally(Effect(p, ix))
<1> DEFINE q == Effect(p, ix)
           v == ix.vote
<1>0. /\ p.reserve \in Nat /\ NewVsa \in Nat /\ Rent \in Nat /\ ix.amt \in Nat
      /\ \A u \in Votes : p.list[u] \in Entry
      /\ config.validators \subseteq Votes
  BY ListConstants DEF Pool, Ix, Config
<1>1. /\ q.reserve = IF ix.kind = "Add" THEN p.reserve - NewVsa ELSE p.reserve
      /\ \A u \in Votes \ {v} : q.list[u] = p.list[u]
      /\ ix.kind \in {"PreferDeposit", "PreferWithdraw"} => q.list = p.list
      /\ ix.kind \in {"Decrease", "Remove", "Add"} => v \in Votes
      /\ ix.kind = "Decrease" =>
            /\ p.list[v].vsa >= ix.amt + NewVsa /\ p.list[v].status = "Active"
            /\ q.list[v].status = p.list[v].status
            /\ q.list[v].live = p.list[v].live
            /\ q.list[v].vsa = p.list[v].vsa - ix.amt
            /\ q.list[v].active_stake_lamports = SatSub(p.list[v].active_stake_lamports, ix.amt)
      /\ ix.kind = "Remove" => q.list[v].status = "Deactivating"
      /\ ix.kind = "Add" =>
            /\ p.list[v].status = "Absent"
            /\ q.list[v].status = "Active" /\ q.list[v].vsa = NewVsa
            /\ q.list[v].active_stake_lamports = NewVsa
  BY EffectOnStake
<1>2. ix.kind \in {"Decrease", "Remove", "Add", "PreferDeposit", "PreferWithdraw"}
      /\ InPlan(ix) /\ Solvent(p) /\ (poolEpoch = epoch => Counts(p))
  BY DEF Ix, Tally
<1> HIDE DEF q, v
<1>3. Solvent(q)
  <2>1. CASE ix.kind = "Add"
    <3>1. v \in Missing(p) /\ Missing(q) = Missing(p) \ {v}
      BY <1>0, <1>1, <1>2, <2>1 DEF Missing, InPlan, v
    <3> QED  BY <1>0, <1>1, <1>2, <2>1, <3>1, OneLessMissing
  <2>2. CASE ix.kind # "Add"
    <3>1. Missing(q) = Missing(p)
      <4>1. \A u \in config.validators : q.list[u].status = p.list[u].status
        BY <1>0, <1>1, <1>2, <2>2 DEF InPlan, v
      <4> QED  BY <4>1 DEF Missing
    <3> QED  BY <1>1, <1>2, <2>2, <3>1 DEF Solvent
  <2> QED  BY <2>1, <2>2
<1>4. ASSUME Counts(p)
      PROVE  Counts(q)
  <2> SUFFICES ASSUME NEW u \in Votes, q.list[u].status = "Active", q.list[u].live
               PROVE  q.list[u].vsa = q.list[u].active_stake_lamports
    BY DEF Counts
  <2>1. CASE q.list[u] = p.list[u]
    BY <1>4, <2>1 DEF Counts
  <2>2. CASE u = v /\ ix.kind = "Add"
    BY <1>1, <2>2
  <2>3. CASE u = v /\ ix.kind = "Remove"
    BY <1>1, <2>3
  <2>4. CASE u = v /\ ix.kind = "Decrease"
    <3>1. p.list[v].vsa = p.list[v].active_stake_lamports /\ p.list[v].vsa \in Nat
      BY <1>0, <1>1, <1>4, <2>4 DEF Counts, Entry
    <3> QED  BY <1>0, <1>1, <2>4, <3>1 DEF SatSub
  <2> QED  BY <1>1, <1>2, <2>1, <2>2, <2>3, <2>4
<1> QED  BY <1>2, <1>3, <1>4 DEF Tally, q

\* The books are right after an accepted transaction if they were before.
LEMMA TallyInduction ==
    ASSUME IsFiniteSet(Votes), config \in Config, NEW ixs \in Seq(Ix),
           \A i \in 1 .. Len(ixs) : InPlan(ixs[i]),
           NEW pools, Performs(pools, ixs), Tally(pools[0])
    PROVE  Tally(pools[Len(ixs)])
<1> DEFINE n == Len(ixs)
           T == {i \in 0 .. n : Tally(pools[i])}
<1>1. n \in Nat /\ \A i \in 1 .. n : ixs[i] \in Ix
  OBVIOUS
<1>2. 0 \in T
  BY <1>1
<1>3. ASSUME NEW i \in 1 .. n, i - 1 \in T
      PROVE  i \in T
  <2>1. /\ pools[i - 1] \in Pool /\ ixs[i] \in Ix /\ Allowed(pools[i - 1], ixs[i])
        /\ pools[i] = Effect(pools[i - 1], ixs[i]) /\ InPlan(ixs[i]) /\ Tally(pools[i - 1])
    BY <1>1, <1>3 DEF Performs
  <2>2. Tally(pools[i])
    BY <2>1, EffectTally
  <2> QED  BY <1>1, <2>2
<1>4. 0 .. n \subseteq T
  <2> HIDE DEF T, n
  <2> QED  BY <1>1, <1>2, <1>3, Induction
<1> QED  BY <1>1, <1>4

\* Whatever is sent is in plan.
LEMMA BatchInPlan ==
    ASSUME NEW ixs \in Seq(Ix), Batch(ixs)
    PROVE  \A i \in 1 .. Len(ixs) : InPlan(ixs[i])
BY DEF Batch, Removes, Adds, Prefers, InPlan

\* Merging and counting the stake accounts makes the list say what they hold.
LEMMA RefreshedCounts ==
    ASSUME TypeOK, NEW e \in Entry
    PROVE  Refreshed(e).status = "Active" =>
              e.status = "Active" /\ Refreshed(e).vsa = Refreshed(e).active_stake_lamports
<1>1. CASE e.status # "Active"
  BY <1>1 DEF Refreshed, NoEntry
<1>2. CASE e.status = "Active"
  <2> DEFINE merged == IF e.since < epoch THEN e.activating ELSE 0
  <2>1. Refreshed(e) = [e EXCEPT !.vsa = @ + merged, !.activating = @ - merged,
                                 !.active_stake_lamports = e.vsa + merged,
                                 !.last_update_epoch = epoch]
    BY <1>2 DEF Refreshed
  <2> HIDE DEF merged
  <2> QED  BY <1>2, <2>1 DEF Entry
<1> QED  BY <1>1, <1>2

\* Validators whose place in the pool stays the same cost the reserve nothing.
LEMMA SamePlaces ==
    ASSUME TypeOK, config' = config, pool'.reserve = pool.reserve, Solvent(pool),
           \A v \in Votes : pool'.list[v].status = "Active" <=> pool.list[v].status = "Active"
    PROVE  Solvent(pool)'
<1>1. Missing(pool)' = Missing(pool)
  BY DEF Missing, TypeOK, Config
<1> QED  BY <1>1 DEF Solvent

\* The books stay right.
LEMMA BooksStep ==
    ASSUME IsFiniteSet(Votes), TypeInv, SafeInv, BooksInv, [Next]_vars
    PROVE  BooksInv'
<1>0. /\ TypeOK /\ pool \in Pool /\ config \in Config /\ epoch \in Nat /\ poolEpoch \in Nat
      /\ epoch \in 0 .. MaxEpoch /\ poolEpoch <= epoch /\ Extra \in Nat
      /\ \A v \in Votes : pool.list[v] \in Entry
      /\ Solvent(pool) /\ (poolEpoch = epoch => Counts(pool))
  BY ListConstants DEF TypeInv, TypeOK, BooksInv, Tally, Pool
<1>1. ASSUME NEW ixs \in Seq(Ix), Batch(ixs), Execute(pool, ixs).ok,
             pool' = Execute(pool, ixs).pool, UNCHANGED <<epoch, poolEpoch, config>>
      PROVE  BooksInv'
  <2>1. PICK pools : Performs(pools, ixs) /\ pools[0] = pool /\ pools[Len(ixs)] = pool'
    BY <1>0, <1>1, ExecutePerforms
  <2>2. \A i \in 1 .. Len(ixs) : InPlan(ixs[i])
    BY <1>1, BatchInPlan
  <2>3. Tally(pools[Len(ixs)])
    BY <1>0, <1>1, <2>1, <2>2, TallyInduction DEF Tally
  <2>4. Tally(pool)'
    BY <1>1, <2>1, <2>3 DEF Tally, Solvent, Missing, Counts
  <2> QED  BY <1>0, <1>1, <2>4 DEF BooksInv
<1>8. CASE CommitTx
  <2>1. tx \in Seq(Ix) /\ Batch(tx)
    BY <1>0, <1>8, PlanBatch DEF CommitTx, TypeOK, SafeInv
  <2> QED  BY <1>1, <1>8, <2>1 DEF CommitTx
<1>9. ASSUME NEW t \in late, LandLate(t)
      PROVE  BooksInv'
  <2>1. t \in Seq(Ix) /\ Batch(t)
    BY <1>0 DEF TypeOK, SafeInv
  <2> QED  BY <1>1, <1>9, <2>1 DEF LandLate, command
<1>2. CASE AdvanceEpoch
  <2>1. epoch' = epoch + 1 /\ poolEpoch' = poolEpoch /\ config' = config
    BY <1>2 DEF AdvanceEpoch, Others, command
  <2>2. PICK r : pool' = [pool EXCEPT !.list =
                     [v \in Votes |-> IF v \in r
                                      THEN [pool.list[v] EXCEPT !.vsa = @ + Extra]
                                      ELSE pool.list[v]]]
    BY <1>2 DEF AdvanceEpoch
  <2>3. \A v \in Votes : [pool.list[v] EXCEPT !.vsa = @ + Extra].status = pool.list[v].status
    BY <1>0 DEF Entry
  <2>4. pool'.reserve = pool.reserve
        /\ \A v \in Votes : pool'.list[v].status = pool.list[v].status
    BY <1>0, <2>2, <2>3 DEF Pool
  <2>5. Solvent(pool)'
    BY <1>0, <2>1, <2>4, SamePlaces
  <2>6. poolEpoch' <= epoch' /\ poolEpoch' # epoch'
    BY <1>0, <2>1
  <2> QED  BY <2>5, <2>6 DEF BooksInv, Tally
<1>3. ASSUME NEW v \in Votes, DepositStake(v)
      PROVE  BooksInv'
  <2>1. /\ UNCHANGED <<epoch, poolEpoch, config>> /\ pool.list[v] \in Entry
        /\ pool' = [pool EXCEPT !.list[v].vsa = @ + Extra,
                                !.list[v].active_stake_lamports = @ + Extra]
    BY <1>0, <1>3 DEF DepositStake, Interfere, Others, command
  <2>2. /\ pool'.reserve = pool.reserve /\ \A u \in Votes \ {v} : pool'.list[u] = pool.list[u]
        /\ pool'.list[v].status = pool.list[v].status /\ pool'.list[v].live = pool.list[v].live
        /\ pool'.list[v].vsa = pool.list[v].vsa + Extra
        /\ pool'.list[v].active_stake_lamports = pool.list[v].active_stake_lamports + Extra
    BY <1>0, <2>1 DEF Pool, Entry
  <2>3. Solvent(pool)'
    BY <1>0, <2>1, <2>2, SamePlaces
  <2>4. Counts(pool) => Counts(pool)'
    BY <2>2 DEF Counts
  <2> QED  BY <1>0, <2>1, <2>3, <2>4 DEF BooksInv, Tally
<1>4. ASSUME NEW v \in Votes, DeactivateDelinquent(v)
      PROVE  BooksInv'
  <2>1. /\ UNCHANGED <<epoch, poolEpoch, config>> /\ pool.list[v] \in Entry
        /\ pool' = [pool EXCEPT !.list[v].live = FALSE]
    BY <1>0, <1>4 DEF DeactivateDelinquent, Interfere, Others, command
  <2>2. /\ pool'.reserve = pool.reserve /\ \A u \in Votes \ {v} : pool'.list[u] = pool.list[u]
        /\ pool'.list[v].status = pool.list[v].status /\ pool'.list[v].live = FALSE
    BY <1>0, <2>1 DEF Pool, Entry
  <2>3. Solvent(pool)'
    BY <1>0, <2>1, <2>2, SamePlaces
  <2>4. Counts(pool) => Counts(pool)'
    BY <2>2 DEF Counts
  <2> QED  BY <1>0, <2>1, <2>3, <2>4 DEF BooksInv, Tally
<1>5. CASE UpdatePool
  <2>1. UNCHANGED <<epoch, config>> /\ poolEpoch' = epoch
    BY <1>5 DEF UpdatePool
  <2>2. \A v \in Votes : pool'.list[v].status = "Active" <=> pool.list[v].status = "Active"
    BY <1>5, UpdateList
  <2>3. pool'.reserve = pool.reserve /\ Counts(pool)'
    <3>1. CASE poolEpoch = epoch
      BY <1>0, <1>5, <3>1 DEF UpdatePool, Counts
    <3>2. CASE poolEpoch # epoch
      <4>1. pool' = [pool EXCEPT !.list = [v \in Votes |-> Refreshed(pool.list[v])]]
        BY <1>5, <3>2 DEF UpdatePool
      <4>2. pool'.reserve = pool.reserve
            /\ \A v \in Votes : pool'.list[v] = Refreshed(pool.list[v])
        BY <1>0, <4>1 DEF Pool
      <4> QED  BY <1>0, <4>2, RefreshedCounts DEF Counts
    <3> QED  BY <3>1, <3>2
  <2>4. Solvent(pool)'
    BY <1>0, <2>1, <2>2, <2>3, SamePlaces
  <2> QED  BY <1>0, <2>1, <2>3, <2>4 DEF BooksInv, Tally
<1>6. CASE UNCHANGED <<epoch, poolEpoch, pool, config>>
  BY <1>6 DEF BooksInv, Tally, Solvent, Missing, Counts
<1>7. CASE \/ FetchPool \/ FetchList \/ UpdateNotRequired \/ FetchVsas
           \/ \E v \in Votes : EmitDecrease(v) \/ EmitRemove(v) \/ EmitAdd(v)
           \/ EmitPreferred \/ SendTx \/ NextPhase \/ Crash \/ AbortTx \/ LoseTx
           \/ (\E t \in late : DropLate(t)) \/ UNCHANGED vars
  <2>1. UNCHANGED <<epoch, poolEpoch, pool, config>>
    BY <1>7 DEF FetchPool, FetchList, UpdateNotRequired, FetchVsas, EmitDecrease, EmitRemove,
                EmitAdd, EmitPreferred, SendTx, NextPhase, Crash, AbortTx, LoseTx, DropLate, vars,
                chain, command
  <2> QED  BY <1>6, <2>1
<1> QED  BY <1>2, <1>3, <1>4, <1>5, <1>7, <1>8, <1>9 DEF Next, Step, Runtime

\* What a careful run may decrease can be decreased.
LEMMA CanDecrease ==
    ASSUME IsFiniteSet(Votes), TypeOK, BooksInv, poolEpoch = epoch, Careful,
           NEW v \in Removed, NeedsDecrease(v), AsSeen(v)
    PROVE  /\ v \in Votes /\ v # None /\ pool.list[v].status = "Active" /\ pool.list[v].live
           /\ pool.list[v].activating = 0 /\ pool.reserve >= 2 * Rent
           /\ pool.list[v].vsa = LamportsToDecrease(v) + NewVsa
           /\ LamportsToDecrease(v) >= NewVsa
<1>1. /\ v \in Votes /\ v # None /\ seen.list[v].status = "Active"
      /\ seen.list[v].activating = 0 /\ seen.list[v].live /\ LamportsToDecrease(v) > 0
      /\ LamportsToDecrease(v) >= NewVsa
      /\ pool.list[v] = seen.list[v] /\ seen.list[v] \in Entry
  BY ListConstants DEF Removed, Careful, NeedsDecrease, AsSeen, TypeOK
<1>2. pool.list[v].vsa = pool.list[v].active_stake_lamports
  BY <1>1 DEF BooksInv, Tally, Counts
<1>3. pool.list[v].vsa = LamportsToDecrease(v) + NewVsa
  <2>1. NewVsa \in Nat /\ seen.list[v].active_stake_lamports \in Nat
    BY <1>1, ListConstants DEF Entry
  <2> QED  BY <1>1, <1>2, <2>1 DEF LamportsToDecrease, SatSub
<1>4. pool.reserve >= 2 * Rent
  <2>1. Missing(pool) \subseteq Votes
    BY DEF Missing, TypeOK, Config
  <2>2. Cardinality(Missing(pool)) \in Nat
    BY <2>1, FS_Subset, FS_CardinalityType
  <2>3. NewVsa \in Nat /\ Rent \in Nat /\ pool.reserve \in Nat
    BY ListConstants DEF TypeOK, Pool
  <2>4. NewVsa * Cardinality(Missing(pool)) \in Nat
    BY <2>2, <2>3
  <2>5. pool.reserve >= 2 * Rent + NewVsa * Cardinality(Missing(pool))
    BY DEF BooksInv, Tally, Solvent
  <2> QED  BY <2>3, <2>4, <2>5
<1> QED  BY <1>1, <1>3, <1>4

\* A validator with nothing to move out can be removed.
LEMMA CanRemove ==
    ASSUME TypeOK, BooksInv, poolEpoch = epoch, Careful,
           NEW v \in Removed, ~NeedsDecrease(v), AsSeen(v)
    PROVE  Drained(pool, v)
<1>1. /\ v \in Votes /\ seen.list[v].status = "Active" /\ seen.list[v].activating = 0
      /\ pool.list[v] = seen.list[v] /\ seen.list[v] \in Entry
  BY DEF Removed, Careful, AsSeen, TypeOK
<1>2. ASSUME pool.list[v].live
      PROVE  pool.list[v].vsa <= NewVsa
  <2>1. pool.list[v].vsa = seen.list[v].active_stake_lamports
    BY <1>1, <1>2 DEF BooksInv, Tally, Counts
  <2>2. ~(LamportsToDecrease(v) > 0)
    BY <1>1, <1>2 DEF NeedsDecrease
  <2>3. NewVsa \in Nat /\ seen.list[v].active_stake_lamports \in Nat
    BY <1>1, ListConstants DEF Entry
  <2> QED  BY <2>1, <2>2, <2>3 DEF LamportsToDecrease, SatSub
<1> QED  BY <1>1, <1>2 DEF Drained

\* What the first i instructions of a removal have done: nothing to a validator that they are
\* not about, and to one that they only decrease, what its removal needs.
Touches(ixs, i, v) == \E j \in 1 .. i : ixs[j].vote = v
OnlyDecreases(ixs, i, v) == \A j \in 1 .. i : ixs[j].vote = v => ixs[j].kind = "Decrease"
RemovedSoFar(e, ixs, i) ==
    /\ e.ok /\ e.pool.reserve = pool.reserve
    /\ \A v \in Votes : ~Touches(ixs, i, v) => e.pool.list[v] = pool.list[v]
    /\ \A v \in Votes : Touches(ixs, i, v) /\ OnlyDecreases(ixs, i, v) => Drained(e.pool, v)
    /\ (\A j \in 1 .. i : ixs[j].kind = "Remove") => e.seeds = {}

\* A planned removal is accepted, instruction by instruction.
LEMMA RemovalStep ==
    ASSUME IsFiniteSet(Votes), TypeOK, BooksInv, poolEpoch = epoch, Careful,
           NEW ixs \in Seq(Ix), RemovalsReady(ixs), NEW i \in 1 .. Len(ixs),
           NEW e \in Execution, RemovedSoFar(e, ixs, i - 1)
    PROVE  RemovedSoFar(ExecuteOne(e, ixs[i]), ixs, i)
<1> DEFINE ix == ixs[i]
           v == ix.vote
           f == ExecuteOne(e, ix)
<1>0. /\ ix \in Ix /\ e.pool \in Pool /\ Len(ixs) \in Nat /\ i - 1 \in Nat /\ i \in Nat
      /\ NewVsa \in Nat /\ ix.amt \in Nat
      /\ \A j \in 1 .. i : j = i \/ j \in 1 .. (i - 1)
      /\ \A j \in 1 .. (i - 1) : j \in 1 .. i /\ j \in 1 .. Len(ixs)
  BY ListConstants DEF Execution, Ix
<1>1. \A j \in 1 .. (i - 1) : ixs[j] \in Before(ixs, i)
  BY DEF Before
<1>2. \A jx \in Before(ixs, i) : \E j \in 1 .. (i - 1) : ixs[j] = jx
  BY DEF Before
<1>3. CASE ix.kind = "Decrease"
  <2>1. /\ v \in Removed /\ NeedsDecrease(v) /\ AsSeen(v) /\ ix.amt = LamportsToDecrease(v)
        /\ \A jx \in Before(ixs, i) : jx.kind = "Remove" /\ jx.vote # v
    BY <1>3 DEF RemovalsReady, DecreaseReady
  <2>2. ~Touches(ixs, i - 1, v) /\ e.seeds = {}
    BY <1>1, <2>1 DEF Touches, RemovedSoFar
  <2>3. /\ v \in Votes /\ v # None /\ pool.list[v].status = "Active" /\ pool.list[v].live
        /\ pool.list[v].activating = 0 /\ pool.reserve >= 2 * Rent
        /\ pool.list[v].vsa = ix.amt + NewVsa /\ ix.amt >= NewVsa
    BY <2>1, CanDecrease
  <2>4. /\ e.ok /\ e.pool.list[v] = pool.list[v] /\ e.pool.reserve = pool.reserve
    BY <2>2, <2>3 DEF RemovedSoFar
  <2>5. Accepts(e, ix)
    <3>1. e.pool.list[v].vsa >= ix.amt + NewVsa
      BY <1>0, <2>3, <2>4
    <3> QED  BY <1>3, <2>2, <2>3, <2>4, <3>1 DEF Accepts, Active
  <2>6. Allowed(e.pool, ix) /\ f.ok /\ f.pool = Effect(e.pool, ix)
    BY <2>4, <2>5 DEF Allowed, ExecuteOne
  <2>7. /\ f.pool.reserve = e.pool.reserve
        /\ \A u \in Votes \ {v} : f.pool.list[u] = e.pool.list[u]
        /\ f.pool.list[v].status = e.pool.list[v].status
        /\ f.pool.list[v].activating = 0
        /\ f.pool.list[v].vsa = e.pool.list[v].vsa - ix.amt
    BY <1>0, <1>3, <2>6, EffectOnStake
  <2>8. Drained(f.pool, v)
    <3>1. f.pool.list[v].vsa = NewVsa
      BY <1>0, <2>3, <2>4, <2>7
    <3> QED  BY <1>0, <2>3, <2>4, <2>7, <3>1 DEF Drained
  <2> HIDE DEF f, v, ix
  <2>9. ASSUME NEW u \in Votes, ~Touches(ixs, i, u)
        PROVE  f.pool.list[u] = pool.list[u]
    <3>1. u # v /\ ~Touches(ixs, i - 1, u)
      BY <1>0, <2>9 DEF Touches, v, ix
    <3> QED  BY <2>7, <3>1 DEF RemovedSoFar
  <2>10. ASSUME NEW u \in Votes, Touches(ixs, i, u), OnlyDecreases(ixs, i, u)
         PROVE  Drained(f.pool, u)
    <3>1. CASE u = v
      BY <2>8, <3>1
    <3>2. CASE u # v
      <4>1. Touches(ixs, i - 1, u) /\ OnlyDecreases(ixs, i - 1, u)
        BY <1>0, <2>10, <3>2 DEF Touches, OnlyDecreases, v, ix
      <4>2. Drained(e.pool, u) /\ f.pool.list[u] = e.pool.list[u]
        BY <2>7, <3>2, <4>1 DEF RemovedSoFar
      <4> QED  BY <4>2 DEF Drained
    <3> QED  BY <3>1, <3>2
  <2>11. ~(\A j \in 1 .. i : ixs[j].kind = "Remove")
    <3>1. i \in 1 .. i
      BY <1>0
    <3> QED  BY <1>3, <3>1 DEF ix
  <2>12. f.ok /\ f.pool.reserve = pool.reserve
    BY <2>4, <2>6, <2>7
  <2>13. RemovedSoFar(f, ixs, i)
    BY <2>9, <2>10, <2>11, <2>12 DEF RemovedSoFar
  <2> QED  BY <2>13 DEF f, ix
<1>4. CASE ix.kind = "Remove"
  <2>1. /\ \A jx \in Before(ixs, i) : jx.vote = v => jx.kind = "Decrease"
        /\ Drained(pool, v) \/ \E jx \in Before(ixs, i) : jx.vote = v
    BY <1>4 DEF RemovalsReady, RemoveReady
  <2>2. v \in Votes /\ v # None
    BY <1>0, <1>4, ListConstants DEF Ix
  <2>3. OnlyDecreases(ixs, i - 1, v)
    BY <1>1, <2>1 DEF OnlyDecreases
  <2>4. Drained(e.pool, v)
    <3>1. CASE Touches(ixs, i - 1, v)
      BY <2>2, <2>3, <3>1 DEF RemovedSoFar
    <3>2. CASE ~Touches(ixs, i - 1, v)
      <4>1. Drained(pool, v)
        BY <1>2, <2>1, <3>2 DEF Touches
      <4>2. e.pool.list[v] = pool.list[v]
        BY <2>2, <3>2 DEF RemovedSoFar
      <4> QED  BY <4>1, <4>2 DEF Drained
    <3> QED  BY <3>1, <3>2
  <2>5. e.ok /\ Accepts(e, ix)
    BY <1>4, <2>2, <2>4 DEF Accepts, Active, Drained, RemovedSoFar
  <2>6. /\ Allowed(e.pool, ix) /\ f.ok /\ f.pool = Effect(e.pool, ix) /\ f.seeds = e.seeds
    BY <1>4, <2>5 DEF Allowed, ExecuteOne
  <2>7. /\ f.pool.reserve = e.pool.reserve
        /\ \A u \in Votes \ {v} : f.pool.list[u] = e.pool.list[u]
    BY <1>0, <1>4, <2>6, EffectOnStake
  <2> HIDE DEF f, v, ix
  <2>8. i \in 1 .. i /\ ixs[i].vote = v /\ ixs[i].kind # "Decrease"
    BY <1>0, <1>4 DEF v, ix
  <2>9. ASSUME NEW u \in Votes, ~Touches(ixs, i, u)
        PROVE  f.pool.list[u] = pool.list[u]
    <3>1. u # v /\ ~Touches(ixs, i - 1, u)
      BY <1>0, <2>8, <2>9 DEF Touches
    <3> QED  BY <2>7, <3>1 DEF RemovedSoFar
  <2>10. ASSUME NEW u \in Votes, Touches(ixs, i, u), OnlyDecreases(ixs, i, u)
         PROVE  Drained(f.pool, u)
    <3>1. u # v
      BY <2>8, <2>10 DEF OnlyDecreases
    <3>2. Touches(ixs, i - 1, u) /\ OnlyDecreases(ixs, i - 1, u)
      BY <1>0, <2>8, <2>10, <3>1 DEF Touches, OnlyDecreases
    <3>3. Drained(e.pool, u) /\ f.pool.list[u] = e.pool.list[u]
      BY <2>7, <3>1, <3>2 DEF RemovedSoFar
    <3> QED  BY <3>3 DEF Drained
  <2>11. (\A j \in 1 .. i : ixs[j].kind = "Remove") => f.seeds = {}
    BY <1>0, <2>6 DEF RemovedSoFar
  <2>12. f.ok /\ f.pool.reserve = pool.reserve
    BY <2>6, <2>7 DEF RemovedSoFar
  <2>13. RemovedSoFar(f, ixs, i)
    BY <2>9, <2>10, <2>11, <2>12 DEF RemovedSoFar
  <2> QED  BY <2>13 DEF f, ix
<1> QED  BY <1>3, <1>4 DEF RemovalsReady

\* A planned removal is accepted.
LEMMA RemovalsRun ==
    ASSUME IsFiniteSet(Votes), TypeOK, BooksInv, poolEpoch = epoch, Careful,
           NEW ixs \in Seq(Ix), RemovalsReady(ixs)
    PROVE  RemovedSoFar(Execute(pool, ixs), ixs, Len(ixs))
<1>1. PICK run : Executing(run, pool, ixs)
  BY ExecuteRun, ListConstants DEF TypeOK
<1> DEFINE n == Len(ixs)
           T == {i \in 0 .. n : RemovedSoFar(run[i], ixs, i)}
<1>2. n \in Nat /\ run \in [0 .. n -> Execution] /\ run[n] = Execute(pool, ixs)
      /\ run[0] = [ok |-> TRUE, pool |-> pool, seeds |-> {}]
      /\ \A i \in 1 .. n : run[i] = ExecuteOne(run[i - 1], ixs[i])
  BY <1>1 DEF Executing
<1>3. 0 \in T
  BY <1>2 DEF RemovedSoFar, Touches
<1>4. ASSUME NEW i \in 1 .. n, i - 1 \in T
      PROVE  i \in T
  <2>1. run[i - 1] \in Execution /\ RemovedSoFar(run[i - 1], ixs, i - 1)
    BY <1>2, <1>4
  <2>2. RemovedSoFar(ExecuteOne(run[i - 1], ixs[i]), ixs, i)
    BY <2>1, RemovalStep
  <2> QED  BY <1>2, <2>2
<1>5. 0 .. n \subseteq T
  <2> HIDE DEF T, n
  <2> QED  BY <1>2, <1>3, <1>4, Induction
<1> QED  BY <1>2, <1>5

\* What the first i instructions of an addition have done.
AddedSoFar(e, ixs, i) ==
    /\ e.ok /\ Solvent(e.pool)
    /\ \A v \in Votes : ~Touches(ixs, i, v) => e.pool.list[v] = pool.list[v]

\* A planned addition is accepted.
LEMMA AdditionsRun ==
    ASSUME IsFiniteSet(Votes), TypeOK, BooksInv, poolEpoch = epoch,
           NEW ixs \in Seq(Ix), Adds(ixs), AdditionsReady(ixs)
    PROVE  AddedSoFar(Execute(pool, ixs), ixs, Len(ixs))
<1>0. /\ pool \in Pool /\ config \in Config /\ epoch \in 0 .. MaxEpoch /\ Rent \in Nat
      /\ NewVsa \in Nat /\ config.validators \subseteq Votes /\ Tally(pool) /\ Solvent(pool)
  BY ListConstants DEF TypeOK, Config, BooksInv, Tally
<1>1. PICK run : Executing(run, pool, ixs)
  BY <1>0, ExecuteRun
<1> DEFINE n == Len(ixs)
           T == {i \in 0 .. n : AddedSoFar(run[i], ixs, i)}
<1>2. n \in Nat /\ run \in [0 .. n -> Execution] /\ run[n] = Execute(pool, ixs)
      /\ run[0] = [ok |-> TRUE, pool |-> pool, seeds |-> {}]
      /\ \A i \in 1 .. n : run[i] = ExecuteOne(run[i - 1], ixs[i]) /\ ixs[i] \in Ix
  BY <1>1 DEF Executing
<1>3. 0 \in T
  BY <1>0, <1>2 DEF AddedSoFar, Touches
<1>4. ASSUME NEW i \in 1 .. n, i - 1 \in T
      PROVE  i \in T
  <2> DEFINE e == run[i - 1]
             f == run[i]
             ix == ixs[i]
             v == ix.vote
  <2>1. /\ e \in Execution /\ e.pool \in Pool /\ AddedSoFar(e, ixs, i - 1) /\ ix \in Ix
        /\ f = ExecuteOne(e, ix) /\ i - 1 \in Nat /\ i \in 0 .. n
        /\ \A j \in 1 .. (i - 1) : j \in 1 .. i
    BY <1>2, <1>4 DEF Execution
  <2>2. ix.kind = "Add" /\ v \in config.validators /\ v \in Votes
        /\ pool.list[v].status = "Absent" /\ \A jx \in Before(ixs, i) : jx.vote # v
    BY <1>0 DEF Adds, AdditionsReady
  <2>3. e.pool.list[v] = pool.list[v]
    <3>1. ~Touches(ixs, i - 1, v)
      BY <2>2 DEF Touches, Before
    <3> QED  BY <2>1, <2>2, <3>1 DEF AddedSoFar
  <2>4. v \in Missing(e.pool) /\ e.pool.reserve \in Nat /\ Solvent(e.pool) /\ e.ok
    BY <2>1, <2>2, <2>3 DEF Missing, Pool, AddedSoFar
  <2>5. e.pool.reserve >= NewVsa + Rent
    <3>1. e.pool.reserve >= 2 * Rent + NewVsa
      BY <1>0, <2>4, OneLessMissing
    <3> QED  BY <1>0, <2>4, <3>1
  <2>6. Accepts(e, ix)
    BY <2>2, <2>3, <2>5 DEF Accepts
  <2>7. Allowed(e.pool, ix) /\ f.ok /\ f.pool = Effect(e.pool, ix)
    BY <2>1, <2>2, <2>4, <2>6 DEF Allowed, ExecuteOne
  <2>8. /\ f.pool.reserve = e.pool.reserve - NewVsa /\ f.pool.list[v].status = "Active"
        /\ \A u \in Votes \ {v} : f.pool.list[u] = e.pool.list[u]
    BY <2>1, <2>2, <2>7, EffectOnStake
  <2> HIDE DEF e, f, ix, v
  <2>9. Missing(f.pool) = Missing(e.pool) \ {v}
    BY <1>0, <2>2, <2>8 DEF Missing
  <2>10. Solvent(f.pool)
    BY <1>0, <2>4, <2>8, <2>9, OneLessMissing
  <2>11. ASSUME NEW u \in Votes, ~Touches(ixs, i, u)
         PROVE  f.pool.list[u] = pool.list[u]
    <3>1. i \in 1 .. i
      BY <2>1
    <3>2. u # v /\ ~Touches(ixs, i - 1, u)
      BY <2>1, <2>11, <3>1 DEF Touches, v, ix
    <3> QED  BY <2>1, <2>8, <3>2 DEF AddedSoFar
  <2>12. AddedSoFar(f, ixs, i)
    BY <2>7, <2>10, <2>11 DEF AddedSoFar
  <2> QED  BY <2>1, <2>12 DEF f
<1>5. 0 .. n \subseteq T
  <2> HIDE DEF T, n
  <2> QED  BY <1>2, <1>3, <1>4, Induction
<1> QED  BY <1>2, <1>5

\* Preferences for validators of the pool are accepted.
LEMMA PreferencesRun ==
    ASSUME TypeOK, poolEpoch = epoch, NEW ixs \in Seq(Ix), Prefers(ixs),
           \A v \in {config.deposit, config.withdraw} \ {None} : pool.list[v].status = "Active"
    PROVE  Execute(pool, ixs).ok
<1>1. PICK run : Executing(run, pool, ixs)
  BY ExecuteRun, ListConstants DEF TypeOK
<1> DEFINE n == Len(ixs)
           T == {i \in 0 .. n : run[i].ok /\ run[i].pool.list = pool.list}
<1>2. n \in Nat /\ run \in [0 .. n -> Execution] /\ run[n] = Execute(pool, ixs)
      /\ run[0] = [ok |-> TRUE, pool |-> pool, seeds |-> {}]
      /\ \A i \in 1 .. n : run[i] = ExecuteOne(run[i - 1], ixs[i]) /\ ixs[i] \in Ix
  BY <1>1 DEF Executing
<1>3. 0 \in T
  BY <1>2
<1>4. ASSUME NEW i \in 1 .. n, i - 1 \in T
      PROVE  i \in T
  <2> DEFINE e == run[i - 1]
             f == run[i]
             ix == ixs[i]
  <2>1. /\ e \in Execution /\ e.pool \in Pool /\ e.ok /\ e.pool.list = pool.list
        /\ ix \in Ix /\ f = ExecuteOne(e, ix)
    BY <1>2, <1>4 DEF Execution
  <2>2. /\ ix.kind \in {"PreferDeposit", "PreferWithdraw"}
        /\ ix.vote \in {config.deposit, config.withdraw}
    BY DEF Prefers
  <2>3. Accepts(e, ix)
    BY <2>1, <2>2 DEF Accepts, Active
  <2>4. Allowed(e.pool, ix) /\ f.ok /\ f.pool = Effect(e.pool, ix)
    BY <2>1, <2>3 DEF Allowed, ExecuteOne
  <2>5. f.pool.list = e.pool.list
    BY <2>1, <2>2, <2>4, EffectOnStake
  <2> QED  BY <2>1, <2>4, <2>5
<1>5. 0 .. n \subseteq T
  <2> HIDE DEF T, n
  <2> QED  BY <1>2, <1>3, <1>4, Induction
<1> QED  BY <1>2, <1>5

\* Carefulness is a matter of what has been fetched.
LEMMA CarefulKept ==
    ASSUME UNCHANGED <<undisturbed, seen, config>>
    PROVE  /\ Quiet' = Quiet /\ Careful' = Careful /\ Removed' = Removed
           /\ \A v \in Votes : NeedsDecrease(v)' = NeedsDecrease(v)
BY DEF Careful, Quiet, Removed, NeedsDecrease, LamportsToDecrease

\* A transaction that is ready stays ready while the pool stays as it is.
LEMMA ReadyKept ==
    ASSUME UNCHANGED <<pool, seen, config>>, NEW s, tx' = s
    PROVE  /\ RemovalsReady(s) => RemovalsReady(tx)'
           /\ AdditionsReady(s) => AdditionsReady(tx)'
           /\ \A v : Leaves(s, v) => Leaves(tx, v)'
           /\ \A v : AsSeen(v) => AsSeen(v)'
<1>1. Removed' = Removed
  BY DEF Removed
<1>2. ASSUME RemovalsReady(s), NEW i \in 1 .. Len(s)
      PROVE  \/ s[i].kind = "Decrease" /\ DecreaseReady(tx, i)'
             \/ s[i].kind = "Remove" /\ RemoveReady(tx, i)'
  <2>1. CASE s[i].kind = "Decrease" /\ DecreaseReady(s, i)
    BY <1>1, <2>1 DEF DecreaseReady, Before, NeedsDecrease, LamportsToDecrease, AsSeen
  <2>2. CASE s[i].kind = "Remove" /\ RemoveReady(s, i)
    BY <1>1, <2>2 DEF RemoveReady, Before, Drained
  <2> QED  BY <1>2, <2>1, <2>2 DEF RemovalsReady
<1>3. RemovalsReady(s) => RemovalsReady(tx)'
  BY <1>2 DEF RemovalsReady
<1>4. AdditionsReady(s) => AdditionsReady(tx)'
  BY DEF AdditionsReady, Before
<1> QED  BY <1>3, <1>4 DEF Leaves, AsSeen

\* A sequence with one more instruction.
Appends(s, ixs, ix) == s = ixs \o <<ix>>
SameBefore(s, ixs) ==
    /\ \A i \in 1 .. Len(ixs) : Before(s, i) = Before(ixs, i)
    /\ \A jx \in Before(s, Len(s)) : \E j \in 1 .. Len(ixs) : jx = ixs[j]
    /\ \A j \in 1 .. Len(ixs) : ixs[j] \in Before(s, Len(s))

\* What is before an instruction does not depend on what comes after it, and before the last
\* one is everything else.
LEMMA BeforeExtended ==
    ASSUME NEW ixs \in Seq(Ix), NEW ix \in Ix, NEW s, Appends(s, ixs, ix)
    PROVE  SameBefore(s, ixs)
<1>0. s = ixs \o <<ix>>
  BY DEF Appends
<1>1. /\ Len(s) = Len(ixs) + 1 /\ Len(ixs) \in Nat /\ Len(s) - 1 = Len(ixs)
      /\ \A i \in 1 .. Len(ixs) : s[i] = ixs[i]
  BY <1>0
<1>2. ASSUME NEW i \in 1 .. Len(ixs)
      PROVE  Before(s, i) = Before(ixs, i)
  <2>1. \A j \in 1 .. (i - 1) : j \in 1 .. Len(ixs)
    BY <1>1
  <2> QED  BY <1>1, <2>1 DEF Before
<1> QED  BY <1>1, <1>2 DEF SameBefore, Before

\* An accepted transaction leaves the rest of the plan as ready as it was.
LEMMA CareCommit ==
    ASSUME IsFiniteSet(Votes), TypeInv, SafeInv, RunInv, BooksInv, CareInv, CommitTx
    PROVE  CareInv'
<1>0. /\ TypeOK /\ PlanInv /\ tx \in Seq(Ix) /\ toRemove \subseteq Votes /\ toAdd \subseteq Votes
      /\ half \in toRemove \cup {None}
      /\ UNCHANGED <<epoch, poolEpoch, undisturbed, config, phase, seen, toRemove, toAdd, half>>
      /\ pc = "confirm" /\ pc' = "plan" /\ pool' = Execute(pool, tx).pool
  BY DEF TypeInv, TypeOK, SafeInv, CommitTx
<1>1. Quiet' = Quiet /\ Careful' = Careful /\ Removed' = Removed
  BY <1>0, CarefulKept
<1>2. CASE ~Careful
  BY <1>0, <1>1, <1>2 DEF CareInv
<1>3. CASE Careful
  <2>1. /\ tx' = <<>> /\ PlanReady /\ poolEpoch = epoch
        /\ pool' = Execute(pool, tx).pool /\ Quiet
    BY <1>0, <1>3, CommitPhase DEF CareInv, Careful
  <2>2. /\ RemovalsReady(tx)' /\ AdditionsReady(tx)' /\ \A v : Leaves(tx, v)'
        /\ \A v : \A i \in 1 .. Len(tx') : tx'[i].vote = v => tx'[i].kind = "Decrease"
    BY <2>1 DEF RemovalsReady, AdditionsReady, Leaves
  <2>3. CASE phase = "remove" /\ AfterRemoval(pool, pool')
    <3>1. RemovedSoFar(Execute(pool, tx), tx, Len(tx))
      BY <1>0, <1>3, <2>1, <2>3, RemovalsRun DEF PlanReady
    <3>2. /\ \A v \in Votes : ~Touches(tx, Len(tx), v) => pool'.list[v] = pool.list[v]
          /\ \A v \in Votes : Touches(tx, Len(tx), v) /\ OnlyDecreases(tx, Len(tx), v) =>
                Drained(pool', v)
      BY <2>1, <3>1 DEF RemovedSoFar
    <3>3. \A v \in toAdd : pool'.list[v].status = "Absent"
      <4>1. \A v \in toAdd : pool.list[v].status = "Absent"
        BY <2>1, <2>3 DEF PlanReady
      <4> QED  BY <1>0, <2>3, <4>1 DEF AfterRemoval
    <3>4. ASSUME NEW v \in toRemove \ {half}
          PROVE  v \in Removed /\ AsSeen(v)'
      <4>1. v \in Removed /\ AsSeen(v) /\ Leaves(tx, v)
        BY <2>1, <2>3 DEF PlanReady
      <4>2. pool'.list[v] = pool.list[v]
        BY <1>0, <3>2, <4>1 DEF Leaves, Touches
      <4> QED  BY <1>0, <4>1, <4>2 DEF AsSeen
    <3>5. ASSUME half # None
          PROVE  Halfway(half)'
      <4>1. Halfway(half) /\ half \in Votes
        BY <1>0, <2>1, <2>3, <3>5 DEF PlanReady
      <4>2. Drained(pool', half)
        <5>1. OnlyDecreases(tx, Len(tx), half)
          BY <4>1 DEF Halfway, OnlyDecreases
        <5>2. CASE Touches(tx, Len(tx), half)
          BY <3>2, <4>1, <5>1, <5>2
        <5>3. CASE ~Touches(tx, Len(tx), half)
          <6>1. Drained(pool, half) /\ pool'.list[half] = pool.list[half]
            BY <3>2, <4>1, <5>3 DEF Halfway, Touches
          <6> QED  BY <6>1 DEF Drained
        <5> QED  BY <5>2, <5>3
      <4> QED  BY <1>0, <2>2, <4>2 DEF Halfway, Drained
    <3>6. PlanReady'
      BY <1>0, <1>1, <2>2, <2>3, <3>3, <3>4, <3>5 DEF PlanReady
    <3> QED  BY <1>0, <1>1, <2>1, <3>6 DEF CareInv
  <2>4. CASE phase = "add"
    <3>1. Adds(tx) /\ AdditionsReady(tx)
      BY <1>0, <1>3, <2>1, <2>4 DEF PlanInv, PlanReady
    <3>2. AddedSoFar(Execute(pool, tx), tx, Len(tx))
      BY <1>0, <2>1, <3>1, AdditionsRun
    <3>3. ASSUME NEW v \in toAdd
          PROVE  pool'.list[v].status = "Absent"
      <4>1. pool.list[v].status = "Absent" /\ Leaves(tx, v) /\ v \in Votes
        BY <1>0, <2>1, <2>4 DEF PlanReady
      <4>2. pool'.list[v] = pool.list[v]
        BY <2>1, <3>2, <4>1 DEF AddedSoFar, Touches, Leaves
      <4> QED  BY <4>1, <4>2
    <3>4. PlanReady'
      BY <1>0, <2>2, <2>4, <3>3 DEF PlanReady
    <3> QED  BY <1>0, <1>1, <2>1, <3>4 DEF CareInv
  <2>5. CASE phase = "end"
    BY <1>0, <1>1, <2>1, <2>5 DEF CareInv, PlanReady
  <2> QED  BY <1>3, <2>3, <2>4, <2>5, CommitPhase
<1> QED  BY <1>0, <1>2, <1>3

\* What a careful run has sent is not refused.
LEMMA CareAbort ==
    ASSUME IsFiniteSet(Votes), TypeInv, SafeInv, RunInv, BooksInv, CareInv, AbortTx
    PROVE  CareInv'
<1>0. /\ TypeOK /\ PhaseInv /\ PlanInv /\ tx \in Seq(Ix)
      /\ UNCHANGED <<epoch, poolEpoch, pool, undisturbed, config, phase, seen, toRemove, toAdd,
                     half, tx>>
      /\ pc = "confirm" /\ pc' = "panicked" /\ ~Execute(pool, tx).ok
  BY DEF TypeInv, TypeOK, SafeInv, AbortTx, chain
<1>1. Quiet' = Quiet /\ Careful' = Careful
  BY <1>0, CarefulKept
<1>2. CASE ~Careful
  BY <1>0, <1>1, <1>2 DEF CareInv
<1>3. CASE Careful
  <2>1. /\ tx # <<>> /\ PlanReady /\ poolEpoch = epoch /\ Quiet
        /\ phase \in {"remove", "add", "prefer", "end"}
    BY <1>0, <1>3 DEF CareInv, Careful, PhaseInv, TypeOK
  <2>2. CASE phase = "remove"
    <3>1. RemovedSoFar(Execute(pool, tx), tx, Len(tx))
      BY <1>0, <1>3, <2>1, <2>2, RemovalsRun DEF PlanReady
    <3> QED  BY <1>0, <2>1, <3>1 DEF RemovedSoFar
  <2>3. CASE phase = "add"
    <3>1. Adds(tx) /\ AdditionsReady(tx)
      BY <1>0, <1>3, <2>1, <2>3 DEF PlanInv, PlanReady
    <3>2. AddedSoFar(Execute(pool, tx), tx, Len(tx))
      BY <1>0, <2>1, <3>1, AdditionsRun
    <3> QED  BY <1>0, <2>1, <3>2 DEF AddedSoFar
  <2>4. CASE phase = "prefer"
    BY <1>0, <1>3, <2>1, <2>4 DEF PlanInv
  <2>5. CASE phase = "end"
    <3>1. ASSUME NEW v \in {config.deposit, config.withdraw} \ {None}
          PROVE  pool.list[v].status = "Active"
      <4>1. v \in config.validators /\ seen.list[v].status # "Deactivating"
        BY <1>3 DEF Careful
      <4>2. Attended(v)
        BY <1>0, <1>3, <2>1, <4>1 DEF RunInv
      <4>3. v \in Votes /\ seen.list[v].status \in Statuses
        BY <1>0, <4>1 DEF TypeOK, Config, Entry
      <4> QED  BY <2>5, <4>1, <4>2, <4>3 DEF Attended, Statuses
    <3>2. Prefers(tx)
      BY <1>0, <1>3, <2>5 DEF PlanInv
    <3>3. Execute(pool, tx).ok
      BY <1>0, <2>1, <3>1, <3>2, PreferencesRun
    <3> QED  BY <1>0, <2>1, <3>3
  <2> QED  BY <2>1, <2>2, <2>3, <2>4, <2>5
<1> QED  BY <1>0, <1>2, <1>3

\* At most one validator needs a decrease.
LEMMA OneDecrease ==
    ASSUME IsFiniteSet(Votes), Careful, NEW u \in Removed, NeedsDecrease(u),
           NEW v \in Removed, NeedsDecrease(v)
    PROVE  u = v
<1> DEFINE S == {w \in Removed : NeedsDecrease(w)}
<1>1. S \subseteq Votes /\ u \in S /\ v \in S
  BY DEF Removed
<1>2. IsFiniteSet(S) /\ Cardinality(S) <= 1
  BY <1>1, FS_Subset DEF Careful
<1> HIDE DEF S
<1> SUFFICES ASSUME u # v
             PROVE  FALSE
  OBVIOUS
<1>3. IsFiniteSet(S \ {u}) /\ Cardinality(S \ {u}) = Cardinality(S) - 1
      /\ Cardinality(S) \in Nat
  BY <1>1, <1>2, FS_RemoveElement, FS_CardinalityType
<1>4. v \in S \ {u} /\ Cardinality(S \ {u}) \in Nat
  BY <1>1, <1>3, FS_CardinalityType
<1>5. Cardinality(S \ {u}) # 0
  BY <1>3, <1>4, FS_EmptySet
<1> QED  BY <1>2, <1>3, <1>4, <1>5

\* The decrease of a validator that is to be removed can be added to the transaction.
LEMMA CareDecrease ==
    ASSUME IsFiniteSet(Votes), TypeInv, CareInv, NEW v \in Votes, EmitDecrease(v)
    PROVE  CareInv'
<1> DEFINE ix == Instruction("Decrease", v, LamportsToDecrease(v))
<1>0. /\ tx \in Seq(Ix) /\ ix \in Ix /\ ix.kind = "Decrease" /\ ix.vote = v /\ v # None
      /\ ix.amt = LamportsToDecrease(v)
      /\ half = None /\ half' = v /\ v \in toRemove /\ NeedsDecrease(v) /\ tx' = tx \o <<ix>>
      /\ pc = "plan" /\ phase = "remove"
      /\ UNCHANGED <<chain, config, pc, phase, seen, toRemove, toAdd, undisturbed>>
  BY PlanType DEF TypeInv, TypeOK, EmitDecrease, RoomToRemove, Emit, Instruction
<1>1. Quiet' = Quiet /\ Careful' = Careful /\ Removed' = Removed
  BY <1>0, CarefulKept
<1> HIDE DEF ix
<1>2. PICK s : s = tx'
  OBVIOUS
<1>3. /\ Len(s) = Len(tx) + 1 /\ s[Len(s)] = ix /\ Len(tx) \in Nat
      /\ \A i \in 1 .. Len(s) : i = Len(s) \/ (i \in 1 .. Len(tx) /\ s[i] = tx[i])
      /\ \A i \in 1 .. Len(tx) : i \in 1 .. Len(s) /\ s[i] = tx[i]
  BY <1>0, <1>2, Emitted DEF TypeInv
<1>4. /\ \A i \in 1 .. Len(tx) : Before(s, i) = Before(tx, i)
      /\ \A jx \in Before(s, Len(s)) : \E j \in 1 .. Len(tx) : jx = tx[j]
  <2>1. SameBefore(s, tx)
    BY <1>0, <1>2, BeforeExtended DEF Appends
  <2> QED  BY <2>1 DEF SameBefore
<1>5. CASE Careful
  <2>1. /\ PlanReady /\ RemovalsReady(tx) /\ v \in toRemove \ {half}
        /\ v \in Removed /\ AsSeen(v) /\ Leaves(tx, v)
    BY <1>0, <1>5 DEF CareInv, PlanReady
  <2>2. DecreaseReady(s, Len(s))
    <3>1. ASSUME NEW j \in 1 .. Len(tx)
          PROVE  tx[j].kind = "Remove" /\ tx[j].vote # v
      <4>1. tx[j].vote # v
        BY <2>1 DEF Leaves
      <4>2. CASE tx[j].kind = "Decrease" /\ DecreaseReady(tx, j)
        BY <1>0, <1>5, <2>1, <4>1, <4>2, OneDecrease DEF DecreaseReady
      <4> QED  BY <2>1, <4>1, <4>2 DEF RemovalsReady
    <3> QED  BY <1>0, <1>3, <1>4, <2>1, <3>1 DEF DecreaseReady
  <2>3. RemovalsReady(s)
    <3>1. ASSUME NEW i \in 1 .. Len(tx)
          PROVE  \/ s[i].kind = "Decrease" /\ DecreaseReady(s, i)
                 \/ s[i].kind = "Remove" /\ RemoveReady(s, i)
      BY <1>3, <1>4, <2>1 DEF RemovalsReady, DecreaseReady, RemoveReady
    <3> QED  BY <1>0, <1>3, <2>2, <3>1 DEF RemovalsReady
  <2>4. ASSUME NEW u \in toRemove \ {v}
        PROVE  u \in Removed /\ AsSeen(u) /\ Leaves(s, u)
    <3>1. u \in toRemove \ {half}
      BY <1>0, <2>4, ListConstants DEF TypeInv, TypeOK
    <3>2. u \in Removed /\ AsSeen(u) /\ Leaves(tx, u)
      BY <1>0, <2>1, <3>1 DEF PlanReady
    <3> QED  BY <1>0, <1>3, <2>4, <3>2 DEF Leaves
  <2>5. Halfway(half)'
    <3>1. \A i \in 1 .. Len(s) : s[i].vote = v => s[i].kind = "Decrease"
      BY <1>0, <1>3, <2>1 DEF Leaves
    <3>2. Len(s) \in 1 .. Len(s) /\ s[Len(s)].vote = v
      BY <1>0, <1>3
    <3> QED  BY <1>0, <1>2, <3>1, <3>2 DEF Halfway
  <2>6. \A u \in toAdd : pool.list[u].status = "Absent"
    BY <1>0, <2>1 DEF PlanReady
  <2>7. UNCHANGED <<pool, seen, config>>
    BY <1>0 DEF chain
  <2>8. RemovalsReady(tx)' /\ \A u \in toRemove \ {v} : AsSeen(u)' /\ Leaves(tx, u)'
    BY <1>2, <2>3, <2>4, <2>7, ReadyKept
  <2>9. PlanReady'
    BY <1>0, <1>1, <2>4, <2>5, <2>6, <2>7, <2>8 DEF PlanReady
  <2> QED  BY <1>0, <1>1, <1>5, <2>9 DEF CareInv, chain
<1>6. CASE ~Careful
  BY <1>0, <1>1, <1>6 DEF CareInv, chain
<1> QED  BY <1>5, <1>6

\* So can its removal.
LEMMA CareRemove ==
    ASSUME IsFiniteSet(Votes), TypeInv, BooksInv, CareInv, NEW v \in Votes, EmitRemove(v)
    PROVE  CareInv'
<1> DEFINE ix == Instruction("Remove", v, 0)
<1>0. /\ tx \in Seq(Ix) /\ ix \in Ix /\ ix.kind = "Remove" /\ ix.vote = v /\ v # None
      /\ half = v \/ (half = None /\ ~NeedsDecrease(v))
      /\ half' = None /\ v \in toRemove /\ toRemove' = toRemove \ {v} /\ tx' = tx \o <<ix>>
      /\ pc = "plan" /\ phase = "remove"
      /\ UNCHANGED <<chain, config, pc, phase, seen, toAdd, undisturbed>>
  BY PlanType DEF TypeInv, TypeOK, EmitRemove, RoomToRemove, Emit, Instruction
<1>1. Quiet' = Quiet /\ Careful' = Careful /\ Removed' = Removed
  BY <1>0, CarefulKept
<1> HIDE DEF ix
<1>2. PICK s : s = tx'
  OBVIOUS
<1>3. /\ Len(s) = Len(tx) + 1 /\ s[Len(s)] = ix /\ Len(tx) \in Nat
      /\ \A i \in 1 .. Len(s) : i = Len(s) \/ (i \in 1 .. Len(tx) /\ s[i] = tx[i])
  BY <1>0, <1>2, Emitted DEF TypeInv
<1>4. /\ \A i \in 1 .. Len(tx) : Before(s, i) = Before(tx, i)
      /\ \A jx \in Before(s, Len(s)) : \E j \in 1 .. Len(tx) : jx = tx[j]
      /\ \A j \in 1 .. Len(tx) : tx[j] \in Before(s, Len(s))
  <2>1. SameBefore(s, tx)
    BY <1>0, <1>2, BeforeExtended DEF Appends
  <2> QED  BY <2>1 DEF SameBefore
<1>5. CASE Careful
  <2>1. PlanReady /\ RemovalsReady(tx) /\ poolEpoch = epoch
    BY <1>0, <1>5 DEF CareInv, PlanReady, Careful
  <2>2. RemoveReady(s, Len(s))
    <3>1. CASE half = v
      <4>1. Halfway(v)
        BY <1>0, <2>1, <3>1 DEF PlanReady
      <4> QED  BY <1>0, <1>3, <1>4, <4>1 DEF RemoveReady, Halfway
    <3>2. CASE half = None /\ ~NeedsDecrease(v)
      <4>1. v \in toRemove \ {half}
        BY <1>0, <3>2
      <4>2. v \in Removed /\ AsSeen(v) /\ Leaves(tx, v)
        BY <1>0, <2>1, <4>1 DEF PlanReady
      <4>3. Drained(pool, v)
        BY <1>5, <2>1, <3>2, <4>2, CanRemove DEF TypeInv
      <4> QED  BY <1>0, <1>3, <1>4, <4>2, <4>3 DEF RemoveReady, Leaves
    <3> QED  BY <1>0, <3>1, <3>2
  <2>3. RemovalsReady(s)
    <3>1. ASSUME NEW i \in 1 .. Len(tx)
          PROVE  \/ s[i].kind = "Decrease" /\ DecreaseReady(s, i)
                 \/ s[i].kind = "Remove" /\ RemoveReady(s, i)
      <4>1. s[i] = tx[i]
        BY <1>3
      <4> QED  BY <1>4, <2>1, <4>1 DEF RemovalsReady, DecreaseReady, RemoveReady
    <3> QED  BY <1>0, <1>3, <2>2, <3>1 DEF RemovalsReady
  <2>4. ASSUME NEW u \in toRemove \ {v}
        PROVE  u \in Removed /\ AsSeen(u) /\ Leaves(s, u)
    <3>1. u \in toRemove \ {half}
      BY <1>0, <2>4, ListConstants DEF TypeInv, TypeOK
    <3>2. u \in Removed /\ AsSeen(u) /\ Leaves(tx, u)
      BY <1>0, <2>1, <3>1 DEF PlanReady
    <3> QED  BY <1>0, <1>3, <2>4, <3>2 DEF Leaves
  <2>5. \A u \in toAdd : pool.list[u].status = "Absent"
    BY <1>0, <2>1 DEF PlanReady
  <2>6. UNCHANGED <<pool, seen, config>>
    BY <1>0 DEF chain
  <2>7. RemovalsReady(tx)' /\ \A u \in toRemove \ {v} : AsSeen(u)' /\ Leaves(tx, u)'
    BY <1>2, <2>3, <2>4, <2>6, ReadyKept
  <2>8. PlanReady'
    BY <1>0, <1>1, <2>4, <2>5, <2>6, <2>7 DEF PlanReady
  <2> QED  BY <1>0, <1>1, <1>5, <2>8 DEF CareInv, chain
<1>6. CASE ~Careful
  BY <1>0, <1>1, <1>6 DEF CareInv, chain
<1> QED  BY <1>5, <1>6

\* And an addition.
LEMMA CareAdd ==
    ASSUME TypeInv, CareInv, NEW v \in Votes, EmitAdd(v)
    PROVE  CareInv'
<1> DEFINE ix == Instruction("Add", v, 0)
<1>0. /\ tx \in Seq(Ix) /\ ix \in Ix /\ ix.vote = v
      /\ v \in toAdd /\ toAdd' = toAdd \ {v} /\ tx' = tx \o <<ix>>
      /\ pc = "plan" /\ phase = "add"
      /\ UNCHANGED <<chain, config, pc, phase, seen, undisturbed>>
  BY PlanType DEF TypeInv, TypeOK, EmitAdd, Emit, Instruction
<1>1. Quiet' = Quiet /\ Careful' = Careful
  BY <1>0, CarefulKept
<1> HIDE DEF ix
<1>2. PICK s : s = tx'
  OBVIOUS
<1>3. /\ Len(s) = Len(tx) + 1 /\ s[Len(s)] = ix /\ Len(tx) \in Nat
      /\ \A i \in 1 .. Len(s) : i = Len(s) \/ (i \in 1 .. Len(tx) /\ s[i] = tx[i])
  BY <1>0, <1>2, Emitted DEF TypeInv
<1>4. /\ \A i \in 1 .. Len(tx) : Before(s, i) = Before(tx, i)
      /\ \A jx \in Before(s, Len(s)) : \E j \in 1 .. Len(tx) : jx = tx[j]
  <2>1. SameBefore(s, tx)
    BY <1>0, <1>2, BeforeExtended DEF Appends
  <2> QED  BY <2>1 DEF SameBefore
<1>5. CASE Careful
  <2>1. /\ AdditionsReady(tx)
        /\ \A u \in toAdd : pool.list[u].status = "Absent" /\ Leaves(tx, u)
    BY <1>0, <1>5 DEF CareInv, PlanReady
  <2>2. ASSUME NEW i \in 1 .. Len(s)
        PROVE  /\ pool.list[s[i].vote].status = "Absent"
               /\ \A jx \in Before(s, i) : jx.vote # s[i].vote
    <3>1. CASE i = Len(s)
      BY <1>0, <1>3, <1>4, <2>1, <3>1 DEF Leaves
    <3>2. CASE i # Len(s)
      BY <1>3, <1>4, <2>1, <3>2 DEF AdditionsReady
    <3> QED  BY <3>1, <3>2
  <2>3. AdditionsReady(s)
    BY <2>2 DEF AdditionsReady
  <2>4. \A u \in toAdd \ {v} : pool.list[u].status = "Absent" /\ Leaves(s, u)
    BY <1>0, <1>3, <2>1 DEF Leaves
  <2>5. UNCHANGED <<pool, seen, config>>
    BY <1>0 DEF chain
  <2>6. AdditionsReady(tx)' /\ \A u \in toAdd \ {v} : Leaves(tx, u)'
    BY <1>2, <2>3, <2>4, <2>5, ReadyKept
  <2>7. PlanReady'
    BY <1>0, <2>4, <2>5, <2>6 DEF PlanReady
  <2> QED  BY <1>0, <1>1, <1>5, <2>7 DEF CareInv, chain
<1>6. CASE ~Careful
  BY <1>0, <1>1, <1>6 DEF CareInv, chain
<1> QED  BY <1>5, <1>6

\* The steps of the command keep the plan ready.
LEMMA CareStep ==
    ASSUME IsFiniteSet(Votes), TypeInv, SafeInv, RunInv, BooksInv, CareInv, Step
    PROVE  CareInv'
<1>0. /\ TypeOK /\ PhaseInv /\ toAdd \subseteq Votes /\ half \in toRemove \cup {None}
  BY DEF TypeInv, TypeOK
<1>1. CASE FetchPool
  <2>1. /\ pc' = "fetch_list" /\ UNCHANGED chain
        /\ seen'.epoch = epoch /\ seen'.poolEpoch = poolEpoch
    BY <1>1 DEF FetchPool
  <2> QED  BY <2>1 DEF CareInv, Quiet, chain
<1>2. CASE FetchList
  <2>1. /\ pc' = "update" /\ UNCHANGED <<chain, config, undisturbed>>
        /\ seen'.epoch = seen.epoch /\ seen'.poolEpoch = seen.poolEpoch
        /\ seen'.list = pool.list
    BY <1>0, <1>2 DEF FetchList, TypeOK
  <2> QED  BY <2>1 DEF CareInv, Quiet, chain
<1>3. CASE UpdateNotRequired
  <2>1. /\ pc = "update" /\ pc' = "fetch_vsas"
        /\ UNCHANGED <<chain, config, seen, undisturbed>>
    BY <1>3 DEF UpdateNotRequired
  <2>2. Quiet' = Quiet
    BY <2>1, CarefulKept
  <2> QED  BY <2>1, <2>2 DEF CareInv, chain
<1>4. CASE UpdatePool
  <2>1. pc' = "fetch_vsas" /\ seen.poolEpoch < seen.epoch /\ seen' = seen
    BY <1>4 DEF UpdatePool
  <2>2. ~Quiet'
    <3>1. seen.poolEpoch # seen.epoch
      BY <1>0, <2>1 DEF TypeOK
    <3> QED  BY <2>1, <3>1 DEF Quiet
  <2> QED  BY <2>2 DEF CareInv, Careful
<1>5. CASE FetchVsas
  <2>1. /\ pc = "fetch_vsas" /\ pc' \in {"plan", "panicked"} /\ phase = "remove" /\ tx = <<>>
        /\ half = None
        /\ toAdd' = {v \in config.validators : seen.list[v].status = "Absent"}
        /\ toRemove' = {v \in Votes \ config.validators : seen.list[v].status = "Active"}
        /\ UNCHANGED <<epoch, poolEpoch, pool, config, undisturbed, phase, tx, half>>
    BY <1>0, <1>5 DEF FetchVsas, PhaseInv, chain
  <2>2. seen'.epoch = seen.epoch /\ seen'.poolEpoch = seen.poolEpoch
    <3>1. CASE UNCHANGED seen
      BY <3>1
    <3>2. CASE seen' = [seen EXCEPT !.list =
                  [v \in Votes |-> [seen.list[v] EXCEPT !.live = pool.list[v].live]]]
      BY <1>0, <3>2 DEF TypeOK
    <3> QED  BY <1>5, <3>1, <3>2 DEF FetchVsas
  <2>3. CASE ~Quiet
    <3>1. ~Quiet'
      BY <2>1, <2>2, <2>3 DEF Quiet
    <3> QED  BY <3>1 DEF CareInv, Careful
  <2>4. CASE Quiet
    <3>1. seen.list = pool.list /\ poolEpoch = epoch /\ seen.epoch = epoch
      BY <2>1, <2>4 DEF CareInv
    <3>2. ~(\E v \in toRemove' : pool.list[v].status = "Absent")
      BY <2>1, <3>1
    <3>3. pc' = "plan" /\ seen' = seen
      <4>1. pc' = "plan" /\ seen' = [seen EXCEPT !.list =
                  [v \in Votes |-> [seen.list[v] EXCEPT !.live = pool.list[v].live]]]
        BY <1>5, <3>2 DEF FetchVsas
      <4>2. \A v \in Votes : [seen.list[v] EXCEPT !.live = pool.list[v].live] = seen.list[v]
        BY <1>0, <3>1 DEF TypeOK, Entry
      <4>3. [v \in Votes |-> [seen.list[v] EXCEPT !.live = pool.list[v].live]] = seen.list
        BY <1>0, <4>2 DEF TypeOK
      <4> QED  BY <1>0, <4>1, <4>3 DEF TypeOK
    <3>4. Removed' = Removed
      BY <2>1, <3>3, CarefulKept
    <3>5. \A v \in toRemove' : v \in Removed' /\ AsSeen(v)'
      BY <2>1, <3>1, <3>3, <3>4 DEF Removed, AsSeen
    <3>6. RemovalsReady(tx)' /\ \A v : Leaves(tx, v)'
      BY <2>1 DEF RemovalsReady, Leaves
    <3>7. \A v \in toAdd' : pool'.list[v].status = "Absent"
      BY <2>1, <3>1
    <3>8. PlanReady'
      BY <2>1, <3>5, <3>6, <3>7 DEF PlanReady
    <3> QED  BY <2>1, <3>1, <3>3, <3>8 DEF CareInv
  <2> QED  BY <2>3, <2>4
<1>6. CASE EmitPreferred
  <2>1. /\ pc = "plan" /\ pc' = "plan" /\ phase' = "end"
        /\ UNCHANGED <<chain, config, seen, undisturbed>>
    BY <1>6 DEF EmitPreferred
  <2>2. Quiet' = Quiet /\ PlanReady'
    BY <2>1, CarefulKept DEF PlanReady
  <2> QED  BY <2>1, <2>2 DEF CareInv, chain
<1>7. CASE SendTx
  <2>1. /\ pc = "plan" /\ pc' = "confirm"
        /\ UNCHANGED <<epoch, poolEpoch, pool, config, phase, seen, toRemove, toAdd, half, tx,
                       undisturbed>>
    BY <1>7 DEF SendTx, chain
  <2>2. Quiet' = Quiet /\ Careful' = Careful /\ Removed' = Removed
    BY <2>1, CarefulKept
  <2>3. PlanReady => PlanReady'
    <3>1. \A v : Halfway(v) => Halfway(v)'
      BY <2>1 DEF Halfway, Drained
    <3>2. PICK s : s = tx
      OBVIOUS
    <3>3. /\ RemovalsReady(tx) => RemovalsReady(tx)'
          /\ AdditionsReady(tx) => AdditionsReady(tx)'
          /\ \A v : Leaves(tx, v) => Leaves(tx, v)'
          /\ \A v : AsSeen(v) => AsSeen(v)'
      BY <2>1, <3>2, ReadyKept
    <3> QED  BY <2>1, <2>2, <3>1, <3>3 DEF PlanReady
  <2> QED  BY <2>1, <2>2, <2>3 DEF CareInv
<1>8. CASE NextPhase
  <2>1. /\ pc = "plan" /\ tx = <<>> /\ PhaseEmitted
        /\ UNCHANGED <<chain, config, seen, toRemove, toAdd, half, tx, undisturbed>>
        /\ \/ pc' = "done" /\ phase' = phase
           \/ pc' = "plan" /\ phase = "remove" /\ phase' = "add"
           \/ pc' = "plan" /\ phase = "add" /\ phase' = "prefer"
    BY <1>0, <1>8 DEF NextPhase, TypeOK
  <2>2. Quiet' = Quiet /\ Careful' = Careful
    BY <2>1, CarefulKept
  <2>3. CASE phase = "remove" /\ phase' = "add"
    <3>1. AdditionsReady(tx)' /\ \A v : Leaves(tx, v)'
      BY <2>1 DEF AdditionsReady, Leaves
    <3>2. PlanReady => PlanReady'
      BY <2>1, <2>3, <3>1 DEF PlanReady, chain
    <3> QED  BY <2>1, <2>2, <2>3, <3>2 DEF CareInv, chain
  <2>4. CASE phase' = "prefer"
    BY <2>1, <2>2, <2>4 DEF CareInv, PlanReady, chain
  <2>5. CASE pc' = "done"
    BY <2>1, <2>2, <2>5 DEF CareInv, chain
  <2> QED  BY <2>1, <2>3, <2>4, <2>5
<1> QED  BY <1>1, <1>2, <1>3, <1>4, <1>5, <1>6, <1>7, <1>8, CareDecrease, CareRemove, CareAdd
         DEF Step

\* So does everything else.
LEMMA CareNext ==
    ASSUME IsFiniteSet(Votes), TypeInv, SafeInv, RunInv, BooksInv, CareInv, [Next]_vars
    PROVE  CareInv'
<1>1. CASE Crash
  <2>1. pc' = "dead" /\ UNCHANGED <<epoch, poolEpoch, undisturbed, config, seen>>
    BY <1>1 DEF Crash
  <2>2. Quiet' = Quiet
    BY <2>1, CarefulKept
  <2> QED  BY <2>1, <2>2 DEF CareInv
<1>2. CASE \/ LoseTx \/ AdvanceEpoch \/ (\E t \in late : LandLate(t))
           \/ \E v \in Votes : DepositStake(v) \/ DeactivateDelinquent(v)
  <2>1. undisturbed' = FALSE
    BY <1>2 DEF LoseTx, LandLate, AdvanceEpoch, DepositStake, DeactivateDelinquent, Interfere, Others
  <2> QED  BY <2>1 DEF CareInv, Careful, Quiet
<1>3. CASE UNCHANGED vars \/ \E t \in late : DropLate(t)
  <2>1. UNCHANGED <<epoch, poolEpoch, pool, config, pc, phase, seen, toRemove, toAdd, half, tx,
                    undisturbed>>
    BY <1>3 DEF vars, chain, DropLate, command
  <2>2. Quiet' = Quiet /\ Careful' = Careful /\ Removed' = Removed
    BY <2>1, CarefulKept
  <2>3. PICK s : s = tx
    OBVIOUS
  <2>4. /\ RemovalsReady(tx) => RemovalsReady(tx)'
        /\ AdditionsReady(tx) => AdditionsReady(tx)'
        /\ \A v : Leaves(tx, v) => Leaves(tx, v)'
        /\ \A v : AsSeen(v) => AsSeen(v)'
    BY <2>1, <2>3, ReadyKept
  <2>5. \A v : Halfway(v) => Halfway(v)'
    BY <2>1 DEF Halfway, Drained
  <2>6. PlanReady => PlanReady'
    BY <2>1, <2>2, <2>4, <2>5 DEF PlanReady
  <2> QED  BY <2>1, <2>2, <2>6 DEF CareInv
<1> QED  BY <1>1, <1>2, <1>3, CareStep, CareCommit, CareAbort DEF Next, Runtime

\* The reserve of every pool that the command may find can pay for the validators that the
\* config may add to it, and for the accounts of a decrease.
Funded ==
    \A p \in InitialPools, c \in Configs :
        p.reserve >= 2 * Rent
            + NewVsa * Cardinality({v \in c.validators : p.list[v].status # "Active"})

\* What such a pool says of a validator's stake, it has counted.
StakeCounted ==
    \A p \in InitialPools, v \in Votes :
        p.list[v].status = "Active" /\ p.list[v].live /\ p.list[v].last_update_epoch >= 1 =>
            p.list[v].vsa = p.list[v].active_stake_lamports

\* A run that nobody disturbs, on a pool that was up to date, has all its transactions accepted
\* if its removals are such as the program takes and its preferred validators stay in the pool:
\* however many chunks they take, and whatever earlier runs and other users have left behind.
THEOREM NeverPanicsCorrect ==
    ASSUME IsFiniteSet(Votes), Funded, StakeCounted
    PROVE  Spec => []UndisturbedRunNeverPanics
<1> DEFINE Inv == TypeInv /\ SafeInv /\ RunInv /\ BooksInv /\ CareInv
<1>1. Init => Inv
  <2> SUFFICES ASSUME Init
               PROVE  Inv
    OBVIOUS
  <2>1. TypeInv /\ SafeInv
    BY InitType, InitAllowed
  <2>2. RunInv /\ CareInv
    BY DEF Init, RunInv, CareInv, Careful, Quiet
  <2>3. Solvent(pool)
    <3>1. pool \in InitialPools /\ config \in Configs
      BY DEF Init
    <3> QED  BY <3>1 DEF Funded, Solvent, Missing
  <2>4. poolEpoch = epoch => Counts(pool)
    <3> SUFFICES ASSUME poolEpoch = epoch, NEW v \in Votes,
                        pool.list[v].status = "Active", pool.list[v].live
                 PROVE  pool.list[v].vsa = pool.list[v].active_stake_lamports
      BY DEF Counts
    <3>1. pool \in InitialPools /\ v # None
      BY ListConstants DEF Init
    <3>2. pool.list[v].last_update_epoch = 1
      BY <3>1 DEF Init, Active
    <3> QED  BY <3>1, <3>2 DEF StakeCounted
  <2>5. poolEpoch <= epoch
    BY DEF Init
  <2> QED  BY <2>1, <2>2, <2>3, <2>4, <2>5 DEF BooksInv, Tally
<1>2. Inv /\ [Next]_vars => Inv'
  BY TypeStep, SafeStep, RunNext, BooksStep, CareNext
<1>3. Inv => UndisturbedRunNeverPanics
  BY DEF CareInv, Careful, Quiet, UndisturbedRunNeverPanics
<1> HIDE DEF Inv
<1> QED  BY <1>1, <1>2, <1>3, PTL DEF Spec

=============================================================================
