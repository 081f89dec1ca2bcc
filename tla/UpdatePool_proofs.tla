-------------------------- MODULE UpdatePool_proofs --------------------------
(***************************************************************************)
(* Proofs about UpdatePool, for any number of cranks, any list, any size   *)
(* of the slices and any bounds.                                           *)
(***************************************************************************)
EXTENDS UpdatePool, FoldLemmas

-----------------------------------------------------------------------------
(* The inductive invariants.                                               *)

\* The loop counter starts at 0, and a slice that was sent is one of the list.
LoopInv ==
    \A c \in Cranks : /\ pc[c] = "fetch_list" => chunk[c] = 0
                      /\ pc[c] = "confirm_slice" => HasSlice(c)

\* The list names no validator twice, nothing in it is ahead of the clock, and an updated pool
\* has an updated list.
ListInv ==
    /\ \A i, j \in DOMAIN list : list[i].vote = list[j].vote => i = j
    /\ \A i \in DOMAIN list : list[i].last_update_epoch <= epoch
    /\ poolEpoch <= epoch
    /\ poolEpoch = epoch => ListUpToDate

\* A copy is a lower bound: the entries of a validator only get newer.
CopyInv ==
    \A c \in Cranks : \A i \in DOMAIN seen[c].list :
        /\ seen[c].list[i].last_update_epoch <= epoch
        /\ \A j \in DOMAIN list : list[j].vote = seen[c].list[i].vote =>
              list[j].last_update_epoch >= seen[c].list[i].last_update_epoch

\* The transactions a crank sends.
SliceTxOf(c) == [by |-> c, start |-> SliceStart(c), votes |-> VotesOf(Slice(c)),
                 noMerge |-> noMerge[c]]
FinalTxOf(c) == [by |-> c, start |-> -1, votes |-> <<>>, noMerge |-> noMerge[c]]

\* A crank that lives has no other transaction in flight than the one it waits for.
OwnTxInv ==
    \A t \in pending : \/ pc[t.by] = "dead"
                       \/ pc[t.by] = "confirm_slice" /\ t = SliceTxOf(t.by)
                       \/ pc[t.by] = "confirm_final" /\ t = FinalTxOf(t.by)

\* How far an undisturbed crank is: what lies before its slice is updated.
Progress(c) ==
    /\ pc[c] # "failed"
    /\ pc[c] \in Alive => seen[c].epoch = epoch
    /\ pc[c] = "fetch_list" => seen[c].poolEpoch = poolEpoch
    /\ pc[c] \in {"slices", "confirm_slice"} =>
          /\ DOMAIN list = DOMAIN seen[c].list
          /\ \A i \in DOMAIN list : list[i].vote = seen[c].list[i].vote
          /\ \A i \in DOMAIN list : i <= SliceStart(c) => list[i].last_update_epoch = epoch
    /\ pc[c] \in {"final", "confirm_final", "done"} => ListUpToDate
    /\ pc[c] = "done" => poolEpoch = epoch
UndisturbedInv == \A c \in Cranks : undisturbed[c] => Progress(c)

-----------------------------------------------------------------------------
(* Types.                                                                  *)

\* The next slice starts where this one ends.
LEMMA NextSlice ==
    ASSUME NEW k \in Nat, NEW m \in Nat
    PROVE  k * m \in Nat /\ (k + 1) * m = k * m + m
OBVIOUS

\* A slice is a sequence of entries, no longer than asked.
LEMMA SliceType ==
    ASSUME TypeOK, NEW c \in Cranks
    PROVE  /\ SliceStart(c) \in Nat
           /\ Slice(c) \in Seq(Entry)
           /\ HasSlice(c) => /\ SliceEnd(c) \in Nat /\ SliceStart(c) < SliceEnd(c)
                             /\ SliceEnd(c) <= Len(seen[c].list)
                             /\ DOMAIN Slice(c) = 1 .. (SliceEnd(c) - SliceStart(c))
           /\ HasSlice(c) => \A i \in DOMAIN Slice(c) :
                                Slice(c)[i] = seen[c].list[SliceStart(c) + i]
<1>1. ChunkSize \in Nat \ {0} /\ chunk[c] \in Nat /\ seen[c].list \in Seq(Entry)
  BY UpdateConstants DEF TypeOK
<1>2. SliceStart(c) \in Nat
  BY <1>1, NextSlice DEF SliceStart
<1> DEFINE l == seen[c].list  a == SliceStart(c)  b == SliceEnd(c)
<1>3. Len(l) \in Nat /\ b \in Nat /\ b <= Len(l)
  BY <1>1, <1>2 DEF SliceEnd
<1>4. Slice(c) = SubSeq(l, a + 1, b)
  BY DEF Slice
<1>5. HasSlice(c) => a < b
  BY <1>1, <1>2, <1>3 DEF HasSlice, SliceEnd
<1> HIDE DEF l, a, b
<1>6. SubSeq(l, a + 1, b) \in Seq(Entry)
  BY <1>1, <1>2, <1>3, SMTT(30) DEF l, a
<1>7. a < b => /\ DOMAIN SubSeq(l, a + 1, b) = 1 .. (b - a)
               /\ \A i \in 1 .. (b - a) : SubSeq(l, a + 1, b)[i] = l[a + i]
  BY <1>1, <1>2, <1>3, SMTT(30) DEF l, a
<1> QED  BY <1>2, <1>3, <1>4, <1>5, <1>6, <1>7 DEF l, a, b

\* An update leaves an entry an entry of the same validator.
LEMMA UpdatedType ==
    ASSUME TypeOK, NEW e \in Entry, NEW merge
    PROVE  /\ Updated(e, merge) \in Entry
           /\ Updated(e, merge).vote = e.vote
           /\ Updated(e, merge).last_update_epoch = epoch
<1>1. epoch \in 0 .. MaxEpoch
  BY UpdateConstants DEF TypeOK
<1> QED  BY <1>1 DEF Updated, Entry, EntryStatuses

\* What a process that ends is left with.
LEMMA EndType ==
    ASSUME TypeOK, LoopInv, NEW c \in Cranks, NEW how \in {"done", "failed", "dead"}, End(c, how)
    PROVE  /\ pc' \in [Cranks -> Alive \cup {"idle", "done", "failed", "dead"}]
           /\ ctrl' \in [Cranks -> {"IfNeeded", "ForcePool", "ForceAll"}]
           /\ noMerge' \in [Cranks -> BOOLEAN]
           /\ seen' \in [Cranks -> [epoch : 0 .. MaxEpoch, poolEpoch : 0 .. MaxEpoch,
                                    list : Seq(Entry)]]
           /\ chunk' \in [Cranks -> Nat]
           /\ \A d \in Cranks : SliceStart(d)' < Len(seen'[d].list) + ChunkSize
           /\ LoopInv'
<1>1. NothingSeen \in [epoch : 0 .. MaxEpoch, poolEpoch : 0 .. MaxEpoch, list : Seq(Entry)]
      /\ Len(NothingSeen.list) = 0
  BY UpdateConstants DEF NothingSeen
<1>2. ASSUME NEW d \in Cranks
      PROVE  SliceStart(d)' < Len(seen'[d].list) + ChunkSize
  <2>1. CASE d = c
    BY <1>1, <2>1, UpdateConstants DEF End, TypeOK, SliceStart
  <2>2. CASE d # c
    BY <2>2 DEF End, TypeOK, SliceStart
  <2> QED  BY <2>1, <2>2
<1>3. LoopInv'
  BY DEF End, TypeOK, LoopInv, HasSlice, SliceStart
<1> QED  BY <1>1, <1>2, <1>3 DEF End, TypeOK

\* The votes of a slice are votes, as many as there are entries.
LEMMA VotesOfType ==
    ASSUME NEW s \in Seq(Entry)
    PROVE  VotesOf(s) \in Seq(Votes) /\ DOMAIN VotesOf(s) = DOMAIN s
           /\ \A i \in DOMAIN s : VotesOf(s)[i] = s[i].vote
<1>1. Len(s) \in Nat /\ DOMAIN s = 1 .. Len(s) /\ \A i \in DOMAIN s : s[i].vote \in Votes
  <2>1. \A i \in 1 .. Len(s) : s[i] \in Entry
    OBVIOUS
  <2>2. \A e \in Entry : e.vote \in Votes
    BY DEF Entry
  <2> QED  BY <2>1, <2>2
<1>2. VotesOf(s) \in [1 .. Len(s) -> Votes]
  BY <1>1 DEF VotesOf
<1>3. VotesOf(s) \in Seq(Votes)
  BY <1>1, <1>2
<1> QED  BY <1>1, <1>2, <1>3 DEF VotesOf

\* A slice that lands changes no entry's validator, and updates those it names where they are.
LEMMA LandSliceList ==
    ASSUME TypeOK, NEW t \in pending, LandSlice(t)
    PROVE  /\ list' \in Seq(Entry) /\ DOMAIN list' = DOMAIN list
           /\ \A i \in DOMAIN list :
                 /\ list'[i].vote = list[i].vote
                 /\ \/ list'[i] = list[i]
                    \/ list'[i].last_update_epoch = epoch
                 /\ i - t.start \in DOMAIN t.votes /\ t.votes[i - t.start] = list[i].vote
                    => list'[i].last_update_epoch = epoch
<1> DEFINE N(i) == IF i - t.start \in DOMAIN t.votes /\ t.votes[i - t.start] = list[i].vote
                   THEN Updated(list[i], ~t.noMerge) ELSE list[i]
<1>1. list \in Seq(Entry) /\ Len(list) \in Nat /\ DOMAIN list = 1 .. Len(list)
      /\ \A i \in DOMAIN list : list[i] \in Entry
  BY DEF TypeOK
<1>3. \A i \in DOMAIN list : N(i) \in Entry /\ N(i).vote = list[i].vote
                             /\ (N(i) = list[i] \/ N(i).last_update_epoch = epoch)
                             /\ (i - t.start \in DOMAIN t.votes /\ t.votes[i - t.start] = list[i].vote
                                 => N(i).last_update_epoch = epoch)
  BY <1>1, UpdatedType
<1>4. list' = [i \in DOMAIN list |-> N(i)]
  BY DEF LandSlice
<1> HIDE DEF N
<1>5. list' \in [1 .. Len(list) -> Entry]
  BY <1>1, <1>3, <1>4
<1>6. list' \in Seq(Entry) /\ DOMAIN list' = DOMAIN list
  BY <1>1, <1>5
<1> QED  BY <1>1, <1>3, <1>4, <1>6

\* What a sender that learns the fate of its transaction is left with.
LEMMA LearnType ==
    ASSUME TypeOK, LoopInv, NEW t \in pending, NEW confirmed \in BOOLEAN, Learn(t, confirmed)
    PROVE  /\ pc' \in [Cranks -> Alive \cup {"idle", "done", "failed", "dead"}]
           /\ ctrl' \in [Cranks -> {"IfNeeded", "ForcePool", "ForceAll"}]
           /\ noMerge' \in [Cranks -> BOOLEAN]
           /\ seen' \in [Cranks -> [epoch : 0 .. MaxEpoch, poolEpoch : 0 .. MaxEpoch,
                                    list : Seq(Entry)]]
           /\ chunk' \in [Cranks -> Nat]
           /\ \A d \in Cranks : SliceStart(d)' < Len(seen'[d].list) + ChunkSize
           /\ LoopInv'
<1>1. t.by \in Cranks
  BY DEF TypeOK, SliceTx, FinalTx
<1>2. CASE pc[t.by] \notin {"confirm_slice", "confirm_final"}
  <2>1. UNCHANGED cranks
    BY <1>2 DEF Learn
  <2> QED  BY <2>1 DEF cranks, TypeOK, LoopInv, HasSlice, SliceStart
<1>3. CASE pc[t.by] = "confirm_slice" /\ confirmed
  <2>1. /\ Keep(t.by, "slices") /\ chunk' = [chunk EXCEPT ![t.by] = @ + 1]
        /\ UNCHANGED <<ctrl, noMerge, seen>>
    BY <1>3 DEF Learn
  <2>2. ASSUME NEW d \in Cranks
        PROVE  SliceStart(d)' < Len(seen'[d].list) + ChunkSize
    <3>1. CASE d = t.by
      <4>1. HasSlice(d)
        BY <1>3, <3>1 DEF LoopInv
      <4>2. chunk[d] \in Nat /\ ChunkSize \in Nat /\ Len(seen[d].list) \in Nat
        BY UpdateConstants DEF TypeOK
      <4>3. SliceStart(d)' = (chunk[d] + 1) * ChunkSize /\ seen' = seen
        BY <2>1, <3>1 DEF TypeOK, SliceStart
      <4>4. chunk[d] * ChunkSize \in Nat
            /\ (chunk[d] + 1) * ChunkSize = chunk[d] * ChunkSize + ChunkSize
        BY <4>2, NextSlice
      <4> QED  BY <4>1, <4>2, <4>3, <4>4 DEF HasSlice, SliceStart
    <3>2. CASE d # t.by
      BY <2>1, <3>2 DEF TypeOK, SliceStart
    <3> QED  BY <3>1, <3>2
  <2>3. LoopInv'
    BY <2>1, <1>1 DEF Keep, TypeOK, LoopInv, HasSlice, SliceStart
  <2>4. pc' \in [Cranks -> Alive \cup {"idle", "done", "failed", "dead"}]
    BY <2>1 DEF Keep, TypeOK, Alive
  <2>5. chunk' \in [Cranks -> Nat]
    BY <1>1, <2>1 DEF TypeOK
  <2> QED  BY <2>1, <2>2, <2>3, <2>4, <2>5 DEF TypeOK
<1>4. CASE /\ pc[t.by] \in {"confirm_slice", "confirm_final"}
           /\ ~(pc[t.by] = "confirm_slice" /\ confirmed)
  <2>1. End(t.by, IF confirmed THEN "done" ELSE "failed")
    BY <1>4 DEF Learn
  <2>2. (IF confirmed THEN "done" ELSE "failed") \in {"done", "failed", "dead"}
    OBVIOUS
  <2> QED  BY <1>1, <2>1, <2>2, EndType
<1> QED  BY <1>2, <1>3, <1>4

\* The types, and what they rest on.
TypeInv == TypeOK /\ LoopInv

\* The initial states have their types.
LEMMA InitType ==
    ASSUME Init
    PROVE  TypeInv
<1>1. NothingSeen \in [epoch : 0 .. MaxEpoch, poolEpoch : 0 .. MaxEpoch, list : Seq(Entry)]
      /\ Len(NothingSeen.list) = 0
  BY UpdateConstants DEF NothingSeen
<1>2. \A c \in Cranks : SliceStart(c) = 0 /\ Len(seen[c].list) = 0
  BY <1>1, UpdateConstants DEF Init, SliceStart
<1>3. TypeOK
  BY <1>1, <1>2, UpdateConstants DEF Init, TypeOK, Alive
<1> QED  BY <1>3 DEF TypeInv, Init, LoopInv

\* What the phases of a crank are called does not matter to most of the types.
LEMMA KeepType ==
    ASSUME TypeOK, NEW c \in Cranks, NEW phase \in Alive, Keep(c, phase)
    PROVE  pc' \in [Cranks -> Alive \cup {"idle", "done", "failed", "dead"}]
BY DEF Keep, TypeOK

\* A selection of entries is a sequence of entries.
LEMMA StayingType ==
    ASSUME TypeOK
    PROVE  Select(list, Staying) \in Seq(Entry)
<1>1. list \in Seq(Entry)
  BY DEF TypeOK
<1> QED  BY <1>1, SelectEmbeds

\* A step of a crank keeps the types.
LEMMA StepType ==
    ASSUME TypeInv, NEW c \in Cranks, Step(c) \/ Crash(c)
    PROVE  TypeInv'
<1>0. TypeOK /\ LoopInv
  BY DEF TypeInv
<1>1. CASE FetchPool(c)
  <2>1. "fetch_list" \in Alive
    BY DEF Alive
  <2>2. pc' \in [Cranks -> Alive \cup {"idle", "done", "failed", "dead"}]
    BY <1>0, <1>1, <2>1, KeepType DEF FetchPool
  <2>3. PICK o \in Options[c] : /\ ctrl' = [ctrl EXCEPT ![c] = o.ctrl]
                                /\ noMerge' = [noMerge EXCEPT ![c] = o.noMerge]
    BY <1>1 DEF FetchPool
  <2>4. ctrl' \in [Cranks -> {"IfNeeded", "ForcePool", "ForceAll"}]
        /\ noMerge' \in [Cranks -> BOOLEAN]
    <3>1. o.ctrl \in {"IfNeeded", "ForcePool", "ForceAll"}
      BY UpdateConstants
    <3>2. o.noMerge \in BOOLEAN
      BY UpdateConstants
    <3> QED  BY <1>0, <2>3, <3>1, <3>2 DEF TypeOK
  <2>5. /\ seen' \in [Cranks -> [epoch : 0 .. MaxEpoch, poolEpoch : 0 .. MaxEpoch,
                                 list : Seq(Entry)]]
        /\ chunk' \in [Cranks -> Nat]
        /\ undisturbed' \in [Cranks -> BOOLEAN]
    <3>1. epoch \in 0 .. MaxEpoch /\ poolEpoch \in 0 .. MaxEpoch /\ <<>> \in Seq(Entry)
      BY <1>0, UpdateConstants DEF TypeOK
    <3> QED  BY <1>0, <1>1, <3>1 DEF FetchPool, TypeOK
  <2>6. \A d \in Cranks : SliceStart(d)' < Len(seen'[d].list) + ChunkSize
    <3> SUFFICES ASSUME NEW d \in Cranks
                 PROVE  SliceStart(d)' < Len(seen'[d].list) + ChunkSize
      OBVIOUS
    <3>1. CASE d = c
      BY <1>0, <1>1, <3>1, UpdateConstants DEF FetchPool, TypeOK, SliceStart
    <3>2. CASE d # c
      BY <1>0, <1>1, <3>2 DEF FetchPool, TypeOK, SliceStart
    <3> QED  BY <3>1, <3>2
  <2>7. LoopInv'
    BY <1>0, <1>1 DEF FetchPool, Keep, TypeOK, LoopInv, HasSlice, SliceStart
  <2> QED  BY <1>0, <1>1, <2>2, <2>4, <2>5, <2>6, <2>7 DEF FetchPool, chain, TypeInv, TypeOK
<1>2. CASE FetchList(c)
  <2>1. CASE IsUpdatedForCurrEpoch(c) /\ ctrl[c] = "IfNeeded"
    <3>1. End(c, "done") /\ UNCHANGED <<chain, undisturbed>>
      BY <1>2, <2>1 DEF FetchList
    <3> QED  BY <1>0, <3>1, EndType DEF chain, TypeInv, TypeOK
  <2>2. CASE ~(IsUpdatedForCurrEpoch(c) /\ ctrl[c] = "IfNeeded")
    <3>1. /\ seen' = [seen EXCEPT ![c].list = list]
          /\ Keep(c, "slices") \/ Keep(c, "final")
          /\ UNCHANGED <<ctrl, noMerge, chunk, chain, undisturbed>>
      BY <1>2, <2>2 DEF FetchList
    <3>2. pc' \in [Cranks -> Alive \cup {"idle", "done", "failed", "dead"}]
      BY <1>0, <3>1 DEF Keep, TypeOK, Alive
    <3>3. seen' \in [Cranks -> [epoch : 0 .. MaxEpoch, poolEpoch : 0 .. MaxEpoch,
                                list : Seq(Entry)]]
      BY <1>0, <3>1 DEF TypeOK
    <3>4. ASSUME NEW d \in Cranks
          PROVE  SliceStart(d)' < Len(seen'[d].list) + ChunkSize
      <4>1. CASE d = c
        <5>1. chunk[c] = 0 /\ seen'[c].list = list /\ Len(list) \in Nat
          BY <1>0, <1>2, <3>1 DEF TypeOK, LoopInv, FetchList
        <5> QED  BY <3>1, <4>1, <5>1, UpdateConstants DEF SliceStart
      <4>2. CASE d # c
        BY <1>0, <3>1, <4>2 DEF TypeOK, SliceStart
      <4> QED  BY <4>1, <4>2
    <3>5. LoopInv'
      BY <1>0, <3>1 DEF Keep, TypeOK, LoopInv, HasSlice, SliceStart
    <3> QED  BY <1>0, <3>1, <3>2, <3>3, <3>4, <3>5 DEF chain, TypeInv, TypeOK
  <2> QED  BY <2>1, <2>2
<1>3. CASE SkipSlice(c)
  <2>1. chunk' \in [Cranks -> Nat]
    BY <1>0, <1>3 DEF SkipSlice, TypeOK
  <2>2. ASSUME NEW d \in Cranks
        PROVE  SliceStart(d)' < Len(seen'[d].list) + ChunkSize
    <3>1. CASE d = c
      <4>1. chunk[d] \in Nat /\ ChunkSize \in Nat /\ Len(seen[d].list) \in Nat /\ HasSlice(d)
        BY <1>0, <1>3, <3>1, UpdateConstants DEF TypeOK, SkipSlice
      <4>2. SliceStart(d)' = (chunk[d] + 1) * ChunkSize /\ seen' = seen
        BY <1>0, <1>3, <3>1 DEF SkipSlice, TypeOK, SliceStart
      <4>3. chunk[d] * ChunkSize \in Nat
            /\ (chunk[d] + 1) * ChunkSize = chunk[d] * ChunkSize + ChunkSize
        BY <4>1, NextSlice
      <4> QED  BY <4>1, <4>2, <4>3 DEF HasSlice, SliceStart
    <3>2. CASE d # c
      BY <1>0, <1>3, <3>2 DEF SkipSlice, TypeOK, SliceStart
    <3> QED  BY <3>1, <3>2
  <2>3. LoopInv'
    BY <1>0, <1>3 DEF SkipSlice, TypeOK, LoopInv, HasSlice, SliceStart
  <2> QED  BY <1>0, <1>3, <2>1, <2>2, <2>3 DEF SkipSlice, chain, TypeInv, TypeOK
<1>4. CASE SendSlice(c)
  <2>1. SliceTxOf(c) \in SliceTx
    BY <1>0, SliceType, VotesOfType DEF TypeOK, SliceTx, SliceTxOf
  <2>2. pending' \subseteq SliceTx \cup FinalTx
    BY <1>0, <1>4, <2>1 DEF TypeOK, SendSlice, SliceTxOf
  <2>3. pc' \in [Cranks -> Alive \cup {"idle", "done", "failed", "dead"}]
    BY <1>0, <1>4 DEF SendSlice, Keep, TypeOK, Alive
  <2>4. LoopInv'
    BY <1>0, <1>4 DEF SendSlice, Keep, TypeOK, LoopInv, HasSlice, SliceStart
  <2>5. \A d \in Cranks : SliceStart(d)' < Len(seen'[d].list) + ChunkSize
    BY <1>0, <1>4 DEF SendSlice, TypeOK, SliceStart
  <2> QED  BY <1>0, <1>4, <2>2, <2>3, <2>4, <2>5 DEF SendSlice, TypeInv, TypeOK
<1>5. CASE SendFinal(c)
  <2>1. pending' \subseteq SliceTx \cup FinalTx
    BY <1>0, <1>5 DEF TypeOK, SendFinal, FinalTx
  <2>2. pc' \in [Cranks -> Alive \cup {"idle", "done", "failed", "dead"}]
    BY <1>0, <1>5 DEF SendFinal, Keep, TypeOK, Alive
  <2>3. LoopInv'
    BY <1>0, <1>5 DEF SendFinal, Keep, TypeOK, LoopInv, HasSlice, SliceStart
  <2>4. \A d \in Cranks : SliceStart(d)' < Len(seen'[d].list) + ChunkSize
    BY <1>0, <1>5 DEF SendFinal, TypeOK, SliceStart
  <2> QED  BY <1>0, <1>5, <2>1, <2>2, <2>3, <2>4 DEF SendFinal, TypeInv, TypeOK
<1>6. CASE Crash(c)
  <2>1. End(c, "dead")
    BY <1>6 DEF Crash
  <2>2. losses' \in 0 .. MaxLosses
    BY <1>0, <1>6, UpdateConstants DEF Crash, TypeOK
  <2> QED  BY <1>0, <1>6, <2>1, <2>2, EndType DEF Crash, TypeInv, TypeOK
<1> QED  BY <1>1, <1>2, <1>3, <1>4, <1>5, <1>6 DEF Step

\* So does a transaction that is settled.
LEMMA SettleType ==
    ASSUME TypeInv, NEW t \in pending, LandSlice(t) \/ LandFinal(t) \/ RejectFinal(t) \/ Lose(t)
    PROVE  TypeInv'
<1>0. TypeOK /\ LoopInv /\ t.by \in Cranks
  BY DEF TypeInv, TypeOK, SliceTx, FinalTx
<1>1. CASE LandSlice(t)
  <2>1. list' \in Seq(Entry)
    BY <1>0, <1>1, LandSliceList
  <2>2. Learn(t, TRUE) /\ pending' = pending \ {t} /\ DisturbOthers(t.by)
        /\ UNCHANGED <<epoch, poolEpoch, changes, losses>>
    BY <1>1 DEF LandSlice
  <2>3. undisturbed' \in [Cranks -> BOOLEAN]
    BY <1>0, <2>2 DEF DisturbOthers, TypeOK
  <2> QED  BY <1>0, <2>1, <2>2, <2>3, LearnType DEF TypeInv, TypeOK
<1>2. CASE LandFinal(t)
  <2>1. list' \in Seq(Entry)
    BY <1>0, <1>2, StayingType DEF LandFinal
  <2>2. Learn(t, TRUE) /\ pending' = pending \ {t} /\ DisturbOthers(t.by)
        /\ poolEpoch' = epoch /\ UNCHANGED <<epoch, changes, losses>>
    BY <1>2 DEF LandFinal
  <2>3. undisturbed' \in [Cranks -> BOOLEAN]
    BY <1>0, <2>2 DEF DisturbOthers, TypeOK
  <2>4. epoch \in 0 .. MaxEpoch
    BY <1>0, UpdateConstants DEF TypeOK
  <2> QED  BY <1>0, <2>1, <2>2, <2>3, <2>4, LearnType DEF TypeInv, TypeOK
<1>3. CASE RejectFinal(t)
  <2>1. Learn(t, FALSE) /\ pending' = pending \ {t}
        /\ UNCHANGED <<epoch, poolEpoch, list, changes, losses, undisturbed>>
    BY <1>3 DEF RejectFinal
  <2> QED  BY <1>0, <2>1, LearnType DEF TypeInv, TypeOK
<1>4. CASE Lose(t)
  <2>1. Learn(t, FALSE) /\ pending' = pending \ {t}
        /\ UNCHANGED <<epoch, poolEpoch, list, changes>>
    BY <1>4 DEF Lose
  <2>2. losses' \in 0 .. MaxLosses /\ undisturbed' \in [Cranks -> BOOLEAN]
    BY <1>0, <1>4, UpdateConstants DEF Lose, TypeOK
  <2> QED  BY <1>0, <2>1, <2>2, LearnType DEF TypeInv, TypeOK
<1> QED  BY <1>1, <1>2, <1>3, <1>4

\* Steps that leave the cranks alone keep what is said about them.
LEMMA CranksUnchanged ==
    ASSUME TypeInv, UNCHANGED cranks
    PROVE  /\ pc' \in [Cranks -> Alive \cup {"idle", "done", "failed", "dead"}]
           /\ ctrl' \in [Cranks -> {"IfNeeded", "ForcePool", "ForceAll"}]
           /\ noMerge' \in [Cranks -> BOOLEAN]
           /\ seen' \in [Cranks -> [epoch : 0 .. MaxEpoch, poolEpoch : 0 .. MaxEpoch,
                                    list : Seq(Entry)]]
           /\ chunk' \in [Cranks -> Nat]
           /\ \A d \in Cranks : SliceStart(d)' < Len(seen'[d].list) + ChunkSize
           /\ LoopInv'
BY DEF cranks, TypeInv, TypeOK, LoopInv, HasSlice, SliceStart

\* Every step keeps the types.
LEMMA TypeStep ==
    ASSUME TypeInv, [Next]_vars
    PROVE  TypeInv'
<1>0. TypeOK /\ LoopInv
  BY DEF TypeInv
<1>1. CASE \E c \in Cranks : Step(c) \/ Crash(c)
  BY <1>1, StepType
<1>2. CASE Settle
  BY <1>2, SettleType DEF Settle
<1>3. ASSUME NEW v \in Votes, AddValidator(v)
      PROVE  TypeInv'
  <2>1. UNCHANGED cranks /\ UNCHANGED <<epoch, poolEpoch, pending, losses>>
        /\ changes' \in 0 .. MaxChanges /\ undisturbed' \in [Cranks -> BOOLEAN]
    BY <1>0, <1>3, UpdateConstants DEF AddValidator, OwnerStep, TypeOK
  <2>2. [vote |-> v, last_update_epoch |-> epoch, status |-> "Active"] \in Entry
    BY <1>0, UpdateConstants DEF TypeOK, Entry, EntryStatuses
  <2>3. list' \in Seq(Entry)
    BY <1>0, <1>3, <2>2 DEF AddValidator, TypeOK
  <2> QED  BY <1>0, <2>1, <2>3, CranksUnchanged DEF TypeInv, TypeOK
<1>4. ASSUME NEW i \in DOMAIN list, RemoveValidator(i)
      PROVE  TypeInv'
  <2>1. UNCHANGED cranks /\ UNCHANGED <<epoch, poolEpoch, pending, losses>>
        /\ changes' \in 0 .. MaxChanges /\ undisturbed' \in [Cranks -> BOOLEAN]
    BY <1>0, <1>4, UpdateConstants DEF RemoveValidator, OwnerStep, TypeOK
  <2>2. list' = [list EXCEPT ![i].status = "Deactivating"] /\ list[i] \in Entry
    BY <1>0, <1>4 DEF RemoveValidator, TypeOK
  <2>3. [list[i] EXCEPT !.status = "Deactivating"] \in Entry
    BY <2>2 DEF Entry, EntryStatuses
  <2>4. list' \in Seq(Entry)
    BY <1>0, <2>2, <2>3 DEF TypeOK
  <2> QED  BY <1>0, <2>1, <2>4, CranksUnchanged DEF TypeInv, TypeOK
<1>5. CASE AdvanceEpoch
  <2>1. UNCHANGED cranks /\ UNCHANGED <<poolEpoch, list, pending, changes, losses>>
        /\ epoch' \in 1 .. MaxEpoch /\ undisturbed' \in [Cranks -> BOOLEAN]
    BY <1>0, <1>5, UpdateConstants DEF AdvanceEpoch, TypeOK
  <2> QED  BY <1>0, <2>1, CranksUnchanged DEF TypeInv, TypeOK
<1>6. CASE UNCHANGED vars
  BY <1>0, <1>6, CranksUnchanged DEF vars, chain, cranks, TypeInv, TypeOK
<1> QED  BY <1>1, <1>2, <1>3, <1>4, <1>5, <1>6 DEF Next, Owners

\* The variables keep their types, and the loop over the slices stays within the list.
THEOREM TypeCorrect == Spec => []TypeOK
<1>1. Init => TypeInv
  BY InitType
<1>2. TypeInv /\ [Next]_vars => TypeInv'
  BY TypeStep
<1>3. TypeInv => TypeOK
  BY DEF TypeInv
<1> QED  BY <1>1, <1>2, <1>3, PTL DEF Spec

-----------------------------------------------------------------------------
(* The list, and the copies of it.                                         *)


\* What a step may do to the list: an entry is one of an old entry's validator, and as old as
\* that one, or it is of this epoch; no validator gets a second entry.
ListGrowsNewer ==
    /\ epoch' >= epoch
    /\ \A i, j \in DOMAIN list' : list'[i].vote = list'[j].vote => i = j
    /\ \A j \in DOMAIN list' :
          \/ list'[j].last_update_epoch = epoch
          \/ \E i \in DOMAIN list : /\ list'[j].vote = list[i].vote
                                    /\ list'[j].last_update_epoch = list[i].last_update_epoch

\* The final transaction drops entries and keeps the others as they are.
LEMMA LandFinalList ==
    ASSUME TypeInv, ListInv, NEW t \in pending, LandFinal(t)
    PROVE  ListGrowsNewer /\ \A j \in DOMAIN list' : list'[j].last_update_epoch = epoch
<1>1. list \in Seq(Entry) /\ list' = Select(list, Staying) /\ epoch' = epoch
      /\ epoch \in Int /\ ListUpToDate
  BY DEF TypeInv, TypeOK, LandFinal
<1>2. list' \in Seq(Entry) /\ \E h : Embeds(h, list', list, Staying, Len(list))
  BY <1>1, SelectEmbeds
<1>3. PICK h : Embeds(h, list', list, Staying, Len(list))
  BY <1>2
<1>4. DOMAIN list' = 1 .. Len(list') /\ DOMAIN list = 1 .. Len(list) /\ Len(list') \in Nat
      /\ Len(list) \in Nat
  BY <1>1, <1>2
<1>5. \A j \in DOMAIN list' : h[j] \in DOMAIN list /\ list'[j] = list[h[j]]
  BY <1>3, <1>4 DEF Embeds
<1>6. ASSUME NEW i \in DOMAIN list', NEW j \in DOMAIN list', list'[i].vote = list'[j].vote
      PROVE  i = j
  <2>1. h[i] = h[j]
    BY <1>5, <1>6 DEF ListInv
  <2>2. i < j => h[i] < h[j]
    BY <1>3, <1>4 DEF Embeds
  <2>3. j < i => h[j] < h[i]
    BY <1>3, <1>4 DEF Embeds
  <2>4. h[i] \in Int /\ h[j] \in Int /\ i \in Int /\ j \in Int
    BY <1>4, <1>5
  <2> QED  BY <2>1, <2>2, <2>3, <2>4
<1>7. \A j \in DOMAIN list' : list'[j].last_update_epoch = epoch
  BY <1>1, <1>5 DEF ListUpToDate
<1> QED  BY <1>1, <1>6, <1>7 DEF ListGrowsNewer

\* No step does anything else to the list.
LEMMA ListStep ==
    ASSUME TypeInv, ListInv, [Next]_vars
    PROVE  ListGrowsNewer
<1>0. list \in Seq(Entry) /\ epoch \in Int /\ DOMAIN list = 1 .. Len(list) /\ Len(list) \in Nat
  BY DEF TypeInv, TypeOK
<1>1. CASE UNCHANGED <<epoch, list>>
  BY <1>0, <1>1 DEF ListInv, ListGrowsNewer
<1>2. ASSUME NEW c \in Cranks, Step(c) \/ Crash(c)
      PROVE  UNCHANGED <<epoch, list>>
  BY <1>2 DEF Step, Crash, FetchPool, FetchList, SkipSlice, SendSlice, SendFinal, chain
<1>3. ASSUME NEW t \in pending, LandSlice(t)
      PROVE  ListGrowsNewer
  <2>1. DOMAIN list' = DOMAIN list /\ epoch' = epoch
        /\ \A i \in DOMAIN list : /\ list'[i].vote = list[i].vote
                                  /\ \/ list'[i] = list[i]
                                     \/ list'[i].last_update_epoch = epoch
    BY <1>3, LandSliceList DEF TypeInv, LandSlice
  <2> QED  BY <1>0, <2>1 DEF ListInv, ListGrowsNewer
<1>4. ASSUME NEW t \in pending, LandFinal(t)
      PROVE  ListGrowsNewer
  BY <1>4, LandFinalList
<1>5. ASSUME NEW t \in pending, RejectFinal(t) \/ Lose(t)
      PROVE  UNCHANGED <<epoch, list>>
  BY <1>5 DEF RejectFinal, Lose
<1>6. ASSUME NEW v \in Votes, AddValidator(v)
      PROVE  ListGrowsNewer
  <2> DEFINE e == [vote |-> v, last_update_epoch |-> epoch, status |-> "Active"]
  <2>1. list' = Append(list, e) /\ epoch' = epoch /\ \A i \in DOMAIN list : list[i].vote # v
    BY <1>6 DEF AddValidator, OwnerStep
  <2>2. e.vote = v /\ e.last_update_epoch = epoch
    OBVIOUS
  <2> HIDE DEF e
  <2>3. /\ DOMAIN list' = 1 .. (Len(list) + 1) /\ list'[Len(list) + 1] = e
        /\ \A i \in DOMAIN list : list'[i] = list[i]
    BY <1>0, <2>1
  <2>4. \A j \in DOMAIN list' : j \in DOMAIN list \/ j = Len(list) + 1
    BY <1>0, <2>3
  <2>5. \A j \in DOMAIN list' :
          \/ list'[j].last_update_epoch = epoch
          \/ \E i \in DOMAIN list : /\ list'[j].vote = list[i].vote
                                    /\ list'[j].last_update_epoch = list[i].last_update_epoch
    BY <2>2, <2>3, <2>4
  <2>6. \A i, j \in DOMAIN list' : list'[i].vote = list'[j].vote => i = j
    BY <2>1, <2>2, <2>3, <2>4 DEF ListInv
  <2> QED  BY <1>0, <2>1, <2>5, <2>6 DEF ListGrowsNewer
<1>7. ASSUME NEW i \in DOMAIN list, RemoveValidator(i)
      PROVE  ListGrowsNewer
  <2>1. list' = [list EXCEPT ![i].status = "Deactivating"] /\ epoch' = epoch
    BY <1>7 DEF RemoveValidator, OwnerStep
  <2>2. \A j \in DOMAIN list : list[j] \in Entry
    BY <1>0
  <2>3. DOMAIN list' = DOMAIN list
        /\ \A j \in DOMAIN list : list'[j].vote = list[j].vote
                                  /\ list'[j].last_update_epoch = list[j].last_update_epoch
    BY <2>1, <2>2 DEF Entry
  <2> QED  BY <1>0, <2>1, <2>3 DEF ListInv, ListGrowsNewer
<1>8. ASSUME AdvanceEpoch
      PROVE  ListGrowsNewer
  BY <1>0, <1>8 DEF AdvanceEpoch, ListInv, ListGrowsNewer
<1>9. CASE UNCHANGED vars
  BY <1>1, <1>9 DEF vars, chain
<1> QED
  BY <1>1, <1>2, <1>3, <1>4, <1>5, <1>6, <1>7, <1>8, <1>9 DEF Next, Settle, Owners

\* What a crank holds a copy of does not change unless it drops or makes it.
LEMMA SeenStep ==
    ASSUME TypeInv, [Next]_vars, NEW c \in Cranks
    PROVE  \/ seen'[c].list = seen[c].list
           \/ seen'[c].list = <<>>
           \/ seen'[c].list = list /\ list' = list
<1>0. seen \in [Cranks -> [epoch : 0 .. MaxEpoch, poolEpoch : 0 .. MaxEpoch,
                           list : Seq(Entry)]]
      /\ \A t \in pending : t.by \in Cranks
  BY DEF TypeInv, TypeOK, SliceTx, FinalTx
<1>1. ASSUME NEW d \in Cranks, NEW how, End(d, how)
      PROVE  seen'[c].list = seen[c].list \/ seen'[c].list = <<>>
  BY <1>0, <1>1 DEF End, NothingSeen
<1>2. ASSUME NEW t \in pending, NEW confirmed \in BOOLEAN, Learn(t, confirmed)
      PROVE  seen'[c].list = seen[c].list \/ seen'[c].list = <<>>
  <2>1. UNCHANGED seen \/ End(t.by, "done") \/ End(t.by, "failed")
    BY <1>2 DEF Learn, cranks
  <2> QED  BY <1>0, <1>1, <2>1
<1>3. ASSUME NEW t \in pending, LandSlice(t) \/ LandFinal(t) \/ RejectFinal(t) \/ Lose(t)
      PROVE  seen'[c].list = seen[c].list \/ seen'[c].list = <<>>
  <2>1. Learn(t, TRUE) \/ Learn(t, FALSE)
    BY <1>3 DEF LandSlice, LandFinal, RejectFinal, Lose
  <2> QED  BY <1>2, <2>1
<1>4. ASSUME NEW d \in Cranks, Step(d) \/ Crash(d)
      PROVE  \/ seen'[c].list = seen[c].list
             \/ seen'[c].list = <<>>
             \/ seen'[c].list = list /\ list' = list
  <2>1. CASE FetchPool(d)
    BY <1>0, <2>1 DEF FetchPool
  <2>2. CASE FetchList(d)
    <3>1. End(d, "done") \/ (seen' = [seen EXCEPT ![d].list = list] /\ list' = list)
      BY <2>2 DEF FetchList, chain
    <3> QED  BY <1>0, <1>1, <3>1
  <2>3. CASE SkipSlice(d) \/ SendSlice(d) \/ SendFinal(d)
    BY <2>3 DEF SkipSlice, SendSlice, SendFinal
  <2>4. CASE Crash(d)
    BY <1>1, <2>4 DEF Crash
  <2> QED  BY <1>4, <2>1, <2>2, <2>3, <2>4 DEF Step
<1>5. ASSUME Owners \/ AdvanceEpoch \/ UNCHANGED vars
      PROVE  UNCHANGED seen
  BY <1>5 DEF Owners, AddValidator, RemoveValidator, OwnerStep, AdvanceEpoch, vars, cranks
<1> QED  BY <1>3, <1>4, <1>5 DEF Next, Settle

\* The invariants of the list and its copies hold at first,
LEMMA InitList ==
    ASSUME Init
    PROVE  ListInv /\ CopyInv
<1>1. list \in Seq(Entry) /\ epoch = 1 /\ poolEpoch \in {0, 1}
      /\ \A i, j \in DOMAIN list :
            (list[i].vote = list[j].vote => i = j) /\ list[i].last_update_epoch <= 1
  BY UpdateConstants DEF Init
<1>2. ListInv
  BY <1>1 DEF ListInv, Init
<1>3. \A c \in Cranks : seen[c].list = <<>> /\ DOMAIN seen[c].list = {}
  BY DEF Init, NothingSeen
<1>4. CopyInv
  BY <1>3 DEF CopyInv
<1> QED  BY <1>2, <1>4

\* and every step keeps them.
LEMMA ListInvStep ==
    ASSUME TypeInv, ListInv, CopyInv, [Next]_vars
    PROVE  ListInv' /\ CopyInv'
<1>0. ListGrowsNewer /\ TypeInv'
  BY ListStep, TypeStep
<1>1. epoch \in Int /\ epoch' \in Int /\ poolEpoch \in Int /\ poolEpoch' \in Int
      /\ (\A i \in DOMAIN list : list[i].last_update_epoch \in Int)
      /\ (\A i \in DOMAIN list' : list'[i].last_update_epoch \in Int)
      /\ (\A c \in Cranks : \A i \in DOMAIN seen[c].list :
             seen[c].list[i].last_update_epoch \in Int)
  <2>1. \A s \in Seq(Entry) : \A i \in DOMAIN s : s[i].last_update_epoch \in Int
    <3>1. \A e \in Entry : e.last_update_epoch \in Int
      BY UpdateConstants DEF Entry
    <3>2. \A s \in Seq(Entry) : \A i \in DOMAIN s : s[i] \in Entry
      OBVIOUS
    <3> QED  BY <3>1, <3>2
  <2>2. list \in Seq(Entry) /\ list' \in Seq(Entry)
    BY <1>0 DEF TypeInv, TypeOK
  <2>3. \A c \in Cranks : seen[c].list \in Seq(Entry)
    BY DEF TypeInv, TypeOK
  <2>4. epoch \in Int /\ epoch' \in Int /\ poolEpoch \in Int /\ poolEpoch' \in Int
    BY <1>0, UpdateConstants DEF TypeInv, TypeOK
  <2> QED  BY <2>1, <2>2, <2>3, <2>4
<1>2. \A j \in DOMAIN list' : list'[j].last_update_epoch <= epoch
  BY <1>0, <1>1 DEF ListGrowsNewer, ListInv
<1>3. poolEpoch' <= epoch' /\ (poolEpoch' = epoch' => ListUpToDate')
  <2>1. CASE UNCHANGED <<epoch, poolEpoch>>
    BY <1>0, <1>1, <2>1 DEF ListInv, ListUpToDate, ListGrowsNewer
  <2>2. ASSUME NEW t \in pending, LandFinal(t)
        PROVE  poolEpoch' <= epoch' /\ (poolEpoch' = epoch' => ListUpToDate')
    <3>1. poolEpoch' = epoch /\ epoch' = epoch
      BY <2>2 DEF LandFinal
    <3>2. \A j \in DOMAIN list' : list'[j].last_update_epoch = epoch
      BY <2>2, LandFinalList
    <3> QED  BY <1>1, <3>1, <3>2 DEF ListUpToDate
  <2>3. CASE AdvanceEpoch
    BY <1>1, <2>3 DEF AdvanceEpoch, ListInv
  <2>4. ASSUME NEW t \in pending, LandSlice(t) \/ RejectFinal(t) \/ Lose(t)
        PROVE  UNCHANGED <<epoch, poolEpoch>>
    BY <2>4 DEF LandSlice, RejectFinal, Lose
  <2>5. ASSUME \/ \E c \in Cranks : Step(c) \/ Crash(c)
               \/ Owners \/ UNCHANGED vars
        PROVE  UNCHANGED <<epoch, poolEpoch>>
    BY <2>5 DEF Step, FetchPool, FetchList, SkipSlice, SendSlice, SendFinal, Crash, Owners,
                AddValidator, RemoveValidator, OwnerStep, vars, chain
  <2> QED  BY <2>1, <2>2, <2>3, <2>4, <2>5 DEF Next, Settle
<1>4. ListInv'
  BY <1>0, <1>1, <1>2, <1>3 DEF ListInv, ListGrowsNewer
<1>5. ASSUME NEW c \in Cranks, NEW i \in DOMAIN seen'[c].list
      PROVE  /\ seen'[c].list[i].last_update_epoch <= epoch'
             /\ \A j \in DOMAIN list' : list'[j].vote = seen'[c].list[i].vote =>
                   list'[j].last_update_epoch >= seen'[c].list[i].last_update_epoch
  <2>1. CASE seen'[c].list = seen[c].list
    <3>1. seen[c].list[i].last_update_epoch <= epoch /\ epoch' >= epoch
      BY <1>0, <2>1 DEF CopyInv, ListGrowsNewer
    <3>2. ASSUME NEW j \in DOMAIN list', list'[j].vote = seen[c].list[i].vote
          PROVE  list'[j].last_update_epoch >= seen[c].list[i].last_update_epoch
      <4>1. CASE list'[j].last_update_epoch = epoch
        BY <1>1, <2>1, <3>1, <4>1
      <4>2. CASE \E k \in DOMAIN list : /\ list'[j].vote = list[k].vote
                                        /\ list'[j].last_update_epoch = list[k].last_update_epoch
        BY <2>1, <3>2, <4>2 DEF CopyInv
      <4> QED  BY <1>0, <4>1, <4>2 DEF ListGrowsNewer
    <3> QED  BY <1>1, <2>1, <3>1, <3>2
  <2>2. CASE seen'[c].list = <<>>
    BY <2>2
  <2>3. CASE seen'[c].list = list /\ list' = list
    BY <1>1, <1>4, <2>3 DEF ListInv
  <2> QED  BY <2>1, <2>2, <2>3, SeenStep
<1>6. CopyInv'
  BY <1>5 DEF CopyInv
<1> QED  BY <1>4, <1>6

\* "ignores entries already updated for this epoch": what a crank skips has been updated for
\* the epoch that the crank read, in the list as it is by then, however the list has moved on
\* since it was copied.
THEOREM SkipsCorrect == Spec => SkipsOnlyUpdated
<1> DEFINE Inv == TypeInv /\ ListInv /\ CopyInv
           Safe == \A c \in Cranks : SkipSlice(c) =>
                      \A i \in DOMAIN Slice(c), j \in DOMAIN list :
                         list[j].vote = Slice(c)[i].vote
                         => list[j].last_update_epoch >= seen[c].epoch
<1>1. Init => Inv
  BY InitType, InitList
<1>2. Inv /\ [Next]_vars => Inv'
  BY TypeStep, ListInvStep
<1>3. Inv => Safe
  <2> SUFFICES ASSUME Inv, NEW c \in Cranks, SkipSlice(c),
                      NEW i \in DOMAIN Slice(c), NEW j \in DOMAIN list,
                      list[j].vote = Slice(c)[i].vote
               PROVE  list[j].last_update_epoch >= seen[c].epoch
    OBVIOUS
  <2>1. TypeOK /\ HasSlice(c) /\ SliceUpToDate(c)
    BY DEF SkipSlice, TypeInv
  <2>2. Slice(c)[i] = seen[c].list[SliceStart(c) + i]
        /\ SliceStart(c) + i \in DOMAIN seen[c].list
    <3>1. /\ SliceStart(c) \in Nat /\ SliceEnd(c) \in Nat /\ SliceStart(c) < SliceEnd(c)
          /\ SliceEnd(c) <= Len(seen[c].list)
          /\ DOMAIN Slice(c) = 1 .. (SliceEnd(c) - SliceStart(c))
          /\ Slice(c)[i] = seen[c].list[SliceStart(c) + i]
      BY <2>1, SliceType
    <3>2. seen[c].list \in Seq(Entry)
      BY <2>1 DEF TypeOK
    <3>3. DOMAIN seen[c].list = 1 .. Len(seen[c].list) /\ Len(seen[c].list) \in Nat
      BY <3>2
    <3> QED  BY <3>1, <3>3
  <2>3. Slice(c)[i].last_update_epoch >= seen[c].epoch
    BY <2>1 DEF SliceUpToDate
  <2>4. list[j].last_update_epoch >= Slice(c)[i].last_update_epoch
    BY <2>2 DEF CopyInv
  <2>5. /\ list[j].last_update_epoch \in Int /\ Slice(c)[i].last_update_epoch \in Int
        /\ seen[c].epoch \in Int
    <3>1. list[j] \in Entry /\ Slice(c)[i] \in Entry
      BY <2>1, <2>2, SliceType DEF TypeOK
    <3>2. seen[c].epoch \in Int
      BY <2>1, UpdateConstants DEF TypeOK
    <3> QED  BY <3>1, <3>2, UpdateConstants DEF Entry
  <2> QED  BY <2>3, <2>4, <2>5
<1> HIDE DEF Inv
<1>4. [Next]_vars /\ Inv => [Safe]_vars
  BY <1>3
<1> HIDE DEF Safe
<1>5. Spec => [][Safe]_vars
  BY <1>1, <1>2, <1>4, PTL DEF Spec
<1> QED  BY <1>5 DEF SkipsOnlyUpdated, Safe

-----------------------------------------------------------------------------
(* Transactions in flight.                                                 *)

\* Every step keeps it that a living crank has at most the transaction it waits for.
LEMMA OwnTxStep ==
    ASSUME TypeInv, OwnTxInv, [Next]_vars
    PROVE  OwnTxInv'
<1>0. /\ pc \in [Cranks -> Alive \cup {"idle", "done", "failed", "dead"}]
      /\ \A t \in pending : t.by \in Cranks
      /\ DOMAIN pc = Cranks /\ DOMAIN seen = Cranks
      /\ DOMAIN chunk = Cranks /\ DOMAIN noMerge = Cranks
  BY DEF TypeInv, TypeOK, SliceTx, FinalTx
<1> DEFINE Own(t) == \/ pc[t.by] = "dead"
                     \/ pc[t.by] = "confirm_slice" /\ t = SliceTxOf(t.by)
                     \/ pc[t.by] = "confirm_final" /\ t = FinalTxOf(t.by)
           Same(c) == /\ pc'[c] = pc[c] /\ seen'[c] = seen[c] /\ chunk'[c] = chunk[c]
                      /\ noMerge'[c] = noMerge[c]
<1>1. ASSUME NEW t \in pending, Same(t.by)
      PROVE  Own(t)'
  <2>1. SliceTxOf(t.by)' = SliceTxOf(t.by) /\ FinalTxOf(t.by)' = FinalTxOf(t.by)
    BY <1>1 DEF SliceTxOf, FinalTxOf, Slice, SliceStart, SliceEnd
  <2> QED  BY <1>1, <2>1 DEF OwnTxInv
<1>2. ASSUME NEW c \in Cranks, Step(c) \/ Crash(c)
      PROVE  OwnTxInv'
  <2>1. ASSUME NEW d \in Cranks, d # c
        PROVE  Same(d)
    BY <1>0, <1>2, <2>1 DEF Step, FetchPool, FetchList, SkipSlice, SendSlice, SendFinal, Crash,
                            Keep, End
  <2>2. ASSUME NEW t \in pending, t.by # c
        PROVE  Own(t)'
    BY <1>0, <1>1, <2>1, <2>2
  <2>3. CASE Crash(c)
    <3>1. pending' = pending /\ pc'[c] = "dead"
      BY <1>0, <2>3 DEF Crash, End
    <3> QED  BY <2>2, <3>1 DEF OwnTxInv
  <2>4. ASSUME Step(c), NEW t \in pending
        PROVE  t.by # c
    <3>1. pc[c] \notin {"dead", "confirm_slice", "confirm_final"} \/ FetchPool(c)
      BY <2>4 DEF Step, FetchList, SkipSlice, SendSlice, SendFinal
    <3> QED  BY <3>1 DEF OwnTxInv, FetchPool
  <2>5. CASE FetchPool(c) \/ FetchList(c) \/ SkipSlice(c)
    <3>1. pending' = pending
      BY <2>5 DEF FetchPool, FetchList, SkipSlice, chain
    <3> QED  BY <2>2, <2>4, <2>5, <3>1 DEF OwnTxInv, Step
  <2>6. CASE SendSlice(c)
    <3>1. pending' = pending \cup {SliceTxOf(c)} /\ pc'[c] = "confirm_slice"
      BY <1>0, <2>6 DEF SendSlice, Keep, SliceTxOf
    <3>2. SliceTxOf(c)' = SliceTxOf(c) /\ SliceTxOf(c).by = c
      BY <2>6 DEF SendSlice, SliceTxOf, Slice, SliceStart, SliceEnd
    <3> QED  BY <2>2, <2>4, <2>6, <3>1, <3>2 DEF OwnTxInv, Step
  <2>7. CASE SendFinal(c)
    <3>1. pending' = pending \cup {FinalTxOf(c)} /\ pc'[c] = "confirm_final"
      BY <1>0, <2>7 DEF SendFinal, Keep, FinalTxOf
    <3>2. FinalTxOf(c)' = FinalTxOf(c) /\ FinalTxOf(c).by = c
      BY <2>7 DEF SendFinal, FinalTxOf
    <3> QED  BY <2>2, <2>4, <2>7, <3>1, <3>2 DEF OwnTxInv, Step
  <2> QED  BY <1>2, <2>3, <2>5, <2>6, <2>7 DEF Step
<1>3. ASSUME NEW t \in pending, LandSlice(t) \/ LandFinal(t) \/ RejectFinal(t) \/ Lose(t)
      PROVE  OwnTxInv'
  <2>1. (Learn(t, TRUE) \/ Learn(t, FALSE)) /\ pending' = pending \ {t}
    BY <1>3 DEF LandSlice, LandFinal, RejectFinal, Lose
  <2>2. ASSUME NEW d \in Cranks, d # t.by
        PROVE  Same(d)
    BY <1>0, <2>1, <2>2 DEF Learn, Keep, End, cranks
  <2>3. ASSUME NEW u \in pending, u # t, u.by = t.by
        PROVE  pc[u.by] = "dead"
    BY <2>3 DEF OwnTxInv
  <2>4. ASSUME NEW u \in pending, u # t
        PROVE  Own(u)'
    <3>1. CASE u.by = t.by
      <4>1. pc[t.by] = "dead"
        BY <2>3, <2>4, <3>1
      <4>2. Same(t.by)
        BY <2>1, <4>1 DEF Learn, cranks
      <4> QED  BY <1>1, <3>1, <4>2
    <3>2. CASE u.by # t.by
      BY <1>0, <1>1, <2>2, <3>2
    <3> QED  BY <3>1, <3>2
  <2> QED  BY <2>1, <2>4 DEF OwnTxInv
<1>4. ASSUME Owners \/ AdvanceEpoch \/ UNCHANGED vars
      PROVE  OwnTxInv'
  <2>1. pending' = pending /\ UNCHANGED cranks
    BY <1>4 DEF Owners, AddValidator, RemoveValidator, OwnerStep, AdvanceEpoch, vars, chain
  <2>2. \A t \in pending : Own(t)'
    BY <1>1, <2>1 DEF cranks
  <2> QED  BY <2>1, <2>2 DEF OwnTxInv
<1> QED  BY <1>2, <1>3, <1>4 DEF Next, Settle

-----------------------------------------------------------------------------
(* An undisturbed crank.                                                   *)

\* A position before the next slice is before this one or in it.
LEMMA BeforeNextSlice ==
    ASSUME TypeOK, NEW c \in Cranks, HasSlice(c), NEW i \in 1 .. Len(seen[c].list),
           i <= SliceStart(c) + ChunkSize, ~(i <= SliceStart(c))
    PROVE  i - SliceStart(c) \in DOMAIN Slice(c)
           /\ Slice(c)[i - SliceStart(c)] = seen[c].list[i]
<1>1. ChunkSize \in Nat /\ Len(seen[c].list) \in Nat
  BY UpdateConstants DEF TypeOK
<1>2. /\ SliceStart(c) \in Nat /\ SliceEnd(c) \in Nat
      /\ DOMAIN Slice(c) = 1 .. (SliceEnd(c) - SliceStart(c))
      /\ \A k \in DOMAIN Slice(c) : Slice(c)[k] = seen[c].list[SliceStart(c) + k]
  BY SliceType
<1>3. i <= SliceEnd(c)
  BY <1>1, <1>2 DEF SliceEnd
<1>4. i - SliceStart(c) \in DOMAIN Slice(c) /\ SliceStart(c) + (i - SliceStart(c)) = i
  BY <1>2, <1>3
<1> QED  BY <1>2, <1>4

\* What a crank that goes on to the next slice has behind it.
LEMMA NextSliceStart ==
    ASSUME TypeOK, NEW c \in Cranks, chunk' = [chunk EXCEPT ![c] = @ + 1]
    PROVE  SliceStart(c)' = SliceStart(c) + ChunkSize
<1>1. chunk[c] \in Nat /\ ChunkSize \in Nat /\ chunk'[c] = chunk[c] + 1
  BY UpdateConstants DEF TypeOK
<1>2. (chunk[c] + 1) * ChunkSize = chunk[c] * ChunkSize + ChunkSize
  BY <1>1, NextSlice
<1> QED  BY <1>1, <1>2 DEF SliceStart

\* A step of a crank keeps track of its own progress,
LEMMA OwnProgress ==
    ASSUME TypeInv, ListInv, CopyInv, UndisturbedInv, NEW c \in Cranks, Step(c) \/ Crash(c),
           undisturbed'[c]
    PROVE  Progress(c)'
<1>0. /\ TypeOK /\ LoopInv /\ epoch \in Int /\ poolEpoch \in Int
      /\ list \in Seq(Entry) /\ DOMAIN list = 1 .. Len(list)
      /\ DOMAIN pc = Cranks /\ DOMAIN seen = Cranks
      /\ DOMAIN chunk = Cranks /\ DOMAIN undisturbed = Cranks
      /\ seen[c] \in [epoch : 0 .. MaxEpoch, poolEpoch : 0 .. MaxEpoch, list : Seq(Entry)]
  <2>1. TypeOK /\ LoopInv
    BY DEF TypeInv
  <2>2. epoch \in Int /\ poolEpoch \in Int
    BY <2>1, UpdateConstants DEF TypeOK
  <2>3. list \in Seq(Entry) /\ DOMAIN list = 1 .. Len(list)
    BY <2>1 DEF TypeOK
  <2> QED  BY <2>1, <2>2, <2>3 DEF TypeOK
<1>1. CASE FetchPool(c)
  <2>1. pc'[c] = "fetch_list" /\ seen'[c].epoch = epoch /\ seen'[c].poolEpoch = poolEpoch
        /\ UNCHANGED <<epoch, poolEpoch>>
    BY <1>0, <1>1 DEF FetchPool, Keep, chain
  <2> QED  BY <2>1 DEF Progress
<1>2. CASE ~FetchPool(c)
  <2>0. undisturbed[c] /\ Progress(c)
    BY <1>2 DEF Step, FetchList, SkipSlice, SendSlice, SendFinal, Crash, UndisturbedInv
  <2>1. CASE FetchList(c)
    <3>1. seen[c].epoch = epoch /\ seen[c].poolEpoch = poolEpoch
          /\ UNCHANGED <<epoch, poolEpoch, list>>
      BY <2>0, <2>1 DEF FetchList, Progress, chain, Alive
    <3>2. IsUpdatedForCurrEpoch(c) => poolEpoch = epoch /\ ListUpToDate
      BY <1>0, <3>1 DEF IsUpdatedForCurrEpoch, ListInv
    <3>3. ListUpToDate' <=> ListUpToDate
      BY <3>1 DEF ListUpToDate
    <3>4. CASE IsUpdatedForCurrEpoch(c) /\ ctrl[c] = "IfNeeded"
      <4>1. pc'[c] = "done"
        BY <1>0, <2>1, <3>4 DEF FetchList, End
      <4> QED  BY <3>1, <3>2, <3>3, <3>4, <4>1 DEF Progress, Alive
    <3>5. CASE ~(IsUpdatedForCurrEpoch(c) /\ ctrl[c] = "IfNeeded")
      <4>1. /\ seen' = [seen EXCEPT ![c].list = list] /\ chunk' = chunk
            /\ Keep(c, IF ~IsUpdatedForCurrEpoch(c) \/ ctrl[c] = "ForceAll"
                       THEN "slices" ELSE "final")
        BY <2>1, <3>5 DEF FetchList
      <4>2. seen'[c].epoch = seen[c].epoch /\ seen'[c].list = list
        BY <1>0, <4>1
      <4>3. \/ pc'[c] = "slices"
            \/ pc'[c] = "final" /\ IsUpdatedForCurrEpoch(c)
        BY <1>0, <4>1 DEF Keep
      <4>4. SliceStart(c)' = 0
        BY <1>0, <2>1, <4>1, UpdateConstants DEF SliceStart, LoopInv, FetchList
      <4>5. \A i \in DOMAIN list : ~(i <= 0)
        BY <1>0
      <4> QED  BY <3>1, <3>2, <3>3, <4>2, <4>3, <4>4, <4>5 DEF Progress
    <3> QED  BY <3>4, <3>5
  <2>2. CASE SkipSlice(c)
    <3>1. /\ pc[c] = "slices" /\ HasSlice(c) /\ SliceUpToDate(c)
          /\ chunk' = [chunk EXCEPT ![c] = @ + 1]
          /\ UNCHANGED <<epoch, poolEpoch, list, pc, seen>>
      BY <2>2 DEF SkipSlice, chain
    <3>2. SliceStart(c)' = SliceStart(c) + ChunkSize
      BY <1>0, <3>1, NextSliceStart
    <3>3. /\ DOMAIN list = DOMAIN seen[c].list /\ seen[c].epoch = epoch
          /\ \A i \in DOMAIN list : list[i].vote = seen[c].list[i].vote
          /\ \A i \in DOMAIN list : i <= SliceStart(c) => list[i].last_update_epoch = epoch
      BY <2>0, <3>1 DEF Progress, Alive
    <3>4. ASSUME NEW i \in DOMAIN list, i <= SliceStart(c) + ChunkSize
          PROVE  list[i].last_update_epoch = epoch
      <4>1. CASE i <= SliceStart(c)
        BY <3>3, <4>1
      <4>2. CASE ~(i <= SliceStart(c))
        <5>1. i \in 1 .. Len(seen[c].list)
          BY <1>0, <3>3
        <5>2. i - SliceStart(c) \in DOMAIN Slice(c)
              /\ Slice(c)[i - SliceStart(c)] = seen[c].list[i]
          BY <1>0, <3>1, <3>4, <4>2, <5>1, BeforeNextSlice
        <5>3. seen[c].list[i].last_update_epoch >= epoch
          BY <3>1, <3>3, <5>2 DEF SliceUpToDate
        <5>4. list[i].last_update_epoch >= seen[c].list[i].last_update_epoch
          BY <3>3 DEF CopyInv
        <5>5. list[i].last_update_epoch <= epoch
          BY DEF ListInv
        <5>6. list[i].last_update_epoch \in Int /\ seen[c].list[i].last_update_epoch \in Int
          <6>1. list[i] \in Entry /\ seen[c].list[i] \in Entry
            BY <1>0, <5>1
          <6> QED  BY <6>1, UpdateConstants DEF Entry
        <5> QED  BY <1>0, <5>3, <5>4, <5>5, <5>6
      <4> QED  BY <4>1, <4>2
    <3> QED  BY <3>1, <3>2, <3>3, <3>4 DEF Progress
  <2>3. CASE SendSlice(c)
    <3>1. pc[c] = "slices" /\ pc'[c] = "confirm_slice"
          /\ UNCHANGED <<epoch, poolEpoch, list, seen, chunk>>
      BY <1>0, <2>3 DEF SendSlice, Keep
    <3> QED  BY <2>0, <3>1 DEF Progress, SliceStart, Alive
  <2>4. CASE SendFinal(c)
    <3>1. pc'[c] = "confirm_final" /\ UNCHANGED <<epoch, poolEpoch, list, seen>>
          /\ (pc[c] = "final" \/ (pc[c] = "slices" /\ ~HasSlice(c)))
      BY <1>0, <2>4 DEF SendFinal, Keep
    <3>2. ListUpToDate
      <4>1. CASE pc[c] = "final"
        BY <2>0, <4>1 DEF Progress
      <4>2. CASE pc[c] = "slices" /\ ~HasSlice(c)
        <5>1. SliceStart(c) \in Nat /\ Len(seen[c].list) \in Nat
          BY <1>0, SliceType
        <5>2. SliceStart(c) >= Len(seen[c].list)
          BY <4>2, <5>1 DEF HasSlice
        <5>3. DOMAIN seen[c].list = 1 .. Len(seen[c].list)
          BY <1>0
        <5>4. DOMAIN list = DOMAIN seen[c].list
              /\ \A i \in DOMAIN list : i <= SliceStart(c) => list[i].last_update_epoch = epoch
          BY <2>0, <4>2 DEF Progress
        <5> QED  BY <5>1, <5>2, <5>3, <5>4 DEF ListUpToDate
      <4> QED  BY <3>1, <4>1, <4>2
    <3> QED  BY <2>0, <3>1, <3>2 DEF Progress, ListUpToDate, Alive
  <2>5. CASE Crash(c)
    <3>1. pc'[c] = "dead"
      BY <1>0, <2>5 DEF Crash, End
    <3> QED  BY <3>1 DEF Progress, Alive
  <2> QED  BY <1>2, <2>1, <2>2, <2>3, <2>4, <2>5 DEF Step
<1> QED  BY <1>1, <1>2

\* and so does a settled transaction of its own.
LEMMA SettledProgress ==
    ASSUME TypeInv, ListInv, OwnTxInv, UndisturbedInv, NEW t \in pending,
           LandSlice(t) \/ LandFinal(t) \/ RejectFinal(t) \/ Lose(t), undisturbed'[t.by]
    PROVE  Progress(t.by)'
<1> DEFINE c == t.by
<1>0. /\ TypeOK /\ LoopInv /\ c \in Cranks /\ epoch \in Int
      /\ list \in Seq(Entry) /\ DOMAIN list = 1 .. Len(list)
      /\ DOMAIN pc = Cranks /\ DOMAIN seen = Cranks
      /\ DOMAIN chunk = Cranks /\ DOMAIN undisturbed = Cranks
  <2>1. TypeOK /\ LoopInv
    BY DEF TypeInv
  <2>2. c \in Cranks
    BY <2>1 DEF TypeOK, SliceTx, FinalTx
  <2>3. list \in Seq(Entry) /\ DOMAIN list = 1 .. Len(list)
    BY <2>1 DEF TypeOK
  <2> QED  BY <2>1, <2>2, <2>3 DEF TypeOK
<1>1. ~Lose(t) /\ undisturbed[c]
  BY <1>0 DEF Lose, LandSlice, LandFinal, RejectFinal, DisturbOthers
<1>2. Progress(c) /\ epoch' = epoch
  BY <1>0, <1>1 DEF UndisturbedInv, LandSlice, LandFinal, RejectFinal
<1>3. CASE pc[c] = "dead"
  <2>1. UNCHANGED cranks
    BY <1>1, <1>3 DEF LandSlice, LandFinal, RejectFinal, Learn
  <2> QED  BY <1>3, <2>1 DEF Progress, Alive, cranks
<1>4. CASE pc[c] = "confirm_slice" /\ t = SliceTxOf(c)
  <2>1. t.start = SliceStart(c) /\ t.votes = VotesOf(Slice(c)) /\ HasSlice(c)
    BY <1>0, <1>4 DEF SliceTxOf, LoopInv
  <2>2. SliceStart(c) \in Nat /\ Slice(c) \in Seq(Entry)
    BY <1>0, SliceType
  <2>3. LandSlice(t)
    <3>1. ~IsFinal(t)
      BY <2>1, <2>2 DEF IsFinal
    <3> QED  BY <1>1, <3>1 DEF LandFinal, RejectFinal
  <2>4. /\ pc'[c] = "slices" /\ chunk' = [chunk EXCEPT ![c] = @ + 1]
        /\ UNCHANGED <<seen, poolEpoch>>
    BY <1>0, <1>4, <2>3 DEF LandSlice, Learn, Keep
  <2>5. SliceStart(c)' = SliceStart(c) + ChunkSize
    BY <1>0, <2>4, NextSliceStart
  <2>6. /\ DOMAIN list' = DOMAIN list
        /\ \A i \in DOMAIN list :
                 /\ list'[i].vote = list[i].vote
                 /\ \/ list'[i] = list[i]
                    \/ list'[i].last_update_epoch = epoch
                 /\ i - t.start \in DOMAIN t.votes /\ t.votes[i - t.start] = list[i].vote
                    => list'[i].last_update_epoch = epoch
    BY <1>0, <2>3, LandSliceList
  <2>7. /\ DOMAIN list = DOMAIN seen[c].list /\ seen[c].epoch = epoch
        /\ \A i \in DOMAIN list : list[i].vote = seen[c].list[i].vote
        /\ \A i \in DOMAIN list : i <= SliceStart(c) => list[i].last_update_epoch = epoch
    BY <1>2, <1>4 DEF Progress, Alive
  <2>8. ASSUME NEW i \in DOMAIN list, i <= SliceStart(c) + ChunkSize
        PROVE  list'[i].last_update_epoch = epoch
    <3>1. CASE i <= SliceStart(c)
      BY <2>6, <2>7, <3>1
    <3>2. CASE ~(i <= SliceStart(c))
      <4>1. i \in 1 .. Len(seen[c].list)
        BY <1>0, <2>7 DEF TypeOK
      <4>2. i - SliceStart(c) \in DOMAIN Slice(c)
            /\ Slice(c)[i - SliceStart(c)] = seen[c].list[i]
        BY <1>0, <2>1, <2>8, <3>2, <4>1, BeforeNextSlice
      <4>3. i - t.start \in DOMAIN t.votes /\ t.votes[i - t.start] = list[i].vote
        BY <2>1, <2>2, <2>7, <4>2, VotesOfType
      <4> QED  BY <2>6, <4>3
    <3> QED  BY <3>1, <3>2
  <2> QED  BY <1>2, <2>4, <2>5, <2>6, <2>7, <2>8 DEF Progress
<1>5. CASE pc[c] = "confirm_final" /\ t = FinalTxOf(c)
  <2>1. IsFinal(t) /\ ListUpToDate
    BY <1>2, <1>5 DEF FinalTxOf, IsFinal, Progress
  <2>2. LandFinal(t)
    BY <1>1, <2>1 DEF LandSlice, RejectFinal
  <2>3. pc'[c] = "done"
    BY <1>0, <1>5, <2>2 DEF LandFinal, Learn, End
  <2>4. ListUpToDate' /\ poolEpoch' = epoch'
    BY <1>2, <2>2, LandFinalList DEF ListUpToDate, LandFinal
  <2> QED  BY <2>3, <2>4 DEF Progress, Alive
<1> QED  BY <1>3, <1>4, <1>5 DEF OwnTxInv

\* A step that changes neither the pool nor what a crank knows leaves it where it was.
LEMMA SameProgress ==
    ASSUME UNCHANGED <<epoch, poolEpoch, list>>, NEW c, pc'[c] = pc[c], seen'[c] = seen[c],
           chunk'[c] = chunk[c], Progress(c)
    PROVE  Progress(c)'
BY DEF Progress, SliceStart, ListUpToDate

\* Every step keeps track of every crank that it does not disturb.
LEMMA UndisturbedStep ==
    ASSUME TypeInv, ListInv, CopyInv, OwnTxInv, UndisturbedInv, [Next]_vars
    PROVE  UndisturbedInv'
<1>0. /\ \A t \in pending : t.by \in Cranks
      /\ DOMAIN pc = Cranks /\ DOMAIN seen = Cranks
      /\ DOMAIN chunk = Cranks /\ DOMAIN undisturbed = Cranks
  BY DEF TypeInv, TypeOK, SliceTx, FinalTx
<1>1. ASSUME NEW d \in Cranks, Step(d) \/ Crash(d), NEW c \in Cranks, undisturbed'[c]
      PROVE  Progress(c)'
  <2>1. CASE c = d
    BY <1>1, <2>1, OwnProgress
  <2>2. CASE c # d
    <3>1. UNCHANGED <<epoch, poolEpoch, list>> /\ pc'[c] = pc[c] /\ seen'[c] = seen[c]
          /\ chunk'[c] = chunk[c] /\ undisturbed'[c] = undisturbed[c]
      BY <1>0, <1>1, <2>2 DEF Step, FetchPool, FetchList, SkipSlice, SendSlice, SendFinal, Crash,
                              Keep, End, chain
    <3> QED  BY <1>1, <3>1, SameProgress DEF UndisturbedInv
  <2> QED  BY <2>1, <2>2
<1>2. ASSUME NEW t \in pending, LandSlice(t) \/ LandFinal(t) \/ RejectFinal(t) \/ Lose(t),
             NEW c \in Cranks, undisturbed'[c]
      PROVE  Progress(c)'
  <2>1. CASE c = t.by
    BY <1>2, <2>1, SettledProgress
  <2>2. CASE c # t.by
    <3>1. RejectFinal(t) \/ Lose(t)
      BY <1>2, <2>2 DEF LandSlice, LandFinal, DisturbOthers
    <3>2. UNCHANGED <<epoch, poolEpoch, list>> /\ undisturbed'[c] = undisturbed[c]
          /\ Learn(t, FALSE)
      BY <1>0, <2>2, <3>1 DEF RejectFinal, Lose
    <3>3. pc'[c] = pc[c] /\ seen'[c] = seen[c] /\ chunk'[c] = chunk[c]
      BY <1>0, <2>2, <3>2 DEF Learn, End, cranks
    <3> QED  BY <1>2, <3>2, <3>3, SameProgress DEF UndisturbedInv
  <2> QED  BY <2>1, <2>2
<1>3. ASSUME Owners \/ AdvanceEpoch, NEW c \in Cranks
      PROVE  ~undisturbed'[c]
  BY <1>3 DEF Owners, AddValidator, RemoveValidator, OwnerStep, AdvanceEpoch
<1>4. ASSUME UNCHANGED vars, NEW c \in Cranks, undisturbed'[c]
      PROVE  Progress(c)'
  BY <1>4, SameProgress DEF vars, chain, cranks, UndisturbedInv
<1> QED  BY <1>1, <1>2, <1>3, <1>4 DEF Next, Settle, UndisturbedInv

\* An update that nobody disturbs succeeds, whatever the list and the size of the slices: those
\* it sends and those it skips add up to the whole list.
THEOREM UndisturbedCorrect == Spec => []UndisturbedUpdateSucceeds
<1> DEFINE Inv == TypeInv /\ ListInv /\ CopyInv /\ OwnTxInv /\ UndisturbedInv
<1>1. Init => Inv
  <2>1. Init => OwnTxInv
    BY DEF Init, OwnTxInv
  <2>2. Init => UndisturbedInv
    BY DEF Init, UndisturbedInv
  <2> QED  BY <2>1, <2>2, InitType, InitList
<1>2. Inv /\ [Next]_vars => Inv'
  BY TypeStep, ListInvStep, OwnTxStep, UndisturbedStep
<1>3. Inv => UndisturbedUpdateSucceeds
  BY DEF UndisturbedInv, Progress, UndisturbedUpdateSucceeds
<1> QED  BY <1>1, <1>2, <1>3, PTL DEF Spec

=============================================================================
