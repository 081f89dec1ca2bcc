------------------------- MODULE UserCommands_proofs -------------------------
(***************************************************************************)
(* What holds of the users' commands for all processes, requests, pools,   *)
(* validators and bounds.  A command that is let alone is followed from    *)
(* its first call to its transaction: what it has read is what the chain   *)
(* holds, until the command itself brings the pool up to date.             *)
(***************************************************************************)
EXTENDS UserCommands, FoldLemmas

-----------------------------------------------------------------------------
(* The invariant.                                                          *)

SeenType == [pool : Pool \cup {None}, noAccount : BOOLEAN, list : Seq(Entry), clock : 0 .. MaxEpoch,
             amt : Nat, vote : Votes \cup {None}, seed : Seeds \cup {None}]

\* The types of what the commands keep.
CommandType ==
    /\ request \in [Commands -> Request \cup {None}] /\ pc \in [Commands -> Alive \cup Ended]
    /\ seen \in [Commands -> SeenType] /\ undisturbed \in [Commands -> BOOLEAN]

\* The types of what the chain keeps, and what they rest on: a vote account is listed once, so
\* that stake is taken from the entry that was found to have it, and a withdrawal never makes a
\* token account and always splits to a new seed.
ChainType ==
    /\ epoch \in 0 .. MaxEpoch /\ pool \in Pool /\ list \in Seq(Entry)
    /\ earned \in [Votes -> Nat] /\ tokens \in [Tokens -> Nat \cup {None}]
    /\ stake \in Stake /\ splits \subseteq Seeds
    /\ tx \in [Commands -> Tx \cup {None}]
    /\ changes \in 0 .. MaxChanges /\ losses \in 0 .. MaxLosses
    /\ DistinctVotes(list) /\ pool.epoch <= epoch
    /\ \A c \in Commands :
          tx[c] # None /\ tx[c].kind = "withdraw-stake" => ~tx[c].createAta /\ tx[c].seed \in Seeds
    /\ late \subseteq Tx
    /\ \A t \in late : t.kind = "withdraw-stake" => ~t.createAta /\ t.seed \in Seeds

TypeInv == ChainType /\ CommandType

\* The phases in which a command has the list.
AfterList == {"find_seed", "fetch_clock", "update", "send", "confirm"}

\* What a process knows belongs to its run, and the transaction it waits for is of what it knows.
ProcessOf(c) ==
    /\ pc[c] \notin Alive => seen[c] = NothingSeen
    /\ pc[c] \in Alive => request[c] # None /\ seen[c].pool \in Pool
    /\ tx[c] # None => pc[c] = "confirm"
    /\ pc[c] = "confirm" => tx[c] = Transaction(c)
    /\ pc[c] \in Alive /\ request[c].kind = "withdraw-stake" =>
          /\ ~seen[c].noAccount
          /\ pc[c] \in AfterList \ {"find_seed"} => seen[c].seed \in Seeds
          /\ pc[c] \in AfterList => /\ seen[c].vote # None
                                    /\ seen[c].vote = Source(request[c], seen[c].pool, seen[c].list)

ProcessInv == \A c \in Commands : ProcessOf(c)

\* What a command that is let alone has read is still so.
Current(c) ==
    /\ /\ seen[c].pool.solAuthority = pool.solAuthority
       /\ seen[c].pool.preferredDeposit = pool.preferredDeposit
       /\ seen[c].pool.preferredWithdraw = pool.preferredWithdraw
    /\ pc[c] \notin {"send", "confirm"} => seen[c].pool.epoch = pool.epoch
    /\ request[c].kind = "deposit-stake" =>
          stake # None /\ pool.preferredDeposit \in {None, seen[c].vote}
    /\ pc[c] \in AfterList =>
          /\ request[c].kind = "deposit-sol" =>
                (seen[c].noAccount <=> tokens[request[c].account] = None)
          /\ request[c].kind = "deposit-stake" => (seen[c].noAccount <=> tokens["ata"] = None)
          /\ request[c].kind = "withdraw-stake" =>
                tokens[request[c].account] # None /\ tokens[request[c].account] >= seen[c].amt
          /\ pc[c] \notin {"send", "confirm"} \/ IsUpdatedForCurrEpoch(seen[c]) =>
                list = seen[c].list
    /\ pc[c] \in AfterList \ {"find_seed"} /\ request[c].kind = "withdraw-stake" =>
          seen[c].seed \notin splits
    /\ pc[c] \in {"update", "send", "confirm"} => seen[c].clock = epoch
    /\ pc[c] \in {"send", "confirm"} => pool.epoch = epoch
    /\ pc[c] = "confirm" =>
          /\ seen[c].noAccount => request[c].account = "ata"
          /\ request[c].kind = "deposit-sol" => pool.solAuthority # "other"

AloneInv == \A c \in Commands : undisturbed[c] /\ pc[c] \in Alive => Current(c)

-----------------------------------------------------------------------------
(* Lists.                                                                  *)

\* What is in a list is an entry.
LEMMA EntryIs ==
    ASSUME NEW l \in Seq(Entry)
    PROVE  /\ Len(l) \in Nat /\ DOMAIN l = 1 .. Len(l)
           /\ \A i \in DOMAIN l : /\ l[i] \in Entry /\ l[i].vote \in Votes /\ l[i].active \in Nat
                                  /\ l[i].leaving \in BOOLEAN
<1>1. Len(l) \in Nat /\ DOMAIN l = 1 .. Len(l) /\ \A i \in DOMAIN l : l[i] \in Entry
  OBVIOUS
<1>2. \A e \in Entry : e.vote \in Votes /\ e.active \in Nat /\ e.leaving \in BOOLEAN
  BY DEF Entry
<1> QED  BY <1>1, <1>2

\* Of the entries of a list that is not empty there is a last one with the most stake.
LEMMA LargestExists ==
    ASSUME NEW l \in Seq(Entry), l # <<>>
    PROVE  \E i \in DOMAIN l : \A j \in DOMAIN l :
              l[j].active < l[i].active \/ (l[j].active = l[i].active /\ j <= i)
<1> DEFINE n == Len(l)
           Best(i, k) == \A j \in 1 .. k :
                            l[j].active < l[i].active \/ (l[j].active = l[i].active /\ j <= i)
           T == {k \in 0 .. n : k > 0 => \E i \in 1 .. k : Best(i, k)}
<1>1. n \in Nat /\ n > 0 /\ DOMAIN l = 1 .. n /\ \A i \in 1 .. n : l[i].active \in Nat
  BY EntryIs
<1> HIDE DEF n
<1>2. 0 \in T
  BY <1>1
<1>3. ASSUME NEW k \in 1 .. n, k - 1 \in T
      PROVE  k \in T
  <2>1. CASE k = 1
    <3>1. Best(1, 1)
      BY <1>1
    <3> QED  BY <1>1, <2>1, <3>1
  <2>2. CASE k > 1
    <3>1. PICK i \in 1 .. (k - 1) : Best(i, k - 1)
      BY <1>1, <1>3, <2>2
    <3>2. CASE l[k].active < l[i].active
      <4>1. Best(i, k)
        BY <1>1, <3>1, <3>2
      <4> QED  BY <1>1, <4>1
    <3>3. CASE ~(l[k].active < l[i].active)
      <4>1. Best(k, k)
        BY <1>1, <3>1, <3>3
      <4> QED  BY <1>1, <4>1
    <3> QED  BY <3>2, <3>3
  <2> QED  BY <1>1, <2>1, <2>2
<1>4. 0 .. n \subseteq T
  <2> HIDE DEF T
  <2> QED  BY <1>1, <1>2, <1>3, Induction
<1>5. n \in T
  <2> HIDE DEF T
  <2> QED  BY <1>1, <1>4
<1>6. PICK i \in 1 .. n : Best(i, n)
  BY <1>1, <1>5
<1> QED  BY <1>1, <1>6

\* The largest validator has the most stake.
LEMMA LargestIs ==
    ASSUME NEW l \in Seq(Entry), l # <<>>
    PROVE  \E i \in DOMAIN l :
              Largest(l) = l[i].vote /\ \A j \in DOMAIN l : l[j].active <= l[i].active
<1> DEFINE Best(i) == \A j \in DOMAIN l :
                         l[j].active < l[i].active \/ (l[j].active = l[i].active /\ j <= i)
           i == CHOOSE x \in DOMAIN l : Best(x)
<1>1. \E x \in DOMAIN l : Best(x)
  BY LargestExists
<1>2. Largest(l) = l[i].vote
  BY DEF Largest
<1>3. i \in DOMAIN l /\ Best(i)
  <2> HIDE DEF Best
  <2> QED  BY <1>1
<1>4. \A j \in DOMAIN l : l[j].active \in Nat
  BY EntryIs
<1> HIDE DEF i
<1> QED  BY <1>2, <1>3, <1>4

\* The entry of a vote account that is listed is the only one.
LEMMA EntryOfIs ==
    ASSUME NEW l \in Seq(Entry), DistinctVotes(l), NEW i \in DOMAIN l
    PROVE  EntryOf(l, l[i].vote) = l[i]
<1> DEFINE k == CHOOSE j \in DOMAIN l : l[j].vote = l[i].vote
<1>1. k \in DOMAIN l /\ l[k].vote = l[i].vote
  OBVIOUS
<1>2. k = i
  BY <1>1 DEF DistinctVotes
<1> QED  BY <1>2 DEF EntryOf

\* Selecting entries does not list a vote account twice.
LEMMA SelectDistinct ==
    ASSUME NEW l \in Seq(Entry), DistinctVotes(l), NEW T
    PROVE  Select(l, T) \in Seq(Entry) /\ DistinctVotes(Select(l, T))
<1> DEFINE r == Select(l, T)
<1>1. r \in Seq(Entry)
  BY SelectEmbeds
<1>2. PICK h : Embeds(h, r, l, T, Len(l))
  BY SelectEmbeds
<1> HIDE DEF r
<1>3. ASSUME NEW i \in DOMAIN r, NEW j \in DOMAIN r, r[i].vote = r[j].vote
      PROVE  i = j
  <2>1. i \in 1 .. Len(r) /\ j \in 1 .. Len(r) /\ DOMAIN l = 1 .. Len(l)
    BY <1>1
  <2>2. r[i] = l[h[i]] /\ r[j] = l[h[j]] /\ h[i] \in DOMAIN l /\ h[j] \in DOMAIN l
    BY <1>2, <2>1 DEF Embeds
  <2>3. h[i] = h[j]
    BY <1>3, <2>2 DEF DistinctVotes
  <2>4. ~(i < j) /\ ~(j < i)
    BY <1>2, <2>1, <2>2, <2>3 DEF Embeds
  <2> QED  BY <2>1, <2>4
<1> QED  BY <1>1, <1>3 DEF DistinctVotes, r

\* A list whose entries keep their vote accounts lists none of them twice.
LEMMA SameVotesDistinct ==
    ASSUME NEW l, NEW r, DistinctVotes(l), DOMAIN r = DOMAIN l,
           \A i \in DOMAIN l : r[i].vote = l[i].vote
    PROVE  DistinctVotes(r)
BY DEF DistinctVotes

\* The validator to withdraw from is a validator.
LEMMA SourceType ==
    ASSUME NEW r \in Request, NEW p \in Pool, NEW l \in Seq(Entry)
    PROVE  Source(r, p, l) \in Votes \cup {None}
<1>1. r.validator \in Votes \cup {None} /\ p.preferredWithdraw \in Votes \cup {None}
  BY DEF Request, Pool
<1>2. l # <<>> => Largest(l) \in Votes
  <2> SUFFICES ASSUME l # <<>> PROVE Largest(l) \in Votes
    OBVIOUS
  <2>1. PICK i \in DOMAIN l : Largest(l) = l[i].vote
    BY LargestIs
  <2> QED  BY <2>1, EntryIs
<1> QED  BY <1>1, <1>2 DEF Source

-----------------------------------------------------------------------------
(* Types.                                                                  *)

\* A process that knows nothing knows something of the right type.
LEMMA NothingSeenType == NothingSeen \in SeenType
<1>1. 0 \in 0 .. MaxEpoch
  BY UserConstants
<1> QED  BY <1>1 DEF NothingSeen, SeenType

\* What a process knows has its type, field by field.
LEMMA SeenIs ==
    ASSUME NEW s \in SeenType
    PROVE  /\ s.pool \in Pool \cup {None} /\ s.noAccount \in BOOLEAN /\ s.list \in Seq(Entry)
           /\ s.clock \in 0 .. MaxEpoch /\ s.amt \in Nat /\ s.vote \in Votes \cup {None}
           /\ s.seed \in Seeds \cup {None}
BY DEF SeenType

\* A request has its type, field by field.
LEMMA RequestIs ==
    ASSUME NEW r \in Request
    PROVE  /\ r.kind \in Kinds /\ r.account \in Tokens /\ r.amt \in Nat \cup {All}
           /\ r.validator \in Votes \cup {None}
           /\ r.kind # "withdraw-stake" => r.amt \in Nat
BY DEF Request

\* Wherever a process goes, and whatever it ends with.
LEMMA EndType ==
    ASSUME CommandType, NEW c \in Commands, NEW how \in Ended, End(c, how)
    PROVE  pc' \in [Commands -> Alive \cup Ended] /\ seen' \in [Commands -> SeenType]
BY NothingSeenType DEF CommandType, End, Goto

\* A process that goes on keeps its type.
LEMMA GotoType ==
    ASSUME CommandType, NEW c \in Commands, NEW phase \in Alive, Goto(c, phase)
    PROVE  pc' \in [Commands -> Alive \cup Ended]
BY DEF CommandType, Goto

\* The reads keep the types.
LEMMA ReadType ==
    ASSUME TypeInv, ProcessInv, NEW c \in Commands,
           FetchPool(c) \/ FetchList(c) \/ FindSeed(c) \/ FetchClock(c)
    PROVE  TypeInv'
<1>0. ChainType /\ CommandType /\ {"refused", "no_mint_to"} \subseteq Ended
      /\ {"fetch_list", "find_seed", "fetch_clock", "update"} \subseteq Alive
  BY DEF TypeInv, Ended, Alive
<1>1. UNCHANGED <<chain, request>>
  BY DEF FetchPool, FetchList, FetchListDepositSol, FetchListDepositStake, FetchListWithdraw,
         FindSeed, FetchClock
<1>2. ChainType'
  BY <1>0, <1>1 DEF chain, ChainType
<1>3. seen[c] \in SeenType
  BY <1>0 DEF CommandType
<1>4. CASE FetchPool(c)
  <2>1. undisturbed' \in [Commands -> BOOLEAN] /\ request[c] \in Request
    BY <1>0, <1>4 DEF FetchPool, CommandType
  <2>2. CASE End(c, "refused")
    BY <1>0, <1>1, <1>2, <2>1, <2>2, EndType DEF CommandType, TypeInv
  <2>3. CASE ~End(c, "refused")
    <3> DEFINE v == IF request[c].kind = "deposit-stake" THEN stake.vote ELSE None
               n == IF request[c].kind = "deposit-sol" THEN request[c].amt ELSE 0
               s == [seen[c] EXCEPT !.pool = pool, !.vote = v, !.amt = n]
    <3>1. /\ request[c].kind = "deposit-stake" => StakeFits
          /\ seen' = [seen EXCEPT ![c] = s] /\ Goto(c, "fetch_list")
      BY <1>4, <2>3 DEF FetchPool
    <3>2. v \in Votes \cup {None}
      BY <1>0, <3>1 DEF ChainType, StakeFits, Stake
    <3>3. n \in Nat
      BY <2>1, RequestIs
    <3> HIDE DEF v, n
    <3>4. s \in SeenType
      BY <1>0, <1>3, <3>2, <3>3 DEF ChainType, SeenType
    <3> HIDE DEF s
    <3>5. seen' \in [Commands -> SeenType]
      BY <1>0, <3>1, <3>4 DEF CommandType
    <3> QED  BY <1>0, <1>1, <1>2, <2>1, <3>1, <3>5, GotoType DEF CommandType, TypeInv
  <2> QED  BY <2>2, <2>3
<1>5. CASE FetchListDepositSol(c)
  <2> DEFINE none == tokens[request[c].account] = None
             s == [seen[c] EXCEPT !.noAccount = none, !.list = list, !.clock = epoch]
  <2>1. seen' = [seen EXCEPT ![c] = s] /\ Goto(c, "update") /\ undisturbed' = undisturbed
    BY <1>5 DEF FetchListDepositSol
  <2>2. none \in BOOLEAN
    OBVIOUS
  <2> HIDE DEF none
  <2>3. s \in SeenType
    BY <1>0, <1>3, <2>2 DEF ChainType, SeenType
  <2> HIDE DEF s
  <2>4. seen' \in [Commands -> SeenType]
    BY <1>0, <2>1, <2>3 DEF CommandType
  <2> QED  BY <1>0, <1>1, <1>2, <2>1, <2>4, GotoType DEF CommandType, TypeInv
<1>6. CASE FetchListDepositStake(c)
  <2>1. undisturbed' = undisturbed
    BY <1>6 DEF FetchListDepositStake
  <2>2. CASE End(c, "refused") \/ End(c, "no_mint_to")
    BY <1>0, <1>1, <1>2, <2>1, <2>2, EndType DEF CommandType, TypeInv
  <2>3. CASE ~(End(c, "refused") \/ End(c, "no_mint_to"))
    <3> DEFINE none == tokens["ata"] = None
               s == [seen[c] EXCEPT !.noAccount = none, !.list = list, !.clock = epoch]
    <3>1. seen' = [seen EXCEPT ![c] = s] /\ Goto(c, "update")
      BY <1>6, <2>3 DEF FetchListDepositStake
    <3>2. none \in BOOLEAN
      OBVIOUS
    <3> HIDE DEF none
    <3>3. s \in SeenType
      BY <1>0, <1>3, <3>2 DEF ChainType, SeenType
    <3> HIDE DEF s
    <3>4. seen' \in [Commands -> SeenType]
      BY <1>0, <3>1, <3>3 DEF CommandType
    <3> QED  BY <1>0, <1>1, <1>2, <2>1, <3>1, <3>4, GotoType DEF CommandType, TypeInv
  <2> QED  BY <2>2, <2>3
<1>7. CASE FetchListWithdraw(c)
  <2>1. undisturbed' = undisturbed
    BY <1>7 DEF FetchListWithdraw
  <2>2. CASE End(c, "refused")
    BY <1>0, <1>1, <1>2, <2>1, <2>2, EndType DEF CommandType, TypeInv
  <2>3. CASE ~End(c, "refused")
    <3> DEFINE balance == tokens[request[c].account]
               source == Source(request[c], seen[c].pool, list)
               n == Amount(request[c], balance)
               s == [seen[c] EXCEPT !.list = list, !.vote = source, !.amt = n]
    <3>1. /\ balance # None /\ source # None
          /\ seen' = [seen EXCEPT ![c] = s] /\ Goto(c, "find_seed")
      BY <1>7, <2>3 DEF FetchListWithdraw
    <3>2. request[c] \in Request /\ seen[c].pool \in Pool
      <4>1. pc[c] = "fetch_list"
        BY <1>7 DEF FetchListWithdraw
      <4>2. request[c] # None /\ seen[c].pool \in Pool
        BY <4>1 DEF ProcessInv, ProcessOf, Alive
      <4> QED  BY <1>0, <4>2 DEF CommandType
    <3>3. balance \in Nat
      BY <1>0, <3>1, <3>2, RequestIs DEF ChainType
    <3>4. n \in Nat
      BY <3>2, <3>3, RequestIs DEF Amount
    <3>5. source \in Votes \cup {None}
      BY <1>0, <3>2, SourceType DEF ChainType
    <3> HIDE DEF n, source
    <3>6. s \in SeenType
      BY <1>0, <1>3, <3>4, <3>5 DEF ChainType, SeenType
    <3> HIDE DEF s
    <3>7. seen' \in [Commands -> SeenType]
      BY <1>0, <3>1, <3>6 DEF CommandType
    <3> QED  BY <1>0, <1>1, <1>2, <2>1, <3>1, <3>7, GotoType DEF CommandType, TypeInv
  <2> QED  BY <2>2, <2>3
<1>8. CASE FindSeed(c)
  <2>1. undisturbed' = undisturbed
    BY <1>8 DEF FindSeed
  <2>2. CASE End(c, "refused")
    BY <1>0, <1>1, <1>2, <2>1, <2>2, EndType DEF CommandType, TypeInv
  <2>3. CASE ~End(c, "refused")
    <3>1. PICK x \in Seeds : seen' = [seen EXCEPT ![c].seed = x]
      BY <1>8, <2>3 DEF FindSeed
    <3>2. Goto(c, "fetch_clock")
      BY <1>8, <2>3 DEF FindSeed
    <3>3. [seen[c] EXCEPT !.seed = x] \in SeenType
      BY <1>3 DEF SeenType
    <3>4. seen' \in [Commands -> SeenType]
      BY <1>0, <3>1, <3>3 DEF CommandType
    <3> QED  BY <1>0, <1>1, <1>2, <2>1, <3>2, <3>4, GotoType DEF CommandType, TypeInv
  <2> QED  BY <2>2, <2>3
<1>9. CASE FetchClock(c)
  <2>1. undisturbed' = undisturbed /\ seen' = [seen EXCEPT ![c].clock = epoch] /\ Goto(c, "update")
    BY <1>9 DEF FetchClock
  <2>2. [seen[c] EXCEPT !.clock = epoch] \in SeenType
    BY <1>0, <1>3 DEF SeenType, ChainType
  <2>3. seen' \in [Commands -> SeenType]
    BY <1>0, <2>1, <2>2 DEF CommandType
  <2> QED  BY <1>0, <1>1, <1>2, <2>1, <2>3, GotoType DEF CommandType, TypeInv
<1> QED  BY <1>4, <1>5, <1>6, <1>7, <1>8, <1>9 DEF FetchList

\* An update counts the stake of those that stay.
LEMMA UpdatedType ==
    ASSUME ChainType
    PROVE  Updated \in Seq(Entry) /\ DistinctVotes(Updated)
<1> DEFINE l == Select(list, Staying)
           r == [i \in DOMAIN l |-> [l[i] EXCEPT !.active = @ + earned[l[i].vote]]]
<1>1. list \in Seq(Entry) /\ DistinctVotes(list) /\ earned \in [Votes -> Nat]
  BY DEF ChainType
<1>2. l \in Seq(Entry) /\ DistinctVotes(l)
  BY <1>1, SelectDistinct
<1> HIDE DEF l
<1>3. ASSUME NEW i \in DOMAIN l
      PROVE  [l[i] EXCEPT !.active = @ + earned[l[i].vote]] \in Entry
  <2>1. l[i] \in Entry /\ l[i].vote \in Votes /\ l[i].active \in Nat
    BY <1>2, EntryIs
  <2>2. earned[l[i].vote] \in Nat
    BY <1>1, <2>1
  <2> QED  BY <2>1, <2>2 DEF Entry
<1>4. r \in Seq(Entry)
  <2>1. Len(l) \in Nat /\ DOMAIN l = 1 .. Len(l)
    BY <1>2, EntryIs
  <2> QED  BY <1>3, <2>1
<1>5. DistinctVotes(r)
  <2>1. \A i \in DOMAIN l : r[i].vote = l[i].vote
    BY <1>2, EntryIs DEF Entry
  <2>2. DOMAIN r = DOMAIN l
    OBVIOUS
  <2> HIDE DEF r
  <2> QED  BY <1>2, <2>1, <2>2, SameVotesDistinct
<1> QED  BY <1>4, <1>5 DEF Updated, l

\* So does an update on the chain keep the types.
LEMMA UpdateOnChainType ==
    ASSUME ChainType, UpdateOnChain,
           UNCHANGED <<epoch, tokens, stake, splits, tx, late, changes, losses>>
    PROVE  ChainType'
<1>1. CASE pool.epoch = epoch
  BY <1>1 DEF UpdateOnChain, ChainType
<1>2. CASE pool.epoch # epoch
  <2>1. pool' = [pool EXCEPT !.epoch = epoch] /\ list' = Updated /\ earned' = [v \in Votes |-> 0]
    BY <1>2 DEF UpdateOnChain
  <2>2. list' \in Seq(Entry) /\ DistinctVotes(list)'
    BY <2>1, UpdatedType
  <2>3. pool' \in Pool /\ pool'.epoch = epoch
    BY <2>1 DEF Pool, ChainType
  <2>4. earned' \in [Votes -> Nat]
    BY <2>1
  <2>5. pool'.epoch <= epoch'
    BY <2>3 DEF ChainType
  <2> QED  BY <2>2, <2>3, <2>4, <2>5 DEF ChainType
<1> QED  BY <1>1, <1>2

\* What is disturbed and by whom keeps its type.
LEMMA DisturbType ==
    ASSUME CommandType, NEW c \in Commands, Disturb(c)
    PROVE  undisturbed' \in [Commands -> BOOLEAN]
<1>1. \A d \in Commands : (d = c /\ undisturbed[d]) \in BOOLEAN
  OBVIOUS
<1> QED  BY <1>1 DEF Disturb

\* An update of a command keeps the types, whether it is needed, made or fails.
LEMMA UpdateType ==
    ASSUME TypeInv, NEW c \in Commands, Update(c) \/ UpdateFails(c)
    PROVE  TypeInv'
<1>0. ChainType /\ CommandType /\ "send" \in Alive /\ {"rejected", "lost"} \subseteq Ended
  BY DEF TypeInv, Ended, Alive
<1>1. CASE Update(c)
  <2>1. pc' \in [Commands -> Alive \cup Ended] /\ UNCHANGED <<request, seen>>
    BY <1>0, <1>1, GotoType DEF Update
  <2>2. CASE IsUpdatedForCurrEpoch(seen[c])
    <3>1. UNCHANGED <<chain, undisturbed>>
      BY <1>1, <2>2 DEF Update, chain
    <3> QED  BY <1>0, <2>1, <3>1 DEF chain, ChainType, CommandType, TypeInv
  <2>3. CASE ~IsUpdatedForCurrEpoch(seen[c])
    <3>1. UpdateOnChain /\ Disturb(c)
          /\ UNCHANGED <<epoch, tokens, stake, splits, tx, late, changes, losses>>
      BY <1>1, <2>3 DEF Update
    <3>2. ChainType' /\ undisturbed' \in [Commands -> BOOLEAN]
      BY <1>0, <3>1, UpdateOnChainType, DisturbType
    <3> QED  BY <1>0, <2>1, <3>2 DEF CommandType, TypeInv
  <2> QED  BY <2>2, <2>3
<1>2. CASE UpdateFails(c)
  <2>1. /\ UNCHANGED <<epoch, pool, list, earned, tokens, stake, splits, tx, late, changes, request,
                       undisturbed>>
        /\ losses' = losses \/ (losses < MaxLosses /\ losses' = losses + 1)
        /\ End(c, "rejected") \/ End(c, "lost")
    BY <1>2 DEF UpdateFails
  <2>2. pc' \in [Commands -> Alive \cup Ended] /\ seen' \in [Commands -> SeenType]
    BY <1>0, <2>1, EndType
  <2>3. losses' \in 0 .. MaxLosses
    BY <1>0, <2>1, UserConstants DEF ChainType
  <2> QED  BY <1>0, <2>1, <2>2, <2>3 DEF ChainType, CommandType, TypeInv
<1> QED  BY <1>1, <1>2

\* A transaction is one.
LEMMA TransactionType ==
    ASSUME TypeInv, ProcessInv, NEW c \in Commands, pc[c] = "send"
    PROVE  /\ Transaction(c) \in Tx
           /\ Transaction(c).kind = "withdraw-stake" =>
                 ~Transaction(c).createAta /\ Transaction(c).seed \in Seeds
<1>1. seen[c] \in SeenType
  BY DEF TypeInv, CommandType
<1>2. request[c] # None
      /\ (request[c].kind = "withdraw-stake" => ~seen[c].noAccount /\ seen[c].seed \in Seeds)
  BY DEF ProcessInv, ProcessOf, Alive, AfterList
<1>3. request[c] \in Request
  BY <1>2 DEF TypeInv, CommandType
<1>4. Transaction(c) \in Tx
  BY <1>1, <1>3, SeenIs, RequestIs DEF Transaction, Tx
<1> QED  BY <1>2, <1>4 DEF Transaction

\* Sending a transaction, or not being able to, keeps the types.
LEMMA SendType ==
    ASSUME TypeInv, ProcessInv, NEW c \in Commands, Send(c)
    PROVE  TypeInv'
<1>0. ChainType /\ CommandType /\ "confirm" \in Alive /\ {"no_mint_to", "refused"} \subseteq Ended
      /\ pc[c] = "send"
  BY DEF TypeInv, Ended, Alive, Send
<1>1. UNCHANGED <<epoch, pool, list, earned, tokens, stake, splits, late, changes, losses, request,
                  undisturbed>>
  BY DEF Send
<1>2. CASE (End(c, "no_mint_to") \/ End(c, "refused")) /\ UNCHANGED tx
  <2>1. pc' \in [Commands -> Alive \cup Ended] /\ seen' \in [Commands -> SeenType]
    BY <1>0, <1>2, EndType
  <2> QED  BY <1>0, <1>1, <1>2, <2>1 DEF ChainType, CommandType, TypeInv
<1>3. CASE tx' = [tx EXCEPT ![c] = Transaction(c)] /\ Goto(c, "confirm") /\ UNCHANGED seen
  <2> DEFINE t == Transaction(c)
  <2>1. t \in Tx /\ (t.kind = "withdraw-stake" => ~t.createAta /\ t.seed \in Seeds)
    BY <1>0, TransactionType
  <2>2. pc' \in [Commands -> Alive \cup Ended]
    BY <1>0, <1>3, GotoType
  <2> HIDE DEF t
  <2>3. tx' = [tx EXCEPT ![c] = t] /\ tx \in [Commands -> Tx \cup {None}]
    BY <1>0, <1>3 DEF t, ChainType
  <2>4. tx' \in [Commands -> Tx \cup {None}]
    BY <2>1, <2>3
  <2>5. ASSUME NEW d \in Commands, tx'[d] # None, tx'[d].kind = "withdraw-stake"
        PROVE  ~tx'[d].createAta /\ tx'[d].seed \in Seeds
    <3>1. CASE d = c
      BY <2>1, <2>3, <2>5, <3>1
    <3>2. CASE d # c
      <4>1. tx'[d] = tx[d]
        BY <2>3, <3>2
      <4> QED  BY <1>0, <2>5, <4>1 DEF ChainType
    <3> QED  BY <3>1, <3>2
  <2> QED  BY <1>0, <1>1, <1>3, <2>2, <2>4, <2>5 DEF ChainType, CommandType, TypeInv
<1> QED  BY <1>2, <1>3 DEF Send

\* Whoever can give an amount of stake has it.
LEMMA CanGiveIs ==
    ASSUME ChainType, NEW v, NEW amt \in Nat, CanGive(list, v, amt)
    PROVE  /\ v \in Votes
           /\ \A i \in DOMAIN list : list[i].vote = v => list[i].active >= amt
<1>1. list \in Seq(Entry) /\ DistinctVotes(list) /\ MinStake \in Nat
  BY UserConstants DEF ChainType
<1>2. PICK k \in DOMAIN list : list[k].vote = v
  BY DEF CanGive, Has
<1>3. ASSUME NEW i \in DOMAIN list, list[i].vote = v
      PROVE  list[i].active >= amt
  <2>1. EntryOf(list, v) = list[i]
    BY <1>1, <1>3, EntryOfIs
  <2>2. list[i].active \in Nat /\ list[i].active >= amt + MinStake
    BY <1>1, <2>1, EntryIs DEF CanGive
  <2> QED  BY <1>1, <2>2
<1>4. v \in Votes
  BY <1>1, <1>2, EntryIs
<1> QED  BY <1>3, <1>4

\* Stake that comes, or goes where it can be given, leaves a list.
LEMMA WithStakeType ==
    ASSUME ChainType, NEW v, NEW n \in Int,
           n >= 0 \/ CanGive(list, v, -n)
    PROVE  WithStake(v, n) \in Seq(Entry) /\ DistinctVotes(WithStake(v, n))
<1> DEFINE e(i) == IF list[i].vote = v THEN [list[i] EXCEPT !.active = @ + n] ELSE list[i]
           r == [i \in DOMAIN list |-> e(i)]
<1>1. list \in Seq(Entry) /\ DistinctVotes(list)
  BY DEF ChainType
<1>2. ASSUME NEW i \in DOMAIN list
      PROVE  e(i) \in Entry /\ e(i).vote = list[i].vote
  <2>1. list[i] \in Entry /\ list[i].active \in Nat
    BY <1>1, EntryIs
  <2>2. list[i].vote = v => list[i].active + n \in Nat
    <3>1. CASE n >= 0
      BY <2>1, <3>1
    <3>2. CASE n < 0 /\ CanGive(list, v, -n)
      <4>1. -n \in Nat
        BY <3>2
      <4>2. list[i].vote = v => list[i].active >= -n
        BY <3>2, <4>1, CanGiveIs
      <4> QED  BY <2>1, <4>2
    <3> QED  BY <3>1, <3>2
  <2> QED  BY <2>1, <2>2 DEF Entry
<1> HIDE DEF e
<1>3. r \in Seq(Entry)
  <2>1. Len(list) \in Nat /\ DOMAIN list = 1 .. Len(list)
    BY <1>1, EntryIs
  <2> QED  BY <1>2, <2>1
<1>4. DistinctVotes(r)
  <2>1. \A i \in DOMAIN list : r[i].vote = list[i].vote
    BY <1>2
  <2>2. DOMAIN r = DOMAIN list
    OBVIOUS
  <2> HIDE DEF r
  <2> QED  BY <1>1, <2>1, <2>2, SameVotesDistinct
<1> QED  BY <1>3, <1>4 DEF WithStake, e

\* A transaction that is gone leaves the others.
LEMMA TxGone ==
    ASSUME ChainType, NEW c \in Commands, tx' = [tx EXCEPT ![c] = None]
    PROVE  /\ tx' \in [Commands -> Tx \cup {None}]
           /\ \A d \in Commands :
                 tx'[d] # None /\ tx'[d].kind = "withdraw-stake" =>
                    ~tx'[d].createAta /\ tx'[d].seed \in Seeds
<1>1. tx \in [Commands -> Tx \cup {None}]
  BY DEF ChainType
<1>2. ASSUME NEW d \in Commands, tx'[d] # None
      PROVE  tx'[d] = tx[d]
  BY <1>1, <1>2
<1> QED  BY <1>1, <1>2 DEF ChainType

\* Being killed keeps the types: the transaction waited for becomes a late one.
LEMMA CrashType ==
    ASSUME TypeInv, NEW c \in Commands, Crash(c)
    PROVE  TypeInv'
<1>0. ChainType /\ CommandType /\ "dead" \in Ended
  BY DEF TypeInv, Ended
<1>1. UNCHANGED <<epoch, pool, list, earned, tokens, stake, splits, changes, request, undisturbed>>
      /\ End(c, "dead") /\ losses < MaxLosses /\ losses' = losses + 1
      /\ tx' = [tx EXCEPT ![c] = None] /\ late' = late \cup ({tx[c]} \ {None})
  BY DEF Crash
<1>2. pc' \in [Commands -> Alive \cup Ended] /\ seen' \in [Commands -> SeenType]
  BY <1>0, <1>1, EndType
<1>3. losses' \in 0 .. MaxLosses
  BY <1>0, <1>1, UserConstants DEF ChainType
<1>4. /\ tx' \in [Commands -> Tx \cup {None}]
      /\ \A d \in Commands : tx'[d] # None /\ tx'[d].kind = "withdraw-stake" =>
                                ~tx'[d].createAta /\ tx'[d].seed \in Seeds
  BY <1>0, <1>1, TxGone
<1>5. /\ late' \subseteq Tx
      /\ \A t \in late' : t.kind = "withdraw-stake" => ~t.createAta /\ t.seed \in Seeds
  <2>1. tx[c] # None => /\ tx[c] \in Tx
                        /\ tx[c].kind = "withdraw-stake" => ~tx[c].createAta /\ tx[c].seed \in Seeds
    BY <1>0 DEF ChainType
  <2> QED  BY <1>0, <1>1, <2>1 DEF ChainType
<1> QED  BY <1>0, <1>1, <1>2, <1>3, <1>4, <1>5 DEF ChainType, CommandType, TypeInv

\* A transaction that is accepted spends neither tokens nor stake that are not there.
LEMMA LandType ==
    ASSUME ChainType, NEW t \in Tx, Accepts(t), Land(t),
           t.kind = "withdraw-stake" => ~t.createAta /\ t.seed \in Seeds
    PROVE  tokens' \in [Tokens -> Nat \cup {None}] /\ stake' \in Stake /\ splits' \subseteq Seeds
           /\ list' \in Seq(Entry) /\ DistinctVotes(list)'
<1>0. ChainType /\ StakeAmount \in Nat
  BY UserConstants
<1>1. Accepts(t) /\ Land(t)
  OBVIOUS
<1>2. t.kind \in Kinds /\ t.account \in Tokens /\ t.amt \in Nat /\ t.vote \in Votes \cup {None}
  BY DEF Tx
<1>3. t.kind = "withdraw-stake" => ~t.createAta /\ t.seed \in Seeds
  OBVIOUS
<1>6. Balance(t.account) \in Nat
  BY <1>0, <1>2 DEF Balance, ChainType
<1>7. /\ t.kind = "deposit-sol" =>
            /\ tokens' = [tokens EXCEPT ![t.account] = Balance(t.account) + t.amt]
            /\ UNCHANGED <<list, stake, splits>>
      /\ t.kind = "deposit-stake" =>
            /\ tokens' = [tokens EXCEPT ![t.account] = Balance(t.account) + StakeAmount]
            /\ list' = WithStake(t.vote, StakeAmount) /\ stake' = None /\ UNCHANGED splits
      /\ t.kind = "withdraw-stake" =>
            /\ tokens' = [tokens EXCEPT ![t.account] = tokens[t.account] - t.amt]
            /\ list' = WithStake(t.vote, -t.amt) /\ splits' = splits \cup {t.seed} /\ UNCHANGED stake
  BY <1>1 DEF Land
<1>8. t.kind = "withdraw-stake" =>
         tokens[t.account] # None /\ tokens[t.account] >= t.amt /\ CanGive(list, t.vote, t.amt)
  BY <1>1, <1>3 DEF Accepts
<1>9. tokens' \in [Tokens -> Nat \cup {None}] /\ stake' \in Stake /\ splits' \subseteq Seeds
      /\ list' \in Seq(Entry) /\ DistinctVotes(list)'
  <2>1. tokens \in [Tokens -> Nat \cup {None}] /\ stake \in Stake /\ splits \subseteq Seeds
        /\ list \in Seq(Entry) /\ DistinctVotes(list)
    BY <1>0 DEF ChainType
  <2>2. CASE t.kind = "deposit-sol"
    <3>1. Balance(t.account) + t.amt \in Nat
      BY <1>2, <1>6
    <3> HIDE DEF Balance
    <3> QED  BY <1>7, <2>1, <2>2, <3>1
  <2>3. CASE t.kind = "deposit-stake"
    <3>1. Balance(t.account) + StakeAmount \in Nat
      BY <1>0, <1>6
    <3>2. WithStake(t.vote, StakeAmount) \in Seq(Entry) /\ DistinctVotes(WithStake(t.vote, StakeAmount))
      BY <1>0, WithStakeType
    <3>3. tokens' \in [Tokens -> Nat \cup {None}]
      BY <1>7, <2>1, <2>3, <3>1
    <3>4. None \in Stake
      BY DEF Stake
    <3>5. list' = WithStake(t.vote, StakeAmount) /\ stake' = None /\ splits' = splits
      BY <1>7, <2>3
    <3>6. list' \in Seq(Entry) /\ DistinctVotes(list')
      BY <3>2, <3>5
    <3> QED  BY <2>1, <3>3, <3>4, <3>5, <3>6
  <2>4. CASE t.kind = "withdraw-stake"
    <3>1. tokens[t.account] - t.amt \in Nat
      <4>1. tokens[t.account] \in Nat
        BY <1>2, <1>8, <2>1, <2>4
      <4> QED  BY <1>2, <1>8, <2>4, <4>1
    <3>2. tokens' \in [Tokens -> Nat \cup {None}]
      BY <1>7, <2>1, <2>4, <3>1
    <3>3. -t.amt \in Int /\ -(-t.amt) = t.amt
      BY <1>2
    <3>4. WithStake(t.vote, -t.amt) \in Seq(Entry) /\ DistinctVotes(WithStake(t.vote, -t.amt))
      BY <1>0, <1>8, <2>4, <3>3, WithStakeType
    <3>5. list' = WithStake(t.vote, -t.amt) /\ stake' = stake /\ splits' = splits \cup {t.seed}
      BY <1>7, <2>4
    <3>6. list' \in Seq(Entry) /\ DistinctVotes(list')
      BY <3>4, <3>5
    <3> QED  BY <1>3, <2>1, <2>4, <3>2, <3>5, <3>6
  <2> QED  BY <1>2, <2>2, <2>3, <2>4 DEF Kinds
<1> QED  BY <1>9

\* So does the transaction of a command that is confirmed.
LEMMA CommitType ==
    ASSUME TypeInv, NEW c \in Commands, CommitTx(c)
    PROVE  TypeInv'
<1>0. ChainType /\ CommandType /\ "done" \in Ended
  BY DEF TypeInv, Ended
<1>1. PICK t \in Tx : t = tx[c]
  BY <1>0 DEF CommitTx, ChainType
<1>2. Accepts(t) /\ Land(t) /\ tx[c] # None
  BY <1>1 DEF CommitTx
<1>3. t.kind = "withdraw-stake" => ~t.createAta /\ t.seed \in Seeds
  BY <1>0, <1>1, <1>2 DEF ChainType
<1>4. tx' = [tx EXCEPT ![c] = None] /\ End(c, "done") /\ Disturb(c)
      /\ UNCHANGED <<epoch, pool, earned, late, changes, losses, request>>
  BY DEF CommitTx
<1>5. pc' \in [Commands -> Alive \cup Ended] /\ seen' \in [Commands -> SeenType]
      /\ undisturbed' \in [Commands -> BOOLEAN]
  BY <1>0, <1>4, EndType, DisturbType
<1>6. tokens' \in [Tokens -> Nat \cup {None}] /\ stake' \in Stake /\ splits' \subseteq Seeds
      /\ list' \in Seq(Entry) /\ DistinctVotes(list)'
  BY <1>0, <1>2, <1>3, LandType
<1>7. /\ tx' \in [Commands -> Tx \cup {None}]
      /\ \A d \in Commands : tx'[d] # None /\ tx'[d].kind = "withdraw-stake" =>
                                ~tx'[d].createAta /\ tx'[d].seed \in Seeds
  BY <1>0, <1>4, TxGone
<1>8. ChainType'
  BY <1>0, <1>4, <1>6, <1>7 DEF ChainType
<1> QED  BY <1>0, <1>4, <1>5, <1>8 DEF CommandType, TypeInv

\* So does a late one, and one that expires is only gone.
LEMMA LateType ==
    ASSUME TypeInv, NEW t \in late, LandLate(t) \/ DropLate(t)
    PROVE  TypeInv'
<1>0. ChainType /\ CommandType
  BY DEF TypeInv
<1>1. /\ t \in Tx
      /\ t.kind = "withdraw-stake" => ~t.createAta /\ t.seed \in Seeds
  BY <1>0 DEF ChainType
<1>2. late' = late \ {t} /\ UNCHANGED <<epoch, pool, earned, tx, changes, losses, commands>>
  BY DEF LandLate, DropLate
<1>3. late' \subseteq Tx
      /\ \A u \in late' : u.kind = "withdraw-stake" => ~u.createAta /\ u.seed \in Seeds
  BY <1>0, <1>2 DEF ChainType
<1>4. tokens' \in [Tokens -> Nat \cup {None}] /\ stake' \in Stake /\ splits' \subseteq Seeds
      /\ list' \in Seq(Entry) /\ DistinctVotes(list)'
  <2>1. CASE LandLate(t)
    BY <1>0, <1>1, <2>1, LandType DEF LandLate
  <2>2. CASE DropLate(t)
    BY <1>0, <2>2 DEF DropLate, ChainType
  <2> QED  BY <2>1, <2>2
<1>5. undisturbed' \in [Commands -> BOOLEAN]
  BY <1>0 DEF LandLate, DropLate, CommandType
<1>6. ChainType'
  BY <1>0, <1>2, <1>3, <1>4 DEF ChainType
<1> QED  BY <1>0, <1>2, <1>5, <1>6 DEF commands, CommandType, TypeInv

\* A transaction that is rejected or lost keeps the types.
LEMMA AbortType ==
    ASSUME TypeInv, NEW c \in Commands, AbortTx(c) \/ LoseTx(c)
    PROVE  TypeInv'
<1>0. ChainType /\ CommandType /\ {"rejected", "lost"} \subseteq Ended
  BY DEF TypeInv, Ended
<1>1. /\ UNCHANGED <<epoch, pool, list, earned, tokens, stake, splits, late, changes, request,
                     undisturbed>>
      /\ tx' = [tx EXCEPT ![c] = None] /\ (End(c, "rejected") \/ End(c, "lost"))
      /\ losses' = losses \/ (losses < MaxLosses /\ losses' = losses + 1)
  BY DEF AbortTx, LoseTx
<1>2. pc' \in [Commands -> Alive \cup Ended] /\ seen' \in [Commands -> SeenType]
  BY <1>0, <1>1, EndType
<1>3. losses' \in 0 .. MaxLosses
  BY <1>0, <1>1, UserConstants DEF ChainType
<1>4. /\ tx' \in [Commands -> Tx \cup {None}]
      /\ \A d \in Commands : tx'[d] # None /\ tx'[d].kind = "withdraw-stake" =>
                                ~tx'[d].createAta /\ tx'[d].seed \in Seeds
  BY <1>0, <1>1, TxGone
<1>5. ChainType'
  BY <1>0, <1>1, <1>3, <1>4 DEF ChainType
<1> QED  BY <1>0, <1>1, <1>2, <1>5 DEF CommandType, TypeInv

\* So does everybody else.
LEMMA WorldType ==
    ASSUME TypeInv, World
    PROVE  TypeInv'
<1>0. ChainType /\ CommandType /\ {MaxEpoch, MaxChanges} \subseteq Nat
  BY UserConstants DEF TypeInv
<1>1. NotTheWallet
  BY DEF World, AdvanceEpoch, OtherCrank, OtherUser, Prefer, RemoveValidator
<1>2. CommandType'
  BY <1>0, <1>1 DEF NotTheWallet, commands, CommandType
<1>3. SUFFICES ChainType'
  BY <1>2 DEF TypeInv
<1>4. UNCHANGED <<tokens, stake, splits, tx, late, losses>>
  BY <1>1 DEF NotTheWallet
<1>5. Counted => changes' \in 0 .. MaxChanges
  BY <1>0 DEF Counted, ChainType
<1>6. CASE AdvanceEpoch
  <2>1. epoch < MaxEpoch /\ epoch' = epoch + 1 /\ UNCHANGED <<pool, list, changes>>
    BY <1>6 DEF AdvanceEpoch
  <2>2. PICK e \in Earnings : earned' = [v \in Votes |-> earned[v] + e[v]]
    BY <1>6 DEF AdvanceEpoch
  <2>3. earned' \in [Votes -> Nat]
    <3>1. e \in [Votes -> Nat] /\ earned \in [Votes -> Nat]
      BY <1>0, UserConstants DEF ChainType
    <3>2. \A v \in Votes : earned[v] + e[v] \in Nat
      BY <3>1
    <3> QED  BY <2>2, <3>2
  <2>4. epoch' \in 0 .. MaxEpoch /\ pool.epoch <= epoch'
    <3>1. epoch \in 0 .. MaxEpoch /\ pool.epoch \in 0 .. MaxEpoch /\ pool.epoch <= epoch
      BY <1>0 DEF ChainType, Pool
    <3> QED  BY <1>0, <2>1, <3>1
  <2> QED  BY <1>0, <1>4, <2>1, <2>3, <2>4 DEF ChainType
<1>7. CASE OtherCrank
  BY <1>0, <1>4, <1>7, UpdateOnChainType DEF OtherCrank
<1>8. ASSUME NEW v \in Votes, NEW n \in {-1, 1}, OtherUser(v, n)
      PROVE  ChainType'
  <2>1. n \in Int /\ (n >= 0 \/ CanGive(list, v, -n)) /\ list' = WithStake(v, n)
        /\ Counted /\ UNCHANGED <<epoch, pool, earned>>
    BY <1>8 DEF OtherUser
  <2>2. list' \in Seq(Entry) /\ DistinctVotes(list')
    BY <1>0, <2>1, WithStakeType
  <2> QED  BY <1>0, <1>4, <1>5, <2>1, <2>2 DEF ChainType
<1>9. ASSUME NEW v \in Votes, RemoveValidator(v)
      PROVE  ChainType'
  <2> DEFINE e(i) == IF list[i].vote = v THEN [list[i] EXCEPT !.leaving = TRUE] ELSE list[i]
             r == [i \in DOMAIN list |-> e(i)]
  <2>1. /\ list' = r /\ Counted /\ UNCHANGED <<epoch, earned>>
        /\ pool' = [pool EXCEPT !.preferredDeposit = IF @ = v THEN None ELSE @,
                                !.preferredWithdraw = IF @ = v THEN None ELSE @]
    BY <1>9 DEF RemoveValidator
  <2>2. list \in Seq(Entry) /\ DistinctVotes(list) /\ pool \in Pool
    BY <1>0 DEF ChainType
  <2>3. ASSUME NEW i \in DOMAIN list
        PROVE  e(i) \in Entry /\ e(i).vote = list[i].vote
    <3>1. list[i] \in Entry
      BY <2>2, EntryIs
    <3> QED  BY <3>1 DEF Entry
  <2>4. pool' \in Pool /\ pool'.epoch = pool.epoch
    BY <2>1, <2>2 DEF Pool
  <2> HIDE DEF e
  <2>5. r \in Seq(Entry)
    <3>1. Len(list) \in Nat /\ DOMAIN list = 1 .. Len(list)
      BY <2>2, EntryIs
    <3> QED  BY <2>3, <3>1
  <2>6. DistinctVotes(r)
    <3>1. \A i \in DOMAIN list : r[i].vote = list[i].vote
      BY <2>3
    <3>2. DOMAIN r = DOMAIN list
      OBVIOUS
    <3> HIDE DEF r
    <3> QED  BY <2>2, <3>1, <3>2, SameVotesDistinct
  <2> HIDE DEF r
  <2> QED  BY <1>0, <1>4, <1>5, <2>1, <2>4, <2>5, <2>6 DEF ChainType
<1>10. ASSUME NEW which \in {"preferredDeposit", "preferredWithdraw"}, NEW v \in Votes \cup {None},
              Prefer(which, v)
       PROVE  ChainType'
  <2>1. Counted /\ UNCHANGED <<epoch, list, earned>> /\ pool' = [pool EXCEPT ![which] = v]
    BY <1>10 DEF Prefer
  <2>2. pool \in Pool
    BY <1>0 DEF ChainType
  <2>3. pool' \in Pool /\ pool'.epoch = pool.epoch
    <3>1. CASE which = "preferredDeposit"
      <4>1. pool' = [pool EXCEPT !.preferredDeposit = v]
        BY <2>1, <3>1
      <4> QED  BY <2>2, <4>1 DEF Pool
    <3>2. CASE which = "preferredWithdraw"
      <4>1. pool' = [pool EXCEPT !.preferredWithdraw = v]
        BY <2>1, <3>2
      <4> QED  BY <2>2, <4>1 DEF Pool
    <3> QED  BY <3>1, <3>2
  <2> QED  BY <1>0, <1>4, <1>5, <2>1, <2>3 DEF ChainType
<1> QED  BY <1>6, <1>7, <1>8, <1>9, <1>10 DEF World

\* Initially every variable has its type.
LEMMA InitType == Init => TypeInv
<1> SUFFICES ASSUME Init PROVE TypeInv
  OBVIOUS
<1>1. PICK s \in Starts : pool = s.pool /\ list = s.list /\ tokens = s.tokens /\ stake = s.stake
                          /\ request = s.request
  BY DEF Init
<1>2. s \in Start /\ s.pool.epoch = 0 /\ DistinctVotes(s.list)
  BY UserConstants
<1>3. pool \in Pool /\ list \in Seq(Entry) /\ tokens \in [Tokens -> Nat \cup {None}] /\ stake \in Stake
      /\ request \in [Commands -> Request \cup {None}] /\ DistinctVotes(list)
  BY <1>1, <1>2 DEF Start
<1>4. epoch \in 0 .. MaxEpoch /\ changes \in 0 .. MaxChanges /\ losses \in 0 .. MaxLosses
      /\ pool.epoch <= epoch
  BY <1>1, <1>2, UserConstants DEF Init
<1>5. earned \in [Votes -> Nat] /\ splits \subseteq Seeds /\ tx \in [Commands -> Tx \cup {None}]
      /\ late = {} /\ \A c \in Commands : tx[c] = None
  BY DEF Init
<1>6. pc \in [Commands -> Alive \cup Ended] /\ undisturbed \in [Commands -> BOOLEAN]
      /\ seen \in [Commands -> SeenType]
  BY NothingSeenType DEF Init, Ended
<1> QED  BY <1>3, <1>4, <1>5, <1>6 DEF TypeInv, ChainType, CommandType

\* Every step keeps the types.
LEMMA TypeStep == TypeInv /\ ProcessInv /\ [Next]_vars => TypeInv'
<1> SUFFICES ASSUME TypeInv, ProcessInv, [Next]_vars
             PROVE  TypeInv'
  OBVIOUS
<1>1. ASSUME NEW c \in Commands, FetchPool(c) \/ FetchList(c) \/ FindSeed(c) \/ FetchClock(c)
      PROVE  TypeInv'
  BY <1>1, ReadType
<1>2. ASSUME NEW c \in Commands, Update(c) \/ UpdateFails(c)
      PROVE  TypeInv'
  BY <1>2, UpdateType
<1>3. ASSUME NEW c \in Commands, Send(c) \/ Crash(c)
      PROVE  TypeInv'
  BY <1>3, SendType, CrashType
<1>4. ASSUME NEW c \in Commands, CommitTx(c) \/ AbortTx(c) \/ LoseTx(c)
      PROVE  TypeInv'
  BY <1>4, CommitType, AbortType
<1>5. CASE World
  BY <1>5, WorldType
<1>6. ASSUME NEW t \in late, LandLate(t) \/ DropLate(t)
      PROVE  TypeInv'
  BY <1>6, LateType
<1>7. CASE UNCHANGED vars
  BY <1>7 DEF vars, chain, commands, TypeInv, ChainType, CommandType
<1> QED  BY <1>1, <1>2, <1>3, <1>4, <1>5, <1>6, <1>7 DEF Next, Step, Runtime

-----------------------------------------------------------------------------
(* Processes.                                                              *)

\* The steps of a process and of its transaction.
StepOf(c) == FetchPool(c) \/ Step(c) \/ Runtime(c) \/ UpdateFails(c) \/ Crash(c) \/ LoseTx(c)

\* What a process that does not step keeps.
Resting(d) == pc'[d] = pc[d] /\ seen'[d] = seen[d] /\ tx'[d] = tx[d] /\ request' = request

\* What the commands read of the chain.
Read == <<epoch, pool, list, tokens, stake, splits>>

\* Where a process goes does not concern the others.
LEMMA GotoOther ==
    ASSUME CommandType, NEW c \in Commands, NEW d \in Commands, d # c, NEW phase, Goto(c, phase)
    PROVE  pc'[d] = pc[d]
BY DEF CommandType, Goto

\* Nor how it ends.
LEMMA EndOther ==
    ASSUME CommandType, NEW c \in Commands, NEW d \in Commands, d # c, NEW how, End(c, how)
    PROVE  pc'[d] = pc[d] /\ seen'[d] = seen[d]
BY DEF CommandType, Goto, End

\* A step of a process leaves the others as they are, and the chain too unless it disturbs them.
LEMMA StepOther ==
    ASSUME TypeInv, NEW c \in Commands, NEW d \in Commands, d # c, StepOf(c)
    PROVE  Resting(d) /\ (undisturbed'[d] => undisturbed[d] /\ UNCHANGED Read)
<1>0. CommandType /\ seen \in [Commands -> SeenType] /\ tx \in [Commands -> Tx \cup {None}]
      /\ undisturbed \in [Commands -> BOOLEAN]
  BY DEF TypeInv, CommandType, ChainType
<1>1. Disturb(c) => ~undisturbed'[d]
  BY DEF Disturb
<1>2. CASE FetchPool(c)
  BY <1>0, <1>2, GotoOther, EndOther DEF FetchPool, chain, Resting, Read
<1>3. CASE FetchListDepositSol(c)
  BY <1>0, <1>3, GotoOther, EndOther DEF FetchListDepositSol, chain, Resting, Read
<1>4. CASE FetchListDepositStake(c)
  BY <1>0, <1>4, GotoOther, EndOther DEF FetchListDepositStake, chain, Resting, Read
<1>5. CASE FetchListWithdraw(c)
  BY <1>0, <1>5, GotoOther, EndOther DEF FetchListWithdraw, chain, Resting, Read
<1>6. CASE FindSeed(c)
  BY <1>0, <1>6, GotoOther, EndOther DEF FindSeed, chain, Resting, Read
<1>7. CASE FetchClock(c)
  BY <1>0, <1>7, GotoOther, EndOther DEF FetchClock, chain, Resting, Read
<1>8. CASE Update(c)
  BY <1>0, <1>1, <1>8, GotoOther DEF Update, Resting, Read
<1>9. CASE UpdateFails(c)
  BY <1>0, <1>9, EndOther DEF UpdateFails, Resting, Read
<1>10. CASE Send(c)
  BY <1>0, <1>10, GotoOther, EndOther DEF Send, Resting, Read
<1>11. CASE Crash(c)
  BY <1>0, <1>11, EndOther DEF Crash, Resting, Read
<1>12. CASE CommitTx(c)
  BY <1>0, <1>1, <1>12, EndOther DEF CommitTx, Resting
<1>13. CASE AbortTx(c) \/ LoseTx(c)
  BY <1>0, <1>13, EndOther DEF AbortTx, LoseTx, Resting, Read
<1> QED
  BY <1>2, <1>3, <1>4, <1>5, <1>6, <1>7, <1>8, <1>9, <1>10, <1>11, <1>12, <1>13
     DEF StepOf, Step, FetchList, Runtime

\* A process that has ended knows nothing.
LEMMA EndProcess ==
    ASSUME CommandType, NEW c \in Commands, NEW how \in Ended, End(c, how), tx'[c] = None
    PROVE  ProcessOf(c)' /\ pc'[c] \notin Alive
<1>1. pc'[c] = how /\ seen'[c] = NothingSeen
  BY DEF CommandType, End, Goto
<1>2. how \notin Alive
  BY DEF Ended, Alive
<1> QED  BY <1>1, <1>2 DEF ProcessOf, Alive

\* A process with no transaction in flight, on its way to having one.
LEMMA GotoProcess ==
    ASSUME CommandType, NEW c \in Commands, NEW phase \in Alive \ {"confirm"}, Goto(c, phase),
           tx'[c] = None, request'[c] # None, seen'[c].pool \in Pool,
           request'[c].kind = "withdraw-stake" =>
              /\ ~seen'[c].noAccount
              /\ phase \in AfterList \ {"find_seed"} => seen'[c].seed \in Seeds
              /\ phase \in AfterList => /\ seen'[c].vote # None
                                        /\ seen'[c].vote = Source(request'[c], seen'[c].pool, seen'[c].list)
    PROVE  ProcessOf(c)' /\ pc'[c] = phase
<1>1. pc'[c] = phase
  BY DEF CommandType, Goto
<1> QED  BY <1>1 DEF ProcessOf

\* The steps of a process keep it consistent.
LEMMA StepProcess ==
    ASSUME TypeInv, ProcessInv, NEW c \in Commands, StepOf(c)
    PROVE  ProcessOf(c)'
<1>0. /\ CommandType /\ ProcessOf(c) /\ seen \in [Commands -> SeenType] /\ seen[c] \in SeenType
      /\ tx \in [Commands -> Tx \cup {None}] /\ pool \in Pool
      /\ {"refused", "no_mint_to", "rejected", "lost", "done", "dead"} \subseteq Ended
      /\ {"fetch_list", "find_seed", "fetch_clock", "update", "send"} \subseteq Alive \ {"confirm"}
      /\ "confirm" \in Alive
  BY DEF TypeInv, CommandType, ChainType, ProcessInv, Ended, Alive
<1>1. ASSUME pc[c] \in {"fetch_list", "find_seed", "fetch_clock", "update", "send"}
      PROVE  tx[c] = None /\ request[c] # None /\ seen[c].pool \in Pool
             /\ (request[c].kind = "withdraw-stake" => ~seen[c].noAccount)
  BY <1>0, <1>1 DEF ProcessOf
<1>2. CASE FetchPool(c)
  <2>1. tx'[c] = None /\ request'[c] # None /\ seen[c] = NothingSeen
    BY <1>0, <1>2 DEF FetchPool, chain, ProcessOf, Ended, Alive
  <2>2. CASE End(c, "refused")
    BY <1>0, <2>1, <2>2, EndProcess
  <2>3. CASE ~End(c, "refused")
    <3>1. Goto(c, "fetch_list") /\ seen'[c].pool = pool /\ seen'[c].noAccount = seen[c].noAccount
      BY <1>0, <1>2, <2>3 DEF FetchPool, SeenType
    <3>2. seen'[c].noAccount = FALSE
      BY <2>1, <3>1 DEF NothingSeen
    <3> QED  BY <1>0, <2>1, <3>1, <3>2, GotoProcess DEF AfterList
  <2> QED  BY <2>2, <2>3
<1>3. CASE FetchListDepositSol(c)
  <2>1. pc[c] = "fetch_list" /\ tx' = tx /\ request' = request /\ request[c].kind = "deposit-sol"
        /\ Goto(c, "update")
    BY <1>3 DEF FetchListDepositSol, chain
  <2>2. seen'[c].pool = seen[c].pool
    BY <1>0, <1>3 DEF FetchListDepositSol, SeenType
  <2> QED  BY <1>0, <1>1, <2>1, <2>2, GotoProcess
<1>4. CASE FetchListDepositStake(c)
  <2>1. pc[c] = "fetch_list" /\ tx' = tx /\ request' = request /\ request[c].kind = "deposit-stake"
    BY <1>4 DEF FetchListDepositStake, chain
  <2>2. CASE End(c, "refused") \/ End(c, "no_mint_to")
    BY <1>0, <1>1, <2>1, <2>2, EndProcess
  <2>3. CASE ~(End(c, "refused") \/ End(c, "no_mint_to"))
    <3>1. Goto(c, "update") /\ seen'[c].pool = seen[c].pool
      BY <1>0, <1>4, <2>3 DEF FetchListDepositStake, SeenType
    <3> QED  BY <1>0, <1>1, <2>1, <3>1, GotoProcess
  <2> QED  BY <2>2, <2>3
<1>5. CASE FetchListWithdraw(c)
  <2>1. pc[c] = "fetch_list" /\ tx' = tx /\ request' = request /\ request[c].kind = "withdraw-stake"
    BY <1>5 DEF FetchListWithdraw, chain
  <2>2. CASE End(c, "refused")
    BY <1>0, <1>1, <2>1, <2>2, EndProcess
  <2>3. CASE ~End(c, "refused")
    <3> DEFINE source == Source(request[c], seen[c].pool, list)
               n == Amount(request[c], tokens[request[c].account])
    <3>1. source # None /\ Goto(c, "find_seed")
          /\ seen' = [seen EXCEPT ![c] = [seen[c] EXCEPT !.list = list, !.vote = source, !.amt = n]]
      BY <1>5, <2>3 DEF FetchListWithdraw
    <3> HIDE DEF source, n
    <3>2. seen'[c].pool = seen[c].pool /\ seen'[c].list = list /\ seen'[c].vote = source
          /\ seen'[c].noAccount = seen[c].noAccount
      BY <1>0, <3>1 DEF SeenType
    <3> QED  BY <1>0, <1>1, <2>1, <3>1, <3>2, GotoProcess DEF source, AfterList
  <2> QED  BY <2>2, <2>3
<1>6. CASE FindSeed(c)
  <2>1. pc[c] = "find_seed" /\ tx' = tx /\ request' = request
    BY <1>6 DEF FindSeed, chain
  <2>2. CASE End(c, "refused")
    BY <1>0, <1>1, <2>1, <2>2, EndProcess
  <2>3. CASE ~End(c, "refused")
    <3>1. PICK x \in Seeds : seen' = [seen EXCEPT ![c].seed = x]
      BY <1>6, <2>3 DEF FindSeed
    <3>2. Goto(c, "fetch_clock")
      BY <1>6, <2>3 DEF FindSeed
    <3>3. seen'[c].pool = seen[c].pool /\ seen'[c].list = seen[c].list /\ seen'[c].vote = seen[c].vote
          /\ seen'[c].noAccount = seen[c].noAccount /\ seen'[c].seed = x
      BY <1>0, <3>1 DEF SeenType
    <3>4. request[c].kind = "withdraw-stake" =>
             seen[c].vote # None /\ seen[c].vote = Source(request[c], seen[c].pool, seen[c].list)
      BY <1>0, <2>1 DEF ProcessOf, AfterList, Alive
    <3> QED  BY <1>0, <1>1, <2>1, <3>2, <3>3, <3>4, GotoProcess
  <2> QED  BY <2>2, <2>3
<1>7. CASE FetchClock(c)
  <2>1. pc[c] = "fetch_clock" /\ tx' = tx /\ request' = request /\ Goto(c, "update")
    BY <1>7 DEF FetchClock, chain
  <2>2. seen'[c].pool = seen[c].pool /\ seen'[c].list = seen[c].list /\ seen'[c].vote = seen[c].vote
        /\ seen'[c].noAccount = seen[c].noAccount /\ seen'[c].seed = seen[c].seed
    BY <1>0, <1>7 DEF FetchClock, SeenType
  <2>3. request[c].kind = "withdraw-stake" =>
           /\ seen[c].vote # None /\ seen[c].vote = Source(request[c], seen[c].pool, seen[c].list)
           /\ seen[c].seed \in Seeds
    BY <1>0, <2>1 DEF ProcessOf, AfterList, Alive
  <2> QED  BY <1>0, <1>1, <2>1, <2>2, <2>3, GotoProcess
<1>8. CASE Update(c)
  <2>1. pc[c] = "update" /\ tx' = tx /\ request' = request /\ seen' = seen /\ Goto(c, "send")
    BY <1>8 DEF Update
  <2>2. request[c].kind = "withdraw-stake" =>
           /\ seen[c].vote # None /\ seen[c].vote = Source(request[c], seen[c].pool, seen[c].list)
           /\ seen[c].seed \in Seeds
    BY <1>0, <2>1 DEF ProcessOf, AfterList, Alive
  <2> QED  BY <1>0, <1>1, <2>1, <2>2, GotoProcess
<1>9. CASE UpdateFails(c)
  <2>1. pc[c] = "update" /\ tx' = tx /\ (End(c, "rejected") \/ End(c, "lost"))
    BY <1>9 DEF UpdateFails
  <2> QED  BY <1>0, <1>1, <2>1, EndProcess
<1>10. CASE Send(c)
  <2>1. pc[c] = "send" /\ request' = request
    BY <1>10 DEF Send
  <2>2. CASE (End(c, "no_mint_to") \/ End(c, "refused")) /\ UNCHANGED tx
    BY <1>0, <1>1, <2>1, <2>2, EndProcess
  <2>3. CASE tx' = [tx EXCEPT ![c] = Transaction(c)] /\ Goto(c, "confirm") /\ UNCHANGED seen
    <3>1. pc'[c] = "confirm"
      BY <1>0, <2>3 DEF CommandType, Goto
    <3>2. tx'[c] = Transaction(c)
      BY <1>0, <2>3
    <3>3. Transaction(c)' = Transaction(c)
      BY <2>1, <2>3 DEF Transaction
    <3>4. request[c].kind = "withdraw-stake" =>
             /\ seen[c].vote # None /\ seen[c].vote = Source(request[c], seen[c].pool, seen[c].list)
             /\ seen[c].seed \in Seeds
      BY <1>0, <2>1 DEF ProcessOf, AfterList, Alive
    <3> QED  BY <1>0, <1>1, <2>1, <2>3, <3>1, <3>2, <3>3, <3>4 DEF ProcessOf
  <2> QED  BY <1>10, <2>2, <2>3 DEF Send
<1>11. CASE Crash(c) \/ CommitTx(c) \/ AbortTx(c) \/ LoseTx(c)
  <2>1. tx' = [tx EXCEPT ![c] = None]
        /\ \E how \in {"dead", "done", "rejected", "lost"} : End(c, how)
    BY <1>11 DEF Crash, CommitTx, AbortTx, LoseTx
  <2>2. tx'[c] = None
    BY <1>0, <2>1
  <2> QED  BY <1>0, <2>1, <2>2, EndProcess
<1> QED
  BY <1>2, <1>3, <1>4, <1>5, <1>6, <1>7, <1>8, <1>9, <1>10, <1>11
     DEF StepOf, Step, FetchList, Runtime

\* A process that rests stays consistent.
LEMMA RestingProcess ==
    ASSUME NEW d \in Commands, ProcessOf(d), Resting(d)
    PROVE  ProcessOf(d)'
<1>1. Transaction(d)' = Transaction(d)
  BY DEF Transaction, Resting
<1> QED  BY <1>1 DEF ProcessOf, Resting

\* Every step keeps all processes consistent.
LEMMA ProcessStep == TypeInv /\ ProcessInv /\ [Next]_vars => ProcessInv'
<1> SUFFICES ASSUME TypeInv, ProcessInv, [Next]_vars, NEW d \in Commands
             PROVE  ProcessOf(d)'
  BY DEF ProcessInv
<1>1. ProcessOf(d)
  BY DEF ProcessInv
<1>2. ASSUME NEW c \in Commands, StepOf(c)
      PROVE  ProcessOf(d)'
  <2>1. CASE d = c
    BY <1>2, <2>1, StepProcess
  <2>2. CASE d # c
    <3>1. Resting(d)
      BY <1>2, <2>2, StepOther
    <3> QED  BY <1>1, <3>1, RestingProcess
  <2> QED  BY <2>1, <2>2
<1>3. CASE World \/ (\E t \in late : LandLate(t) \/ DropLate(t)) \/ UNCHANGED vars
  <2>1. UNCHANGED <<tx, commands>>
    BY <1>3 DEF World, AdvanceEpoch, OtherCrank, OtherUser, Prefer, RemoveValidator, NotTheWallet,
                LandLate, DropLate, vars, chain
  <2>2. Resting(d)
    BY <2>1 DEF commands, Resting
  <2> QED  BY <1>1, <2>2, RestingProcess
<1> QED  BY <1>2, <1>3 DEF Next, StepOf

-----------------------------------------------------------------------------
(* A command that is let alone.                                            *)

\* The reads of a command are of the chain as it is.
LEMMA ReadCurrent ==
    ASSUME TypeInv, ProcessInv, NEW c \in Commands, undisturbed[c] /\ pc[c] \in Alive => Current(c),
           FetchPool(c) \/ FetchList(c) \/ FindSeed(c) \/ FetchClock(c),
           undisturbed'[c], pc'[c] \in Alive
    PROVE  Current(c)'
<1>0. /\ CommandType /\ seen \in [Commands -> SeenType] /\ seen[c] \in SeenType
      /\ pc \in [Commands -> Alive \cup Ended] /\ ProcessOf(c)
      /\ tokens \in [Tokens -> Nat \cup {None}]
  BY DEF TypeInv, CommandType, ChainType, ProcessInv
<1>1. UNCHANGED <<chain, request>>
  BY DEF FetchPool, FetchList, FetchListDepositSol, FetchListDepositStake, FetchListWithdraw,
         FindSeed, FetchClock
<1>2. UNCHANGED <<epoch, pool, list, tokens, stake, splits>> /\ request' = request
  BY <1>1 DEF chain
<1>3. ASSUME NEW how \in Ended, End(c, how)
      PROVE  FALSE
  <2>1. pc'[c] = how
    BY <1>0, <1>3 DEF End, Goto
  <2> QED  BY <2>1 DEF Alive, Ended
<1>4. CASE FetchPool(c)
  <2>1. /\ Goto(c, "fetch_list")
        /\ request[c].kind = "deposit-stake" => StakeFits
        /\ seen' = [seen EXCEPT ![c].pool = pool,
                                ![c].vote = IF request[c].kind = "deposit-stake"
                                            THEN stake.vote ELSE None,
                                ![c].amt = IF request[c].kind = "deposit-sol"
                                           THEN request[c].amt ELSE 0]
    BY <1>3, <1>4 DEF FetchPool, Ended
  <2>2. pc'[c] = "fetch_list"
    BY <1>0, <2>1 DEF Goto
  <2>3. seen'[c].pool = pool /\ (request[c].kind = "deposit-stake" => seen'[c].vote = stake.vote)
    BY <1>0, <2>1 DEF SeenType
  <2>4. request[c].kind = "deposit-stake" => stake # None /\ pool.preferredDeposit \in {None, stake.vote}
    BY <2>1 DEF StakeFits
  <2> QED  BY <1>2, <2>2, <2>3, <2>4 DEF Current, AfterList
<1>5. CASE FetchListDepositSol(c)
  <2>1. Current(c) /\ pc[c] = "fetch_list" /\ request[c].kind = "deposit-sol"
    BY <1>5 DEF FetchListDepositSol, Alive
  <2>2. pc'[c] = "update"
    BY <1>0, <1>5 DEF FetchListDepositSol, Goto
  <2>3. seen'[c].pool = seen[c].pool /\ seen'[c].list = list /\ seen'[c].clock = epoch
        /\ (seen'[c].noAccount <=> tokens[request[c].account] = None)
    BY <1>0, <1>5 DEF FetchListDepositSol, SeenType
  <2> QED  BY <1>2, <2>1, <2>2, <2>3 DEF Current
<1>6. CASE FetchListDepositStake(c)
  <2>1. Current(c) /\ pc[c] = "fetch_list" /\ request[c].kind = "deposit-stake"
    BY <1>6 DEF FetchListDepositStake, Alive
  <2>2. Goto(c, "update")
        /\ seen' = [seen EXCEPT ![c].noAccount = tokens["ata"] = None,
                                ![c].list = list, ![c].clock = epoch]
    BY <1>3, <1>6 DEF FetchListDepositStake, Ended
  <2>3. pc'[c] = "update"
    BY <1>0, <2>2 DEF Goto
  <2>4. seen'[c].pool = seen[c].pool /\ seen'[c].list = list /\ seen'[c].clock = epoch
        /\ (seen'[c].noAccount <=> tokens["ata"] = None) /\ seen'[c].vote = seen[c].vote
    BY <1>0, <2>2 DEF SeenType
  <2> QED  BY <1>2, <2>1, <2>3, <2>4 DEF Current
<1>7. CASE FetchListWithdraw(c)
  <2> DEFINE source == Source(request[c], seen[c].pool, list)
             balance == tokens[request[c].account]
             n == Amount(request[c], balance)
  <2>1. Current(c) /\ pc[c] = "fetch_list" /\ request[c].kind = "withdraw-stake"
    BY <1>7 DEF FetchListWithdraw, Alive
  <2>2. /\ Goto(c, "find_seed") /\ balance # None /\ ~(request[c].amt # All /\ request[c].amt > balance)
        /\ seen' = [seen EXCEPT ![c].list = list, ![c].vote = source, ![c].amt = n]
    BY <1>3, <1>7 DEF FetchListWithdraw, Ended
  <2>3. pc'[c] = "find_seed"
    BY <1>0, <2>2 DEF Goto
  <2>4. balance >= n
    <3>1. request[c] \in Request
      BY <1>0, <2>1 DEF ProcessOf, Alive, CommandType
    <3>2. balance \in Nat /\ request[c].amt \in Nat \cup {All}
      BY <1>0, <2>2, <3>1, RequestIs
    <3> HIDE DEF balance
    <3> QED  BY <2>2, <3>2 DEF Amount
  <2> HIDE DEF source, n
  <2>5. seen'[c].pool = seen[c].pool /\ seen'[c].list = list /\ seen'[c].amt = n
    BY <1>0, <2>2 DEF SeenType
  <2> QED  BY <1>2, <2>1, <2>2, <2>3, <2>4, <2>5 DEF Current
<1>8. CASE FindSeed(c)
  <2>1. Current(c) /\ pc[c] = "find_seed"
    BY <1>8 DEF FindSeed, Alive
  <2>2. PICK x \in Seeds \ splits : seen' = [seen EXCEPT ![c].seed = x]
    BY <1>3, <1>8 DEF FindSeed, Ended
  <2>3. Goto(c, "fetch_clock")
    BY <1>3, <1>8 DEF FindSeed, Ended
  <2>4. pc'[c] = "fetch_clock"
    BY <1>0, <2>3 DEF Goto
  <2>5. seen'[c] = [seen[c] EXCEPT !.seed = x]
    BY <1>0, <2>2
  <2>6. seen'[c].pool = seen[c].pool /\ seen'[c].list = seen[c].list /\ seen'[c].amt = seen[c].amt
        /\ seen'[c].vote = seen[c].vote /\ seen'[c].noAccount = seen[c].noAccount /\ seen'[c].seed = x
    BY <1>0, <2>5 DEF SeenType
  <2> QED  BY <1>2, <2>1, <2>4, <2>6 DEF Current, AfterList
<1>9. CASE FetchClock(c)
  <2>1. Current(c) /\ pc[c] = "fetch_clock"
    BY <1>9 DEF FetchClock, Alive
  <2>2. pc'[c] = "update"
    BY <1>0, <1>9 DEF FetchClock, Goto
  <2>3. seen'[c] = [seen[c] EXCEPT !.clock = epoch]
    BY <1>0, <1>9 DEF FetchClock
  <2>4. seen'[c].pool = seen[c].pool /\ seen'[c].list = seen[c].list /\ seen'[c].amt = seen[c].amt
        /\ seen'[c].vote = seen[c].vote /\ seen'[c].noAccount = seen[c].noAccount
        /\ seen'[c].seed = seen[c].seed /\ seen'[c].clock = epoch
    BY <1>0, <2>3 DEF SeenType
  <2> QED  BY <1>2, <2>1, <2>2, <2>4 DEF Current, AfterList
<1> QED  BY <1>4, <1>5, <1>6, <1>7, <1>8, <1>9 DEF FetchList

\* After the update of a command, needed or not, the pool is of the epoch.
LEMMA UpdateCurrent ==
    ASSUME TypeInv, NEW c \in Commands, Current(c), Update(c)
    PROVE  Current(c)'
<1>0. /\ CommandType /\ seen[c] \in SeenType /\ seen[c].clock = epoch
      /\ pool \in Pool /\ epoch \in Nat /\ pool.epoch \in Nat /\ pool.epoch <= epoch
      /\ seen[c].pool.epoch = pool.epoch /\ pc[c] = "update"
  BY DEF TypeInv, CommandType, ChainType, Update, Current, Pool
<1>1. pc'[c] = "send" /\ UNCHANGED <<epoch, tokens, stake, splits, request, seen>>
  BY <1>0 DEF Update, Goto, CommandType
<1>2. CASE IsUpdatedForCurrEpoch(seen[c])
  <2>1. UNCHANGED <<pool, list>>
    BY <1>2 DEF Update
  <2>2. pool.epoch = epoch
    BY <1>0, <1>2 DEF IsUpdatedForCurrEpoch
  <2> QED  BY <1>0, <1>1, <2>1, <2>2 DEF Current, AfterList
<1>3. CASE ~IsUpdatedForCurrEpoch(seen[c])
  <2>1. UpdateOnChain
    BY <1>3 DEF Update
  <2>2. /\ pool'.epoch = epoch /\ pool'.solAuthority = pool.solAuthority
        /\ pool'.preferredDeposit = pool.preferredDeposit
        /\ pool'.preferredWithdraw = pool.preferredWithdraw
    BY <1>0, <2>1 DEF UpdateOnChain, Pool
  <2>3. ~IsUpdatedForCurrEpoch(seen[c])'
    BY <1>1, <1>3 DEF IsUpdatedForCurrEpoch
  <2> QED  BY <1>0, <1>1, <2>2, <2>3 DEF Current, AfterList
<1> QED  BY <1>2, <1>3

\* What is sent, is sent by a command that can sign for it.
LEMMA SendCurrent ==
    ASSUME TypeInv, NEW c \in Commands, Current(c), Send(c), pc'[c] \in Alive
    PROVE  Current(c)'
<1>0. CommandType /\ pc[c] = "send" /\ UNCHANGED <<epoch, pool, list, tokens, stake, splits, request>>
  BY DEF TypeInv, Send
<1>1. ASSUME NEW how \in Ended, End(c, how)
      PROVE  FALSE
  <2>1. pc'[c] = how
    BY <1>0, <1>1 DEF End, Goto, CommandType
  <2> QED  BY <2>1 DEF Alive, Ended
<1>2. /\ ~(seen[c].noAccount /\ request[c].account # "ata")
      /\ ~(request[c].kind = "deposit-sol" /\ seen[c].pool.solAuthority = "other")
      /\ Goto(c, "confirm") /\ seen' = seen
  BY <1>1 DEF Send, Ended
<1>3. pc'[c] = "confirm"
  BY <1>0, <1>2 DEF Goto, CommandType
<1> QED  BY <1>0, <1>2, <1>3 DEF Current, AfterList

\* A command that rests and is let alone knows what it knew of a chain that is what it was.
LEMMA RestingCurrent ==
    ASSUME NEW d \in Commands, Current(d), Resting(d), UNCHANGED Read
    PROVE  Current(d)'
BY DEF Current, Resting, Read, IsUpdatedForCurrEpoch

\* A step that ends a process leaves nothing to be current.
LEMMA EndedStep ==
    ASSUME TypeInv, ProcessInv, NEW c \in Commands,
           UpdateFails(c) \/ Crash(c) \/ CommitTx(c) \/ AbortTx(c) \/ LoseTx(c)
    PROVE  pc'[c] \notin Alive
<1>0. CommandType /\ ProcessOf(c)
  BY DEF TypeInv, ProcessInv
<1>1. ASSUME NEW how \in Ended, End(c, how)
      PROVE  pc'[c] \notin Alive
  BY <1>0, <1>1 DEF End, Goto, CommandType, Ended, Alive
<1> QED  BY <1>1 DEF UpdateFails, Crash, CommitTx, AbortTx, LoseTx, Ended

\* Every step keeps what the commands that are let alone have read true.
LEMMA AloneStep == TypeInv /\ ProcessInv /\ AloneInv /\ [Next]_vars => AloneInv'
<1> SUFFICES ASSUME TypeInv, ProcessInv, AloneInv, [Next]_vars, NEW d \in Commands,
                    undisturbed'[d], pc'[d] \in Alive
             PROVE  Current(d)'
  BY DEF AloneInv
<1>1. undisturbed[d] /\ pc[d] \in Alive => Current(d)
  BY DEF AloneInv
<1>2. ASSUME NEW c \in Commands, StepOf(c), d # c
      PROVE  Current(d)'
  <2>1. Resting(d) /\ undisturbed[d] /\ UNCHANGED Read
    BY <1>2, StepOther
  <2>2. Current(d)
    BY <1>1, <2>1 DEF Resting
  <2> QED  BY <2>1, <2>2, RestingCurrent
<1>3. CASE StepOf(d)
  <2>1. CASE FetchPool(d) \/ FetchList(d) \/ FindSeed(d) \/ FetchClock(d)
    BY <1>1, <2>1, ReadCurrent
  <2>2. CASE Update(d)
    <3>1. pc[d] \in Alive /\ undisturbed[d]
      BY <2>2 DEF Update, Disturb, Alive
    <3> QED  BY <1>1, <2>2, <3>1, UpdateCurrent
  <2>3. CASE Send(d)
    <3>1. pc[d] \in Alive /\ undisturbed[d]
      BY <2>3 DEF Send, Alive
    <3> QED  BY <1>1, <2>3, <3>1, SendCurrent
  <2>4. CASE UpdateFails(d) \/ Crash(d) \/ CommitTx(d) \/ AbortTx(d) \/ LoseTx(d)
    BY <2>4, EndedStep
  <2> QED  BY <1>3, <2>1, <2>2, <2>3, <2>4 DEF StepOf, Step, Runtime
<1>4. CASE World
  BY <1>4 DEF World, AdvanceEpoch, OtherCrank, OtherUser, Prefer, RemoveValidator, NotTheWallet
<1>5. CASE UNCHANGED vars
  <2>1. Resting(d) /\ undisturbed' = undisturbed /\ UNCHANGED Read
    BY <1>5 DEF vars, chain, commands, Resting, Read
  <2>2. Current(d)
    BY <1>1, <2>1 DEF Resting
  <2> QED  BY <2>1, <2>2, RestingCurrent
<1>6. ASSUME NEW t \in late, LandLate(t) \/ DropLate(t)
      PROVE  Current(d)'
  <2>1. DropLate(t)
    BY <1>6 DEF LandLate
  <2>2. Resting(d) /\ undisturbed' = undisturbed /\ UNCHANGED Read
    BY <2>1 DEF DropLate, commands, Resting, Read
  <2>3. Current(d)
    BY <1>1, <2>2 DEF Resting
  <2> QED  BY <2>2, <2>3, RestingCurrent
<1> QED  BY <1>2, <1>3, <1>4, <1>5, <1>6 DEF Next, StepOf

-----------------------------------------------------------------------------
(* The theorems.                                                           *)

\* All of it together.
Invariant == TypeInv /\ ProcessInv /\ AloneInv

\* It holds of every state of every behaviour.
LEMMA InvariantHolds == Spec => []Invariant
<1>1. Init => Invariant
  <2> SUFFICES ASSUME Init PROVE ProcessInv /\ AloneInv
    BY InitType DEF Invariant
  <2>1. ASSUME NEW c \in Commands
        PROVE  pc[c] = "idle" /\ seen[c] = NothingSeen /\ tx[c] = None
    BY DEF Init
  <2> QED  BY <2>1 DEF ProcessInv, ProcessOf, AloneInv, Alive
<1>2. Invariant /\ [Next]_vars => Invariant'
  BY TypeStep, ProcessStep, AloneStep DEF Invariant
<1> QED  BY <1>1, <1>2, PTL DEF Spec

\* Whatever the requests and whoever interferes, every variable keeps its type: no token and no
\* stake is spent twice, however the commands of a wallet cross.
THEOREM TypeCorrect == Spec => []TypeOK
<1>1. Invariant => TypeOK
  BY DEF Invariant, TypeInv, ChainType, CommandType, TypeOK
<1> QED  BY <1>1, InvariantHolds, PTL

\* The transaction of a command that is let alone is accepted, or fails of what is not foreseen.
LEMMA CurrentAccepted ==
    ASSUME Invariant, NEW c \in Commands, pc[c] = "confirm", undisturbed[c]
    PROVE  Accepts(tx[c]) \/ NotForeseen(tx[c])
<1> DEFINE t == tx[c]
           r == request[c]
           s == seen[c]
<1>1. ChainType /\ CommandType /\ ProcessOf(c) /\ Current(c)
  BY DEF Invariant, TypeInv, ProcessInv, AloneInv, Alive
<1>2. r \in Request /\ s \in SeenType /\ s.pool \in Pool
  BY <1>1 DEF ProcessOf, CommandType, Alive
<1>3. r.kind \in Kinds /\ r.account \in Tokens /\ s.amt \in Nat
  BY <1>2, RequestIs, SeenIs
<1>4. t.kind = r.kind /\ t.account = r.account /\ t.createAta = s.noAccount /\ t.amt = s.amt
      /\ t.vote = s.vote /\ t.seed = s.seed
  BY <1>1 DEF ProcessOf, Transaction
<1>5. pool.epoch = epoch /\ (s.noAccount => r.account = "ata")
  BY <1>1 DEF Current
<1> HIDE DEF t, r, s
<1>6. CASE r.kind = "deposit-sol"
  <2>1. (s.noAccount <=> tokens[r.account] = None) /\ pool.solAuthority # "other"
    BY <1>1, <1>6 DEF Current, AfterList, r, s
  <2>2. pool.solAuthority \in {None, "wallet"}
    BY <1>1, <2>1 DEF ChainType, Pool, Authority
  <2>3. t.amt > 0 \/ t.amt = 0
    BY <1>3, <1>4
  <2> QED  BY <1>4, <1>5, <1>6, <2>1, <2>2, <2>3 DEF Accepts, NotForeseen, t
<1>7. CASE r.kind = "deposit-stake"
  <2>1. /\ s.noAccount <=> tokens["ata"] = None
        /\ stake # None /\ pool.preferredDeposit \in {None, s.vote}
    BY <1>1, <1>7 DEF Current, AfterList, r, s
  <2>2. pool.stakeAuthority \in {None, "wallet"} \/ pool.stakeAuthority = "other"
    BY <1>1 DEF ChainType, Pool, Authority
  <2> QED  BY <1>4, <1>5, <1>7, <2>1, <2>2 DEF Accepts, NotForeseen, t
<1>8. CASE r.kind = "withdraw-stake"
  <2>1. /\ tokens[r.account] # None /\ tokens[r.account] >= s.amt /\ s.seed \notin splits
        /\ s.pool.preferredWithdraw = pool.preferredWithdraw
    BY <1>1, <1>8 DEF Current, AfterList, r, s
  <2>2. s.vote # None /\ s.vote = Source(r, s.pool, s.list)
    BY <1>1, <1>8 DEF ProcessOf, AfterList, Alive, r, s
  <2>3. pool.preferredWithdraw \in {None, s.vote}
    BY <2>1, <2>2 DEF Source
  <2>4. t.amt > 0 \/ t.amt = 0
    BY <1>3, <1>4
  <2> QED  BY <1>4, <1>5, <1>8, <2>1, <2>3, <2>4 DEF Accepts, NotForeseen, t
<1> QED  BY <1>3, <1>6, <1>7, <1>8 DEF Kinds

\* A command that nobody interferes with, though it decides on copies made before its update,
\* sends a transaction that the programs accept, except for what it does not foresee.
THEOREM UndisturbedCorrect == Spec => []UndisturbedCommandSucceeds
<1>1. Invariant => UndisturbedCommandSucceeds
  BY CurrentAccepted DEF UndisturbedCommandSucceeds
<1> QED  BY <1>1, InvariantHolds, PTL

\* Of the validators of an updated pool the one with the most stake is withdrawn from.
LEMMA CurrentLargest ==
    ASSUME Invariant, NEW c \in Commands, pc[c] = "confirm", request[c].kind = "withdraw-stake",
           undisturbed[c], request[c].validator = None, pool.preferredWithdraw = None,
           IsUpdatedForCurrEpoch(seen[c]), NEW i \in DOMAIN list
    PROVE  list[i].active <= EntryOf(list, seen[c].vote).active
<1>1. ProcessOf(c) /\ Current(c) /\ list \in Seq(Entry) /\ DistinctVotes(list)
  BY DEF Invariant, TypeInv, ChainType, ProcessInv, AloneInv, Alive
<1>2. list = seen[c].list /\ seen[c].pool.preferredWithdraw = None
      /\ request[c].validator = None
  BY <1>1 DEF Current, AfterList
<1>3. list # <<>>
  BY <1>1
<1>4. seen[c].vote = Largest(list)
  <2>1. seen[c].vote = Source(request[c], seen[c].pool, seen[c].list)
    BY <1>1 DEF ProcessOf, AfterList, Alive
  <2>2. ~Has(list, None)
    BY <1>1, EntryIs, UserConstants DEF Has
  <2>3. Source(request[c], seen[c].pool, list) = Largest(list)
    BY <1>2, <1>3, <2>2 DEF Source
  <2> QED  BY <1>2, <2>1, <2>3
<1>5. PICK k \in DOMAIN list : Largest(list) = list[k].vote
                               /\ \A j \in DOMAIN list : list[j].active <= list[k].active
  BY <1>1, <1>3, LargestIs
<1>6. EntryOf(list, seen[c].vote) = list[k]
  BY <1>1, <1>4, <1>5, EntryOfIs
<1> QED  BY <1>5, <1>6

\* A withdrawal with no validator named is from the largest, if the pool was up to date.
THEOREM LargestCorrect == Spec => []LargestIfUpdated
<1>1. Invariant => LargestIfUpdated
  BY CurrentLargest DEF LargestIfUpdated
<1> QED  BY <1>1, InvariantHolds, PTL

=============================================================================
