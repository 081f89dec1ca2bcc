------------------------ MODULE PoolSettings_proofs ------------------------
(***************************************************************************)
(* Lemmas about PoolSettings, for any keys and fees: what a changeset      *)
(* holds, and what the transaction made of it does to the settings.        *)
(***************************************************************************)
EXTENDS PoolSettings, FoldLemmas

-----------------------------------------------------------------------------
(* The changeset.                                                          *)

\* The changes there are.
LEMMA OrderIs ==
    /\ Len(Order) = 13 /\ Order \in Seq(Changes)
    /\ \A i \in 1 .. 13 : Order[i].kind = "Manager" <=> i = 13
    /\ Changes = {Change("Auth", a) : a \in FundingTypes} \cup {Change("Fee", f) : f \in FeeTypes}
                 \cup {Change("Staker", ""), Change("FeeAccount", ""), Change("Manager", "")}
<1>1. Len(Order) = 13 /\ DOMAIN Order = 1 .. 13
  BY DEF Order
<1>2. /\ Order[1] = Change("Auth", "StakeDeposit") /\ Order[2] = Change("Auth", "SolDeposit")
      /\ Order[3] = Change("Auth", "SolWithdraw") /\ Order[4] = Change("Fee", "Epoch")
      /\ Order[5] = Change("Fee", "SolWithdrawal") /\ Order[6] = Change("Fee", "StakeWithdrawal")
      /\ Order[7] = Change("Fee", "SolDeposit") /\ Order[8] = Change("Fee", "SolReferral")
      /\ Order[9] = Change("Fee", "StakeDeposit") /\ Order[10] = Change("Fee", "StakeReferral")
      /\ Order[11] = Change("Staker", "") /\ Order[12] = Change("FeeAccount", "")
      /\ Order[13] = Change("Manager", "")
  BY DEF Order
<1>3. \A i \in 1 .. 13 : \/ i = 1 \/ i = 2 \/ i = 3 \/ i = 4 \/ i = 5 \/ i = 6 \/ i = 7
                         \/ i = 8 \/ i = 9 \/ i = 10 \/ i = 11 \/ i = 12 \/ i = 13
  OBVIOUS
<1>4. Changes = {Order[i] : i \in 1 .. 13}
  BY <1>1 DEF Changes
<1>5. Order \in Seq(Changes)
  <2>1. Order = [i \in 1 .. 13 |-> Order[i]]
    BY DEF Order
  <2>2. \A i \in 1 .. 13 : Order[i] \in Changes
    BY <1>4
  <2>3. \A s : s = [i \in 1 .. 13 |-> s[i]] /\ (\A i \in 1 .. 13 : s[i] \in Changes)
                  => s \in Seq(Changes)
    OBVIOUS
  <2> QED  BY <2>1, <2>2, <2>3
<1>6. \A i \in 1 .. 13 : Order[i].kind = "Manager" <=> i = 13
  <2> SUFFICES ASSUME NEW i \in 1 .. 13
               PROVE  Order[i].kind = "Manager" <=> i = 13
    OBVIOUS
  <2>1. CASE i \in {1, 2, 3}
    <3>1. PICK w : Order[i] = Change("Auth", w)
      BY <1>2, <2>1
    <3> QED  BY <2>1, <3>1 DEF Change
  <2>2. CASE i \in {4, 5, 6, 7, 8, 9, 10}
    <3>1. PICK w : Order[i] = Change("Fee", w)
      BY <1>2, <2>2
    <3> QED  BY <2>2, <3>1 DEF Change
  <2>3. CASE i = 11
    <3>1. PICK w : Order[i] = Change("Staker", w)
      BY <1>2, <2>3
    <3> QED  BY <2>3, <3>1 DEF Change
  <2>4. CASE i = 12
    <3>1. PICK w : Order[i] = Change("FeeAccount", w)
      BY <1>2, <2>4
    <3> QED  BY <2>4, <3>1 DEF Change
  <2>5. CASE i = 13
    <3>1. PICK w : Order[i] = Change("Manager", w)
      BY <1>2, <2>5
    <3> QED  BY <2>5, <3>1 DEF Change
  <2> QED  BY <1>3, <2>1, <2>2, <2>3, <2>4, <2>5
<1>8. \A i \in {1, 2, 3, 4, 5, 6, 7, 8, 9, 10, 11, 12, 13} : Order[i] \in Changes
  BY <1>4
<1>7. Changes = {Change("Auth", a) : a \in FundingTypes} \cup {Change("Fee", f) : f \in FeeTypes}
                 \cup {Change("Staker", ""), Change("FeeAccount", ""), Change("Manager", "")}
  <2>1. ASSUME NEW c \in Changes
        PROVE  \/ \E a \in FundingTypes : c = Change("Auth", a)
               \/ \E f \in FeeTypes : c = Change("Fee", f)
               \/ c \in {Change("Staker", ""), Change("FeeAccount", ""), Change("Manager", "")}
    <3>1. PICK i \in 1 .. 13 : c = Order[i]
      BY <1>4
    <3>2. CASE i \in {1, 2, 3}
      BY <1>2, <3>1, <3>2 DEF FundingTypes
    <3>3. CASE i \in {4, 5, 6, 7, 8, 9, 10}
      BY <1>2, <3>1, <3>3 DEF FeeTypes, DelayedFees, WithdrawalFees
    <3>4. CASE i \in {11, 12, 13}
      BY <1>2, <3>1, <3>4
    <3> QED  BY <1>3, <3>2, <3>3, <3>4
  <2>2. \A a \in FundingTypes : Change("Auth", a) \in Changes
    BY <1>2, <1>8 DEF FundingTypes
  <2>3. \A f \in FeeTypes : Change("Fee", f) \in Changes
    BY <1>2, <1>8 DEF FeeTypes, DelayedFees, WithdrawalFees
  <2>4. {Change("Staker", ""), Change("FeeAccount", ""), Change("Manager", "")} \subseteq Changes
    BY <1>2, <1>8
  <2> QED  BY <2>1, <2>2, <2>3, <2>4
<1> QED  BY <1>1, <1>5, <1>6, <1>7

\* What can be said of a change: what it is for.
LEMMA ChangeIs ==
    ASSUME NEW c \in Changes
    PROVE  \/ c.kind = "Auth" /\ c.what \in FundingTypes
           \/ c.kind = "Fee" /\ c.what \in FeeTypes
           \/ c.kind \in {"Staker", "FeeAccount", "Manager"} /\ c.what = ""
<1>1. CASE \E a \in FundingTypes : c = Change("Auth", a)
  BY <1>1 DEF Change
<1>2. CASE \E f \in FeeTypes : c = Change("Fee", f)
  BY <1>2 DEF Change
<1>3. CASE c = Change("Staker", "")
  BY <1>3 DEF Change
<1>4. CASE c = Change("FeeAccount", "")
  BY <1>4 DEF Change
<1>5. CASE c = Change("Manager", "")
  BY <1>5 DEF Change
<1> QED  BY <1>1, <1>2, <1>3, <1>4, <1>5, OrderIs

\* A changeset holds what has to change, nothing else, and the manager last.
LEMMA ChangesetIs ==
    ASSUME NEW t, NEW p
    PROVE  LET cs == Changeset(t, p)
           IN  /\ cs \in Seq(Changes) /\ Len(cs) <= 13
               /\ \A j \in 1 .. Len(cs) : Needs(t, p, cs[j])
               /\ \A c \in Changes : Needs(t, p, c) => \E j \in 1 .. Len(cs) : cs[j] = c
               /\ \A j \in 1 .. Len(cs) : cs[j].kind = "Manager" => j = Len(cs)
<1> DEFINE T == {c \in Changes : Needs(t, p, c)}
           cs == Changeset(t, p)
<1>1. cs = Select(Order, T)
  BY DEF Changeset
<1>2. Order \in Seq(Changes) /\ Len(Order) = 13
      /\ \A i \in 1 .. 13 : Order[i].kind = "Manager" <=> i = 13
  BY OrderIs
<1> HIDE DEF cs, T
<1>3. cs \in Seq(Changes) /\ \E h : Embeds(h, cs, Order, T, 13)
  BY <1>1, <1>2, SelectEmbeds
<1>4. PICK h : Embeds(h, cs, Order, T, 13)
  BY <1>3
<1>5. /\ Len(cs) <= 13 /\ Len(cs) \in Nat /\ h \in [1 .. Len(cs) -> 1 .. 13]
      /\ \A j \in 1 .. Len(cs) : cs[j] = Order[h[j]] /\ cs[j] \in T
      /\ \A j, k \in 1 .. Len(cs) : j < k => h[j] < h[k]
      /\ \A i \in 1 .. 13 : Order[i] \in T => \E j \in 1 .. Len(cs) : h[j] = i
  BY <1>3, <1>4 DEF Embeds
<1>6. ASSUME NEW c \in Changes, Needs(t, p, c)
      PROVE  \E j \in 1 .. Len(cs) : cs[j] = c
  <2>1. PICK i \in 1 .. 13 : c = Order[i]
    BY <1>2 DEF Changes
  <2>2. c \in T
    BY <1>6 DEF T
  <2>3. \E j \in 1 .. Len(cs) : h[j] = i
    BY <1>5, <2>1, <2>2
  <2> QED  BY <1>5, <2>1, <2>3
<1>7. ASSUME NEW j \in 1 .. Len(cs), cs[j].kind = "Manager"
      PROVE  j = Len(cs)
  <2>1. h[j] = 13
    BY <1>2, <1>5, <1>7
  <2>2. SUFFICES ASSUME j < Len(cs)
                 PROVE  FALSE
    BY <1>5
  <2>3. h[j] < h[Len(cs)] /\ h[Len(cs)] \in 1 .. 13
    BY <1>5, <2>2
  <2> QED  BY <2>1, <2>3
<1> QED  BY <1>3, <1>5, <1>6, <1>7 DEF cs, T

-----------------------------------------------------------------------------
(* One change.                                                             *)

\* The settings a change leaves, field by field.
LEMMA PerformIs ==
    ASSUME NEW p \in Settings, NEW signer \in Keys, NEW t \in Target, NEW c \in Changes
    PROVE  LET r == Perform(p, signer, t, c)
           IN  /\ r \in Settings
               /\ r.staker = IF c.kind = "Staker" THEN t.staker ELSE p.staker
               /\ r.manager = CASE c.kind = "Manager"    -> t.manager
                                [] c.kind = "FeeAccount" -> signer
                                [] OTHER                 -> p.manager
               /\ r.feeAccount = IF c.kind \in {"FeeAccount", "Manager"} THEN t.feeAccount
                                 ELSE p.feeAccount
               /\ \A a \in FundingTypes :
                     Authority(r, a) = IF c.kind = "Auth" /\ c.what = a THEN Authority(t, a)
                                       ELSE Authority(p, a)
               /\ \A f \in FeeTypes :
                     IF c.kind = "Fee" /\ c.what = f
                     THEN /\ Coming(r, f) = t.fee[f]
                          /\ f \in DelayedFees => r.fee[f] = p.fee[f]
                     ELSE Coming(r, f) = Coming(p, f) /\ r.fee[f] = p.fee[f]
<1> DEFINE r == Perform(p, signer, t, c)
<1>0. /\ p.auth \in [FundingTypes -> Keys \cup {None, DefaultAuth}]
      /\ p.fee \in [FeeTypes -> Fees] /\ p.next \in [DelayedFees -> FutureFee]
      /\ t.auth \in [FundingTypes -> Keys \cup {None, DefaultAuth}] /\ t.fee \in [FeeTypes -> Fees]
      /\ t.manager \in Keys /\ t.staker \in Keys /\ t.feeAccount \in Keys
      /\ DefaultAuth # None /\ None \notin Fees
  BY SettingsConstants DEF Settings, Target
<1>1. CASE c.kind = "Auth" /\ c.what \in FundingTypes
  <2> DEFINE x == IF c.what = "StakeDeposit" /\ FilterDefault(t.auth[c.what]) = None
                  THEN DefaultAuth ELSE t.auth[c.what]
             auth == [p.auth EXCEPT ![c.what] = x]
  <2>1. r = [p EXCEPT !.auth = auth]
    BY <1>1 DEF Perform
  <2>2. x \in Keys \cup {None, DefaultAuth}
    BY <1>0, <1>1
  <2>3. auth \in [FundingTypes -> Keys \cup {None, DefaultAuth}]
        /\ \A a \in FundingTypes : auth[a] = IF a = c.what THEN x ELSE p.auth[a]
    BY <1>0, <2>2
  <2> HIDE DEF auth, r
  <2>4. /\ r \in Settings /\ r.auth = auth /\ r.staker = p.staker /\ r.manager = p.manager
        /\ r.feeAccount = p.feeAccount /\ r.fee = p.fee /\ r.next = p.next
    BY <2>1, <2>3 DEF Settings
  <2>5. ASSUME NEW a \in FundingTypes
        PROVE  Authority(r, a) = IF c.what = a THEN Authority(t, a) ELSE Authority(p, a)
    BY <1>0, <2>3, <2>4 DEF Authority, FilterDefault
  <2>6. \A f \in FeeTypes : Coming(r, f) = Coming(p, f) /\ r.fee[f] = p.fee[f]
    BY <2>4 DEF Coming
  <2> QED  BY <1>1, <2>4, <2>5, <2>6 DEF r
<1>2. CASE c.kind = "Fee" /\ c.what \in FeeTypes /\ c.what \in DelayedFees
  <2> DEFINE x == [epochs |-> 2, fee |-> t.fee[c.what]]
             next == [p.next EXCEPT ![c.what] = x]
  <2>1. r = [p EXCEPT !.next = next]
    BY <1>2 DEF Perform
  <2>2. x \in FutureFee /\ x # NotPending /\ x.fee = t.fee[c.what]
    BY <1>0, <1>2 DEF FutureFee, NotPending
  <2> HIDE DEF x
  <2>3. next \in [DelayedFees -> FutureFee]
        /\ \A f \in DelayedFees : next[f] = IF f = c.what THEN x ELSE p.next[f]
    BY <1>0, <2>2
  <2> HIDE DEF next, r
  <2>4. /\ r \in Settings /\ r.auth = p.auth /\ r.staker = p.staker /\ r.manager = p.manager
        /\ r.feeAccount = p.feeAccount /\ r.fee = p.fee /\ r.next = next
    BY <2>1, <2>3 DEF Settings
  <2>5. ASSUME NEW f \in FeeTypes
        PROVE  Coming(r, f) = IF c.what = f THEN t.fee[f] ELSE Coming(p, f)
    BY <1>2, <2>2, <2>3, <2>4 DEF Coming
  <2>6. \A a \in FundingTypes : Authority(r, a) = Authority(p, a)
    BY <2>4 DEF Authority
  <2> QED  BY <1>2, <2>4, <2>5, <2>6 DEF r
<1>3. CASE c.kind = "Fee" /\ c.what \in FeeTypes /\ c.what \notin DelayedFees
  <2> DEFINE fee == [p.fee EXCEPT ![c.what] = t.fee[c.what]]
  <2>1. r = [p EXCEPT !.fee = fee]
    BY <1>3 DEF Perform
  <2>2. fee \in [FeeTypes -> Fees]
        /\ \A f \in FeeTypes : fee[f] = IF f = c.what THEN t.fee[c.what] ELSE p.fee[f]
    BY <1>0, <1>3
  <2> HIDE DEF fee, r
  <2>3. /\ r \in Settings /\ r.auth = p.auth /\ r.staker = p.staker /\ r.manager = p.manager
        /\ r.feeAccount = p.feeAccount /\ r.fee = fee /\ r.next = p.next
    BY <2>1, <2>2 DEF Settings
  <2>4. ASSUME NEW f \in FeeTypes
        PROVE  Coming(r, f) = IF c.what = f THEN t.fee[f] ELSE Coming(p, f)
    BY <1>3, <2>2, <2>3 DEF Coming
  <2>5. \A a \in FundingTypes : Authority(r, a) = Authority(p, a)
    BY <2>3 DEF Authority
  <2> QED  BY <1>3, <2>2, <2>3, <2>4, <2>5 DEF r
<1>4. ASSUME c.kind \in {"Staker", "FeeAccount", "Manager"}
      PROVE  /\ r \in Settings /\ r.auth = p.auth /\ r.fee = p.fee /\ r.next = p.next
             /\ r.staker = IF c.kind = "Staker" THEN t.staker ELSE p.staker
             /\ r.manager = CASE c.kind = "Manager"    -> t.manager
                              [] c.kind = "FeeAccount" -> signer
                              [] OTHER                 -> p.manager
             /\ r.feeAccount = IF c.kind \in {"FeeAccount", "Manager"} THEN t.feeAccount
                               ELSE p.feeAccount
  <2>1. CASE c.kind = "Staker"
    BY <1>0, <2>1 DEF Perform, Settings
  <2>2. CASE c.kind = "FeeAccount"
    BY <1>0, <2>2 DEF Perform, Settings
  <2>3. CASE c.kind = "Manager"
    BY <1>0, <2>3 DEF Perform, Settings
  <2> QED  BY <1>4, <2>1, <2>2, <2>3
<1>5. CASE c.kind \in {"Staker", "FeeAccount", "Manager"}
  <2> HIDE DEF r
  <2>1. \A a \in FundingTypes : Authority(r, a) = Authority(p, a)
    BY <1>4, <1>5 DEF Authority
  <2>2. \A f \in FeeTypes : Coming(r, f) = Coming(p, f)
    BY <1>4, <1>5 DEF Coming
  <2> QED  BY <1>4, <1>5, <2>1, <2>2 DEF r
<1> QED  BY <1>1, <1>2, <1>3, <1>5, ChangeIs

-----------------------------------------------------------------------------
(* The transaction.                                                        *)

\* What a transaction is performed on, and one change of it.
Attempt == [ok : BOOLEAN, settings : Settings]
PerformOne(e, p, signer, u, t, c) ==
    IF e.ok /\ Permits(e.settings, signer, u, t, c)
    THEN [ok |-> TRUE, settings |-> Perform(e.settings, signer, t, c)]
    ELSE [ok |-> FALSE, settings |-> p]

\* A transaction is performed change by change.
Performing(run, p, signer, u, t, cs) ==
    /\ run \in [0 .. Len(cs) -> Attempt]
    /\ run[0] = [ok |-> TRUE, settings |-> p] /\ PerformAll(p, signer, u, t, cs) = run[Len(cs)]
    /\ \A i \in 1 .. Len(cs) : run[i] = PerformOne(run[i - 1], p, signer, u, t, cs[i])

\* A change leaves an attempt.
LEMMA PerformOneType ==
    ASSUME NEW p \in Settings, NEW signer \in Keys, NEW u, NEW t \in Target, NEW c \in Changes,
           NEW e \in Attempt
    PROVE  PerformOne(e, p, signer, u, t, c) \in Attempt
<1>1. Perform(e.settings, signer, t, c) \in Settings
  BY PerformIs DEF Attempt
<1> QED  BY <1>1 DEF PerformOne, Attempt

\* A transaction can be followed from change to change.
LEMMA PerformRun ==
    ASSUME NEW p \in Settings, NEW signer \in Keys, NEW u, NEW t \in Target, NEW cs \in Seq(Changes)
    PROVE  \E run : Performing(run, p, signer, u, t, cs)
<1> DEFINE n == Len(cs)
           b == [ok |-> TRUE, settings |-> p]
           G == [i \in 1 .. n |-> [e \in Attempt |-> PerformOne(e, p, signer, u, t, cs[i])]]
           P(c) == c = [ps \in SUBSET DOMAIN cs |->
                          IF ps = {} THEN b
                          ELSE PerformOne(c[ps \ {Max(ps)}], p, signer, u, t, cs[Max(ps)])]
           d == CHOOSE c : P(c)
<1>1. n \in Nat /\ DOMAIN cs = 1 .. n /\ \A i \in 1 .. n : cs[i] \in Changes
  OBVIOUS
<1>2. b \in Attempt
  BY DEF Attempt
<1>3. G \in [1 .. n -> [Attempt -> Attempt]]
  BY <1>1, PerformOneType
<1>4. PerformAll(p, signer, u, t, cs) = d[DOMAIN cs]
  BY DEF PerformAll, PerformOne, FoldLeft, MapThenFoldSet
<1>5. \E c : P(c)
  <2> HIDE DEF G, n, b
  <2>1. PICK c : FoldsSets(c, n, Attempt, b, G)
    BY <1>1, <1>2, <1>3, FoldExists DEF StepsWithin
  <2>2. ASSUME NEW ps \in SUBSET (1 .. n), ps # {}
        PROVE  /\ c[ps \ {Max(ps)}] \in Attempt
               /\ G[Max(ps)][c[ps \ {Max(ps)}]]
                     = PerformOne(c[ps \ {Max(ps)}], p, signer, u, t, cs[Max(ps)])
    <3>1. Max(ps) \in 1 .. n
      BY <1>1, <2>2, MaxInRange
    <3>2. c[ps \ {Max(ps)}] \in Attempt
      BY <2>1 DEF FoldsSets
    <3> QED  BY <3>1, <3>2 DEF G
  <2>3. c = [ps \in SUBSET (1 .. n) |->
               IF ps = {} THEN b
               ELSE PerformOne(c[ps \ {Max(ps)}], p, signer, u, t, cs[Max(ps)])]
    BY <2>1, <2>2 DEF FoldsSets
  <2> QED  BY <1>1, <2>3
<1>6. P(d)
  BY <1>5, Zenon
<1>7. FoldsPrefixes(d, n, Attempt, b, G)
  <2>1. d[{}] = b
    BY <1>6
  <2>2. ASSUME NEW i \in 1 .. n, d[1 .. (i - 1)] \in Attempt
        PROVE  d[1 .. i] = G[i][d[1 .. (i - 1)]]
    <3>1. Max(1 .. i) = i /\ (1 .. i) \ {Max(1 .. i)} = 1 .. (i - 1) /\ 1 .. i # {}
      BY <1>1, MaxOfRange
    <3>2. 1 .. i \in SUBSET DOMAIN cs
      BY <1>1
    <3>3. d[1 .. i] = PerformOne(d[1 .. (i - 1)], p, signer, u, t, cs[i])
      <4> HIDE DEF d
      <4> QED  BY <1>6, <3>1, <3>2
    <3>4. \A e \in Attempt : G[i][e] = PerformOne(e, p, signer, u, t, cs[i])
      OBVIOUS
    <3> HIDE DEF d, G
    <3> QED  BY <2>2, <3>3, <3>4
  <2> HIDE DEF d, G, b
  <2> QED  BY <2>1, <2>2 DEF FoldsPrefixes
<1> HIDE DEF d, b
<1>8. PICK run : IsRun(run, n, Attempt, b, G) /\ d[1 .. n] = run[n]
  <2>1. StepsWithin(G, n, Attempt)
    BY <1>1, <1>3 DEF StepsWithin
  <2> HIDE DEF G, n
  <2>2. RunsTo(d[1 .. n], n, Attempt, b, G)
    BY <1>2, <1>7, <2>1, FoldRun
  <2> QED  BY <2>2 DEF RunsTo
<1>9. \A i \in 1 .. n : run[i] = PerformOne(run[i - 1], p, signer, u, t, cs[i])
  <2> SUFFICES ASSUME NEW i \in 1 .. n
               PROVE  run[i] = PerformOne(run[i - 1], p, signer, u, t, cs[i])
    OBVIOUS
  <2>1. run[i - 1] \in Attempt /\ run[i] = G[i][run[i - 1]]
    <3> HIDE DEF G, n
    <3>1. i - 1 \in 0 .. n
      BY <1>1
    <3> QED  BY <1>8, <3>1 DEF IsRun
  <2>2. \A e \in Attempt : G[i][e] = PerformOne(e, p, signer, u, t, cs[i])
    OBVIOUS
  <2> HIDE DEF G
  <2> QED  BY <2>1, <2>2
<1>10. run \in [0 .. n -> Attempt] /\ run[0] = b /\ PerformAll(p, signer, u, t, cs) = run[n]
  BY <1>1, <1>4, <1>8 DEF IsRun
<1> HIDE DEF G
<1>11. Performing(run, p, signer, u, t, cs)
  BY <1>9, <1>10 DEF Performing, b
<1> QED  BY <1>11

\* The first k changes have been made, one after another.
Made(s, k, p, signer, u, t, cs) ==
    /\ s \in [0 .. k -> Settings] /\ s[0] = p
    /\ \A i \in 1 .. k : /\ Permits(s[i - 1], signer, u, t, cs[i])
                         /\ s[i] = Perform(s[i - 1], signer, t, cs[i])

\* Of the first i changes k have been made, which are all or all that are permitted, and e is
\* what has come of it.
Reached(s, k, i, e, p, signer, u, t, cs) ==
    /\ k \in 0 .. i /\ Made(s, k, p, signer, u, t, cs)
    /\ \/ k = i /\ e = [ok |-> TRUE, settings |-> s[k]]
       \/ /\ k < i /\ ~Permits(s[k], signer, u, t, cs[k + 1])
          /\ e = [ok |-> FALSE, settings |-> p]

\* A transaction makes all of its changes, or as many as it can until one is not permitted.
LEMMA PerformAllIs ==
    ASSUME NEW p \in Settings, NEW signer \in Keys, NEW u, NEW t \in Target, NEW cs \in Seq(Changes)
    PROVE  \E s, k : Reached(s, k, Len(cs), PerformAll(p, signer, u, t, cs), p, signer, u, t, cs)
<1>1. PICK run : Performing(run, p, signer, u, t, cs)
  BY PerformRun
<1> DEFINE n == Len(cs)
           Up(i) == \E s, k : Reached(s, k, i, run[i], p, signer, u, t, cs)
           T == {i \in 0 .. n : Up(i)}
<1>2. /\ n \in Nat /\ run[0] = [ok |-> TRUE, settings |-> p]
      /\ PerformAll(p, signer, u, t, cs) = run[n] /\ \A i \in 1 .. n : cs[i] \in Changes
      /\ \A i \in 1 .. n : run[i] = PerformOne(run[i - 1], p, signer, u, t, cs[i])
  BY <1>1 DEF Performing
<1> HIDE DEF n
<1>3. 0 \in T
  <2> DEFINE s == [i \in 0 .. 0 |-> p]
  <2>1. Made(s, 0, p, signer, u, t, cs) /\ s[0] = p
    BY DEF Made
  <2> HIDE DEF s
  <2>3. Reached(s, 0, 0, run[0], p, signer, u, t, cs)
    BY <1>2, <2>1 DEF Reached
  <2>2. Up(0)
    BY <2>3
  <2> QED  BY <1>2, <2>2
<1>4. ASSUME NEW i \in 1 .. n, i - 1 \in T
      PROVE  i \in T
  <2>0. PICK s, k : Reached(s, k, i - 1, run[i - 1], p, signer, u, t, cs)
    BY <1>4
  <2>1. /\ k \in 0 .. (i - 1) /\ Made(s, k, p, signer, u, t, cs)
        /\ \/ k = i - 1 /\ run[i - 1] = [ok |-> TRUE, settings |-> s[k]]
           \/ /\ k < i - 1 /\ ~Permits(s[k], signer, u, t, cs[k + 1])
              /\ run[i - 1] = [ok |-> FALSE, settings |-> p]
    BY <2>0 DEF Reached
  <2>2. run[i] = PerformOne(run[i - 1], p, signer, u, t, cs[i]) /\ cs[i] \in Changes
    BY <1>2
  <2>3. CASE /\ k = i - 1 /\ run[i - 1] = [ok |-> TRUE, settings |-> s[k]]
             /\ Permits(s[k], signer, u, t, cs[i])
    <3> DEFINE r == Perform(s[k], signer, t, cs[i])
               v == [j \in 0 .. i |-> IF j = i THEN r ELSE s[j]]
    <3>1. r \in Settings
      BY <2>1, <2>2, <2>3, PerformIs DEF Made
    <3>2. run[i] = [ok |-> TRUE, settings |-> r]
      BY <2>2, <2>3 DEF PerformOne
    <3> HIDE DEF r
    <3>3. v \in [0 .. i -> Settings] /\ v[0] = p
      BY <1>2, <2>1, <2>3, <3>1 DEF Made
    <3>5. v[i] = r
      BY <1>2
    <3>4. ASSUME NEW j \in 1 .. i
          PROVE  Permits(v[j - 1], signer, u, t, cs[j]) /\ v[j] = Perform(v[j - 1], signer, t, cs[j])
      <4>1. v[j - 1] = s[j - 1]
        BY <1>2
      <4>2. CASE j = i
        <5>1. v[j - 1] = s[k] /\ v[j] = r
          BY <1>2, <2>3, <3>5, <4>1, <4>2
        <5> HIDE DEF v
        <5> QED  BY <2>3, <4>2, <5>1 DEF r
      <4>3. CASE j # i
        <5>1. j \in 1 .. k /\ v[j] = s[j]
          BY <1>2, <2>3, <4>3
        <5> QED  BY <2>1, <4>1, <5>1 DEF Made
      <4> QED  BY <4>2, <4>3
    <3> HIDE DEF v
    <3>6. Made(v, i, p, signer, u, t, cs)
      BY <3>3, <3>4 DEF Made
    <3>7. Reached(v, i, i, run[i], p, signer, u, t, cs)
      BY <1>2, <3>2, <3>5, <3>6 DEF Reached
    <3>8. Up(i)
      BY <3>7
    <3> QED  BY <1>2, <3>8
  <2>4. CASE /\ k = i - 1 /\ run[i - 1] = [ok |-> TRUE, settings |-> s[k]]
             /\ ~Permits(s[k], signer, u, t, cs[i])
    <3>1. run[i] = [ok |-> FALSE, settings |-> p]
      BY <2>2, <2>4 DEF PerformOne
    <3>2. k \in 0 .. i /\ k < i /\ k + 1 = i
      BY <1>2, <2>4
    <3>3. Reached(s, k, i, run[i], p, signer, u, t, cs)
      BY <1>2, <2>1, <2>4, <3>1, <3>2 DEF Reached
    <3>4. Up(i)
      BY <3>3
    <3> QED  BY <1>2, <3>4
  <2>5. CASE /\ k < i - 1 /\ ~Permits(s[k], signer, u, t, cs[k + 1])
             /\ run[i - 1] = [ok |-> FALSE, settings |-> p]
    <3>1. run[i] = [ok |-> FALSE, settings |-> p]
      BY <2>2, <2>5 DEF PerformOne
    <3>2. k \in 0 .. i /\ k < i
      BY <1>2, <2>1, <2>5
    <3>3. Reached(s, k, i, run[i], p, signer, u, t, cs)
      BY <1>2, <2>1, <2>5, <3>1, <3>2 DEF Reached
    <3>4. Up(i)
      BY <3>3
    <3> QED  BY <1>2, <3>4
  <2> QED  BY <2>1, <2>3, <2>4, <2>5
<1>5. 0 .. n \subseteq T
  <2> HIDE DEF T
  <2> QED  BY <1>2, <1>3, <1>4, Induction
<1>6. Up(n)
  <2> HIDE DEF Up
  <2> QED  BY <1>2, <1>5
<1> QED  BY <1>2, <1>6 DEF n

\* One of the first k changes is of this kind and, for what it is about, of this.
Has(cs, k, kind, what) == \E j \in 1 .. k : cs[j].kind = kind /\ cs[j].what = what

\* The settings r are those of p but for the first k changes, which make them those of t.
Changed(r, k, p, t, cs) ==
    /\ r \in Settings
    /\ r.staker  = IF Has(cs, k, "Staker", "") THEN t.staker ELSE p.staker
    /\ r.manager = IF Has(cs, k, "Manager", "") THEN t.manager ELSE p.manager
    /\ r.feeAccount = IF Has(cs, k, "FeeAccount", "") \/ Has(cs, k, "Manager", "")
                      THEN t.feeAccount ELSE p.feeAccount
    /\ \A a \in FundingTypes :
          Authority(r, a) = IF Has(cs, k, "Auth", a) THEN Authority(t, a) ELSE Authority(p, a)
    /\ \A f \in FeeTypes :
          /\ Coming(r, f) = IF Has(cs, k, "Fee", f) THEN t.fee[f] ELSE Coming(p, f)
          /\ f \in DelayedFees \/ ~Has(cs, k, "Fee", f) => r.fee[f] = p.fee[f]

\* What changes make of settings.
LEMMA MadeIs ==
    ASSUME NEW p \in Settings, NEW signer \in Keys, NEW u, NEW t \in Target, NEW cs \in Seq(Changes),
           NEW k \in 0 .. Len(cs), NEW s, Made(s, k, p, signer, u, t, cs)
    PROVE  Changed(s[k], k, p, t, cs) /\ (k > 0 => p.manager = signer)
<1> DEFINE T == {i \in 0 .. k : Changed(s[i], i, p, t, cs)}
<1>1. /\ k \in Nat /\ s \in [0 .. k -> Settings] /\ s[0] = p
      /\ \A i \in 1 .. k : /\ cs[i] \in Changes /\ Permits(s[i - 1], signer, u, t, cs[i])
                           /\ s[i] = Perform(s[i - 1], signer, t, cs[i])
  BY DEF Made
<1>2. 0 \in T
  <2>1. /\ ~Has(cs, 0, "Staker", "") /\ ~Has(cs, 0, "Manager", "") /\ ~Has(cs, 0, "FeeAccount", "")
        /\ \A a \in FundingTypes : ~Has(cs, 0, "Auth", a)
        /\ \A f \in FeeTypes : ~Has(cs, 0, "Fee", f)
    BY DEF Has
  <2>2. Changed(p, 0, p, t, cs)
    BY <2>1 DEF Changed
  <2> QED  BY <1>1, <2>2
<1>3. k > 0 => p.manager = signer
  <2>1. k > 0 => 1 \in 1 .. k /\ 1 - 1 = 0
    BY <1>1
  <2> QED  BY <1>1, <2>1 DEF Permits
<1>4. ASSUME NEW i \in 1 .. k, i - 1 \in T
      PROVE  i \in T
  <2> DEFINE q == s[i - 1]  r == s[i]  c == cs[i]
  <2>1. Changed(q, i - 1, p, t, cs)
    BY <1>4
  <2>2. /\ q \in Settings /\ c \in Changes /\ q.manager = signer /\ p.manager = signer
        /\ r = Perform(q, signer, t, c)
    <3>1. i - 1 \in 0 .. k /\ k > 0
      BY <1>1
    <3> QED  BY <1>1, <1>3, <3>1 DEF Permits
  <2>3. /\ r \in Settings
        /\ r.staker = IF c.kind = "Staker" THEN t.staker ELSE q.staker
        /\ r.manager = CASE c.kind = "Manager"    -> t.manager
                         [] c.kind = "FeeAccount" -> signer
                         [] OTHER                 -> q.manager
        /\ r.feeAccount = IF c.kind \in {"FeeAccount", "Manager"} THEN t.feeAccount
                          ELSE q.feeAccount
        /\ \A a \in FundingTypes :
              Authority(r, a) = IF c.kind = "Auth" /\ c.what = a THEN Authority(t, a)
                                ELSE Authority(q, a)
        /\ \A f \in FeeTypes :
              IF c.kind = "Fee" /\ c.what = f
              THEN /\ Coming(r, f) = t.fee[f]
                   /\ f \in DelayedFees => r.fee[f] = q.fee[f]
              ELSE Coming(r, f) = Coming(q, f) /\ r.fee[f] = q.fee[f]
    BY <2>2, PerformIs
  <2>4. \A kind, what : Has(cs, i, kind, what) <=>
           Has(cs, i - 1, kind, what) \/ (c.kind = kind /\ c.what = what)
    <3>1. \A j : j \in 1 .. i <=> j \in 1 .. (i - 1) \/ j = i
      BY <1>1
    <3> QED  BY <3>1 DEF Has
  <2>13. ASSUME NEW f \in FeeTypes
         PROVE  Has(cs, i, "Fee", f) <=> Has(cs, i - 1, "Fee", f) \/ (c.kind = "Fee" /\ c.what = f)
    BY <2>4
  <2>5. c.kind \in {"Staker", "FeeAccount", "Manager"} => c.what = ""
    BY <2>2, ChangeIs
  <2> HIDE DEF q, r, c
  <2>6. /\ c.kind = "Staker" <=> c.kind = "Staker" /\ c.what = ""
        /\ c.kind = "Manager" <=> c.kind = "Manager" /\ c.what = ""
        /\ c.kind = "FeeAccount" <=> c.kind = "FeeAccount" /\ c.what = ""
    BY <2>5
  <2>7. r.staker = IF Has(cs, i, "Staker", "") THEN t.staker ELSE p.staker
    BY <2>1, <2>3, <2>4, <2>6 DEF Changed
  <2>8. r.manager = IF Has(cs, i, "Manager", "") THEN t.manager ELSE p.manager
    BY <2>1, <2>2, <2>3, <2>4, <2>6 DEF Changed
  <2>9. r.feeAccount = IF Has(cs, i, "FeeAccount", "") \/ Has(cs, i, "Manager", "")
                       THEN t.feeAccount ELSE p.feeAccount
    <3>1. q.feeAccount = IF Has(cs, i - 1, "FeeAccount", "") \/ Has(cs, i - 1, "Manager", "")
                         THEN t.feeAccount ELSE p.feeAccount
      BY <2>1 DEF Changed
    <3>2. CASE c.kind = "FeeAccount"
      BY <2>3, <2>4, <2>6, <3>2
    <3>3. CASE c.kind = "Manager"
      BY <2>3, <2>4, <2>6, <3>3
    <3>4. CASE c.kind \notin {"FeeAccount", "Manager"}
      BY <2>3, <2>4, <3>1, <3>4
    <3> QED  BY <3>2, <3>3, <3>4
  <2>10. ASSUME NEW a \in FundingTypes
         PROVE  Authority(r, a) = IF Has(cs, i, "Auth", a) THEN Authority(t, a)
                                  ELSE Authority(p, a)
    BY <2>1, <2>3, <2>4 DEF Changed
  <2>11. ASSUME NEW f \in FeeTypes
         PROVE  /\ Coming(r, f) = IF Has(cs, i, "Fee", f) THEN t.fee[f] ELSE Coming(p, f)
                /\ f \in DelayedFees \/ ~Has(cs, i, "Fee", f) => r.fee[f] = p.fee[f]
    <3>1. CASE c.kind = "Fee" /\ c.what = f
      BY <2>1, <2>3, <2>13, <3>1 DEF Changed
    <3>2. CASE ~(c.kind = "Fee" /\ c.what = f)
      BY <2>1, <2>3, <2>13, <3>2 DEF Changed
    <3> QED  BY <3>1, <3>2
  <2>12. Changed(r, i, p, t, cs)
    BY <2>3, <2>7, <2>8, <2>9, <2>10, <2>11 DEF Changed
  <2> QED  BY <2>12 DEF r
<1>5. 0 .. k \subseteq T
  <2> HIDE DEF T
  <2> QED  BY <1>1, <1>2, <1>4, Induction
<1> QED  BY <1>1, <1>3, <1>5

\* When a change is needed.
LEMMA NeedsIs ==
    ASSUME NEW t, NEW p, NEW c \in Changes
    PROVE  /\ c.kind = "Auth" => (Needs(t, p, c) <=> AuthNeeds(t, p, c.what))
           /\ c.kind = "Fee" => (Needs(t, p, c) <=> FeeNeeds(t, p, c.what))
           /\ c.kind = "Staker" => (Needs(t, p, c) <=> p.staker # t.staker)
           /\ c.kind = "FeeAccount" => (Needs(t, p, c) <=> p.feeAccount # t.feeAccount)
           /\ c.kind = "Manager" => (Needs(t, p, c) <=> p.manager # t.manager)
<1>1. CASE c.kind = "Auth"
  BY <1>1 DEF Needs
<1>2. CASE c.kind = "Fee"
  BY <1>2 DEF Needs
<1>3. CASE c.kind = "Staker"
  BY <1>3 DEF Needs
<1>4. CASE c.kind = "FeeAccount"
  BY <1>4 DEF Needs
<1>5. CASE c.kind = "Manager"
  BY <1>5 DEF Needs
<1> QED  BY <1>1, <1>2, <1>3, <1>4, <1>5, ChangeIs

\* What a changeset has: exactly what differs.
LEMMA HasIs ==
    ASSUME NEW t, NEW p, NEW cs, cs = Changeset(t, p)
    PROVE  /\ \A a \in FundingTypes : Has(cs, Len(cs), "Auth", a) <=> AuthNeeds(t, p, a)
           /\ \A f \in FeeTypes : Has(cs, Len(cs), "Fee", f) <=> FeeNeeds(t, p, f)
           /\ Has(cs, Len(cs), "Staker", "") <=> p.staker # t.staker
           /\ Has(cs, Len(cs), "FeeAccount", "") <=> p.feeAccount # t.feeAccount
           /\ Has(cs, Len(cs), "Manager", "") <=> p.manager # t.manager
<1>1. /\ cs \in Seq(Changes) /\ \A j \in 1 .. Len(cs) : cs[j] \in Changes /\ Needs(t, p, cs[j])
      /\ \A c \in Changes : Needs(t, p, c) => \E j \in 1 .. Len(cs) : cs[j] = c
  BY ChangesetIs
<1>2. ASSUME NEW kind, NEW what, NEW c, c = Change(kind, what)
      PROVE  c.kind = kind /\ c.what = what
  BY <1>2 DEF Change
<1>3. ASSUME NEW kind, NEW what, Change(kind, what) \in Changes
      PROVE  Has(cs, Len(cs), kind, what) <=> Needs(t, p, Change(kind, what))
  <2>1. PICK c \in Changes : c = Change(kind, what)
    BY <1>3
  <2>2. c.kind = kind /\ c.what = what
    BY <1>2, <2>1
  <2>3. ASSUME NEW j \in 1 .. Len(cs), cs[j].kind = kind, cs[j].what = what
        PROVE  cs[j] = c
    <3>1. \A x \in Changes : x = Change(x.kind, x.what)
      <4> SUFFICES ASSUME NEW x \in Changes
                   PROVE  x = Change(x.kind, x.what)
        OBVIOUS
      <4>1. PICK k, w : x = Change(k, w)
        BY OrderIs
      <4>2. x.kind = k /\ x.what = w
        BY <1>2, <4>1
      <4> QED  BY <4>1, <4>2
    <3> QED  BY <1>1, <2>1, <2>3, <3>1
  <2> QED  BY <1>1, <2>1, <2>2, <2>3 DEF Has
<1>4. ASSUME NEW a \in FundingTypes
      PROVE  Has(cs, Len(cs), "Auth", a) <=> AuthNeeds(t, p, a)
  <2>1. PICK c \in Changes : c = Change("Auth", a)
    BY OrderIs
  <2>2. c.kind = "Auth" /\ c.what = a
    BY <1>2, <2>1
  <2> QED  BY <1>3, <2>1, <2>2, NeedsIs
<1>5. ASSUME NEW f \in FeeTypes
      PROVE  Has(cs, Len(cs), "Fee", f) <=> FeeNeeds(t, p, f)
  <2>1. PICK c \in Changes : c = Change("Fee", f)
    BY OrderIs
  <2>2. c.kind = "Fee" /\ c.what = f
    BY <1>2, <2>1
  <2> QED  BY <1>3, <2>1, <2>2, NeedsIs
<1>6. Has(cs, Len(cs), "Staker", "") <=> p.staker # t.staker
  <2>1. PICK c \in Changes : c = Change("Staker", "")
    BY OrderIs
  <2>2. c.kind = "Staker"
    BY <2>1 DEF Change
  <2> QED  BY <1>3, <2>1, <2>2, NeedsIs
<1>7. Has(cs, Len(cs), "FeeAccount", "") <=> p.feeAccount # t.feeAccount
  <2>1. PICK c \in Changes : c = Change("FeeAccount", "")
    BY OrderIs
  <2>2. c.kind = "FeeAccount"
    BY <2>1 DEF Change
  <2> QED  BY <1>3, <2>1, <2>2, NeedsIs
<1>8. Has(cs, Len(cs), "Manager", "") <=> p.manager # t.manager
  <2>1. PICK c \in Changes : c = Change("Manager", "")
    BY OrderIs
  <2>2. c.kind = "Manager"
    BY <2>1 DEF Change
  <2> QED  BY <1>3, <2>1, <2>2, NeedsIs
<1> QED  BY <1>4, <1>5, <1>6, <1>7, <1>8

-----------------------------------------------------------------------------
(* What a sync achieves.                                                   *)

\* The same settings but for the time that has passed.
Alike(p, q) ==
    /\ p.manager = q.manager /\ p.staker = q.staker /\ p.feeAccount = q.feeAccount
    /\ \A a \in FundingTypes : Authority(p, a) = Authority(q, a)
    /\ \A f \in FeeTypes : Coming(p, f) = Coming(q, f) /\ p.fee[f] \in {q.fee[f], Coming(q, f)}

\* The fees of a pool that are to come are fees.
LEMMA ComingType ==
    ASSUME NEW p \in Settings, NEW f \in FeeTypes
    PROVE  p.fee[f] \in Fees /\ Coming(p, f) \in Fees
BY DEF Settings, Coming, FutureFee, NotPending

\* A fee is the same as itself.
LEMMA SameFeeIs == ASSUME NEW f \in Fees PROVE SameFee(f, f)
<1>1. f.numerator \in Nat /\ f.denominator \in Nat
  BY SettingsConstants
<1>2. f.numerator * f.denominator \in Nat
  BY <1>1
<1>3. f.numerator * f.denominator <= f.numerator * f.denominator
  BY <1>2
<1> QED  BY <1>3 DEF SameFee, AtMost

\* A new epoch brings the fees that were to come.
LEMMA NextEpochIs ==
    ASSUME NEW p \in Settings
    PROVE  NextEpoch(p) \in Settings /\ Alike(NextEpoch(p), p)
<1> DEFINE fee  == [f \in FeeTypes |-> IF f \in DelayedFees /\ p.next[f].epochs = 1
                                       THEN p.next[f].fee ELSE p.fee[f]]
           next == [f \in DelayedFees |-> IF p.next[f].epochs = 2
                                          THEN [p.next[f] EXCEPT !.epochs = 1] ELSE NotPending]
           r == NextEpoch(p)
<1>0. /\ p.fee \in [FeeTypes -> Fees] /\ p.next \in [DelayedFees -> FutureFee]
      /\ DelayedFees \subseteq FeeTypes
  BY DEF Settings, FeeTypes
<1>1. r = [p EXCEPT !.fee = fee, !.next = next]
  BY DEF NextEpoch
<1>2. \A x \in FutureFee : /\ x.epochs = 0 => x = NotPending
                           /\ x.epochs \in {1, 2} => x.fee \in Fees /\ x # NotPending
                           /\ x.epochs \in {0, 1, 2}
  BY SettingsConstants DEF FutureFee, NotPending
<1>3. \A x \in FutureFee : x.epochs = 2 =>
         /\ [x EXCEPT !.epochs = 1] \in FutureFee /\ [x EXCEPT !.epochs = 1] # NotPending
         /\ [x EXCEPT !.epochs = 1].fee = x.fee
  BY SettingsConstants DEF FutureFee, NotPending
<1>4. fee \in [FeeTypes -> Fees]
  BY <1>0, <1>2
<1>5. next \in [DelayedFees -> FutureFee]
  BY <1>0, <1>3 DEF FutureFee
<1>6. ASSUME NEW f \in DelayedFees
      PROVE  /\ (IF next[f] # NotPending THEN next[f].fee ELSE fee[f])
                   = (IF p.next[f] # NotPending THEN p.next[f].fee ELSE p.fee[f])
             /\ fee[f] \in {p.fee[f], IF p.next[f] # NotPending THEN p.next[f].fee ELSE p.fee[f]}
  <2>1. p.next[f] \in FutureFee /\ f \in FeeTypes
    BY <1>0
  <2>2. CASE p.next[f].epochs = 0
    BY <1>2, <2>1, <2>2
  <2>3. CASE p.next[f].epochs = 1
    BY <1>2, <2>1, <2>3
  <2>4. CASE p.next[f].epochs = 2
    BY <1>2, <1>3, <2>1, <2>4
  <2> QED  BY <1>2, <2>1, <2>2, <2>3, <2>4
<1>7. \A f \in FeeTypes \ DelayedFees : fee[f] = p.fee[f]
  OBVIOUS
<1> HIDE DEF fee, next, r
<1>8. /\ r \in Settings /\ r.fee = fee /\ r.next = next /\ r.auth = p.auth
      /\ r.manager = p.manager /\ r.staker = p.staker /\ r.feeAccount = p.feeAccount
  BY <1>1, <1>4, <1>5 DEF Settings
<1>9. Alike(r, p)
  BY <1>6, <1>7, <1>8 DEF Alike, Authority, Coming
<1> QED  BY <1>8, <1>9 DEF r

\* Settings that are the target's stay so.
LEMMA AlikeSettles ==
    ASSUME NEW p, NEW q, NEW t, Alike(p, q), Settles(q, t)
    PROVE  Settles(p, t)
BY DEF Alike, Settles

\* So do those that have time passed over them.
LEMMA AlikeTrans ==
    ASSUME NEW p, NEW q, NEW r, Alike(p, q), Alike(q, r)
    PROVE  Alike(p, r)
BY DEF Alike

\* Where nothing is needed everything is as it should be, unless a fee is going away.
LEMMA UnneededSettles ==
    ASSUME NEW q \in Settings, NEW t \in Target, ~PendingAway(q, t)
    PROVE  /\ \A f \in FeeTypes : ~FeeNeeds(t, q, f) => SameFee(Coming(q, f), t.fee[f])
           /\ Changeset(t, q) = <<>> => Settles(q, t)
<1>1. ASSUME NEW f \in FeeTypes, ~FeeNeeds(t, q, f)
      PROVE  SameFee(Coming(q, f), t.fee[f])
  BY <1>1 DEF FeeNeeds, PendingAway, Coming
<1>2. ASSUME Changeset(t, q) = <<>>
      PROVE  Settles(q, t)
  <2>1. PICK cs : cs = Changeset(t, q)
    OBVIOUS
  <2>2. \A kind, what : ~Has(cs, Len(cs), kind, what)
    BY <1>2, <2>1 DEF Has
  <2>3. /\ \A a \in FundingTypes : ~AuthNeeds(t, q, a)
        /\ \A f \in FeeTypes : ~FeeNeeds(t, q, f)
        /\ q.staker = t.staker /\ q.feeAccount = t.feeAccount /\ q.manager = t.manager
    BY <2>1, <2>2, HasIs
  <2> QED  BY <1>1, <2>3 DEF Settles, AuthNeeds
<1> QED  BY <1>1, <1>2

\* A changeset that is carried out makes of the settings what was wanted, though time may have
\* passed since it was computed; what it does not concern it leaves alone.
LEMMA CarriedOut ==
    ASSUME NEW p \in Settings, NEW q \in Settings, NEW t \in Target, NEW signer \in Keys, NEW u,
           PerformAll(p, signer, u, t, Changeset(t, q)).ok
    PROVE  LET r == PerformAll(p, signer, u, t, Changeset(t, q)).settings
           IN  /\ r \in Settings
               /\ r.staker = IF q.staker # t.staker THEN t.staker ELSE p.staker
               /\ q.feeAccount = t.feeAccount /\ q.manager = t.manager
                     => r.feeAccount = p.feeAccount
               /\ \A f \in FeeTypes : ~FeeNeeds(t, q, f) =>
                     r.fee[f] = p.fee[f] /\ Coming(r, f) = Coming(p, f)
               /\ Alike(p, q) /\ ~PendingAway(q, t) => Settles(r, t)
<1> DEFINE cs == Changeset(t, q)
           r == PerformAll(p, signer, u, t, cs).settings
<1>1. cs \in Seq(Changes)
  BY ChangesetIs
<1> HIDE DEF cs
<1>2. PICK s, k : Reached(s, k, Len(cs), PerformAll(p, signer, u, t, cs), p, signer, u, t, cs)
  BY <1>1, PerformAllIs
<1>3. k = Len(cs) /\ Len(cs) \in Nat /\ Made(s, k, p, signer, u, t, cs) /\ r = s[k]
  BY <1>1, <1>2 DEF Reached, cs
<1> HIDE DEF r
<1>4. Changed(r, Len(cs), p, t, cs)
  BY <1>1, <1>3, MadeIs
<1>5. /\ \A a \in FundingTypes : Has(cs, Len(cs), "Auth", a) <=> AuthNeeds(t, q, a)
      /\ \A f \in FeeTypes : Has(cs, Len(cs), "Fee", f) <=> FeeNeeds(t, q, f)
      /\ Has(cs, Len(cs), "Staker", "") <=> q.staker # t.staker
      /\ Has(cs, Len(cs), "FeeAccount", "") <=> q.feeAccount # t.feeAccount
      /\ Has(cs, Len(cs), "Manager", "") <=> q.manager # t.manager
  BY HasIs DEF cs
<1>6. ASSUME Alike(p, q), ~PendingAway(q, t)
      PROVE  Settles(r, t)
  <2>1. r.manager = t.manager /\ r.staker = t.staker /\ r.feeAccount = t.feeAccount
    BY <1>4, <1>5, <1>6 DEF Changed, Alike
  <2>2. ASSUME NEW a \in FundingTypes
        PROVE  Authority(r, a) = Authority(t, a)
    BY <1>4, <1>5, <1>6 DEF Changed, Alike, AuthNeeds
  <2>3. ASSUME NEW f \in FeeTypes
        PROVE  SameFee(Coming(r, f), t.fee[f])
    <3>1. CASE FeeNeeds(t, q, f)
      <4>1. Coming(r, f) = t.fee[f]
        BY <1>4, <1>5, <3>1 DEF Changed
      <4> QED  BY <4>1, SameFeeIs DEF Target
    <3>2. CASE ~FeeNeeds(t, q, f)
      <4>1. Coming(r, f) = Coming(q, f)
        BY <1>4, <1>5, <1>6, <3>2 DEF Changed, Alike
      <4> QED  BY <1>6, <3>2, <4>1, UnneededSettles
    <3> QED  BY <3>1, <3>2
  <2> QED  BY <2>1, <2>2, <2>3 DEF Settles
<1>7. r.staker = IF q.staker # t.staker THEN t.staker ELSE p.staker
  BY <1>4, <1>5 DEF Changed
<1>8. q.feeAccount = t.feeAccount /\ q.manager = t.manager => r.feeAccount = p.feeAccount
  BY <1>4, <1>5 DEF Changed
<1>9. ASSUME NEW f \in FeeTypes, ~FeeNeeds(t, q, f)
      PROVE  r.fee[f] = p.fee[f] /\ Coming(r, f) = Coming(p, f)
  BY <1>4, <1>5, <1>9 DEF Changed
<1> QED  BY <1>4, <1>6, <1>7, <1>8, <1>9 DEF Changed, r, cs

\* A changeset signed by the manager is only refused for one of its fees: one above 100%, a
\* delayed one on a pool that is not updated, or a withdrawal fee that goes up too far.
LEMMA Refused ==
    ASSUME NEW p \in Settings, NEW q, NEW t \in Target, NEW u,
           ~PerformAll(p, p.manager, u, t, Changeset(t, q)).ok
    PROVE  \E f \in FeeTypes :
              /\ FeeNeeds(t, q, f)
              /\ \/ TooHigh(t.fee[f])
                 \/ f \in DelayedFees /\ ~u
                 \/ /\ f \in WithdrawalFees
                    /\ ~AtMost(t.fee[f], p.fee[f]) /\ <<p.fee[f], t.fee[f]>> \notin Raises
<1> DEFINE cs == Changeset(t, q)
<1>0. p.manager \in Keys
  BY DEF Settings
<1>1. cs \in Seq(Changes) /\ \A j \in 1 .. Len(cs) : cs[j].kind = "Manager" => j = Len(cs)
  BY ChangesetIs
<1> HIDE DEF cs
<1>2. PICK s, k : Reached(s, k, Len(cs), PerformAll(p, p.manager, u, t, cs), p, p.manager, u, t, cs)
  BY <1>0, <1>1, PerformAllIs
<1>3. /\ k \in 0 .. Len(cs) /\ Len(cs) \in Nat /\ k < Len(cs)
      /\ Made(s, k, p, p.manager, u, t, cs) /\ ~Permits(s[k], p.manager, u, t, cs[k + 1])
  BY <1>1, <1>2 DEF Reached, cs
<1>4. Changed(s[k], k, p, t, cs)
  BY <1>0, <1>1, <1>3, MadeIs
<1>5. ~Has(cs, k, "Manager", "")
  <2> SUFFICES ASSUME NEW j \in 1 .. k, cs[j].kind = "Manager"
               PROVE  FALSE
    BY DEF Has
  <2>1. j \in 1 .. Len(cs) /\ j # Len(cs)
    BY <1>3
  <2> QED  BY <1>1, <2>1
<1>6. s[k].manager = p.manager
  BY <1>4, <1>5 DEF Changed
<1> DEFINE c == cs[k + 1]
<1>7. k + 1 \in 1 .. Len(cs) /\ c \in Changes /\ Needs(t, q, c)
  <2>1. k + 1 \in 1 .. Len(cs)
    BY <1>3
  <2>2. \A j \in 1 .. Len(cs) : cs[j] \in Changes /\ Needs(t, q, cs[j])
    BY <1>1, ChangesetIs DEF cs
  <2> QED  BY <2>1, <2>2
<1>8. ~Permits(s[k], p.manager, u, t, c)
  BY <1>3
<1> HIDE DEF c
<1>9. /\ c.kind = "Fee"
      /\ \/ TooHigh(t.fee[c.what])
         \/ c.what \in DelayedFees /\ ~u
         \/ /\ c.what \in WithdrawalFees
            /\ ~AtMost(t.fee[c.what], s[k].fee[c.what])
            /\ <<s[k].fee[c.what], t.fee[c.what]>> \notin Raises
  BY <1>6, <1>8 DEF Permits
<1>10. c.what \in FeeTypes /\ FeeNeeds(t, q, c.what)
  BY <1>7, <1>9, ChangeIs, NeedsIs
<1>11. c.what \in WithdrawalFees => s[k].fee[c.what] = p.fee[c.what]
  BY <1>4 DEF Changed, FeeTypes, DelayedFees
<1> QED  BY <1>9, <1>10, <1>11

=============================================================================
