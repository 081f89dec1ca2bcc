----------------------------- MODULE FoldLemmas -----------------------------
(***************************************************************************)
(* Facts about FoldLeft, and with it about what is done to a sequence from *)
(* its first element to its last.  The induction they need is drawn from   *)
(* the well-foundedness of the natural numbers, as a fact about sets of    *)
(* numbers.                                                                *)
(***************************************************************************)
EXTENDS Selection, Integers, Sequences, SequencesExt, WellFoundedInduction, TLAPS

-----------------------------------------------------------------------------
(* Induction over sets of numbers.                                         *)

\* A set of numbers has a least element.
LEMMA LeastElement ==
    ASSUME NEW T, T \subseteq Nat, T # {}
    PROVE  \E x \in T : \A y \in T : x <= y
<1> DEFINE R == {s \in Nat \X Nat : s[1] < s[2]}
<1>1. IsWellFoundedOn(R, Nat)
  <2>1. OpToRel(<, Nat) = R
    BY DEF OpToRel
  <2> QED  BY <2>1, NatLessThanWellFounded
<1>2. ASSUME NEW x \in Nat, NEW y \in Nat, <<y, x>> \notin R
      PROVE  x <= y
  <2>1. <<y, x>> \in Nat \X Nat /\ <<y, x>>[1] = y /\ <<y, x>>[2] = x
    OBVIOUS
  <2>2. ~(y < x)
    BY <1>2, <2>1
  <2> QED  BY <2>2
<1> HIDE DEF R
<1>3. \E x \in T : \A y \in T : <<y, x>> \notin R
  BY <1>1, WFMin
<1> QED  BY <1>2, <1>3

\* What holds of 0, and of every number up to n whose predecessor it holds of, holds up to n.
LEMMA Induction ==
    ASSUME NEW n \in Nat, NEW T, 0 \in T, \A i \in 1 .. n : i - 1 \in T => i \in T
    PROVE  0 .. n \subseteq T
<1> SUFFICES ASSUME (0 .. n) \ T # {}
             PROVE  FALSE
  OBVIOUS
<1>1. PICK x \in (0 .. n) \ T : \A y \in (0 .. n) \ T : x <= y
  <2> DEFINE U == (0 .. n) \ T
  <2>1. U \subseteq Nat /\ U # {}
    OBVIOUS
  <2> HIDE DEF U
  <2>2. \E x \in U : \A y \in U : x <= y
    BY <2>1, LeastElement
  <2> QED  BY <2>2 DEF U
<1>2. x - 1 \in T /\ x \in 1 .. n
  BY <1>1
<1> QED  BY <1>1, <1>2

-----------------------------------------------------------------------------
(* The recursion behind FoldLeft.                                          *)

\* A set of positions has a largest one.
LEMMA MaxInRange ==
    ASSUME NEW n \in Nat, NEW T \in SUBSET (1 .. n), T # {}
    PROVE  Max(T) \in T /\ \A y \in T : Max(T) >= y
<1> DEFINE U == {n - y : y \in T}
<1>1. U \subseteq Nat /\ U # {}
  <2>1. \A y \in T : y \in Int /\ y <= n
    OBVIOUS
  <2>2. \A y \in T : n - y \in Nat
    BY <2>1
  <2> QED  BY <2>2
<1>2. PICK x \in U : \A y \in U : x <= y
  <2> HIDE DEF U
  <2> QED  BY <1>1, LeastElement
<1>3. \E z \in T : \A y \in T : z >= y
  <2>1. PICK z \in T : x = n - z
    BY <1>2
  <2>2. \A y \in T : n - z <= n - y
    BY <1>2, <2>1
  <2>3. \A y \in T : z >= y
    BY <2>2
  <2> QED  BY <2>3
<1> QED  BY <1>3 DEF Max

\* The largest of the first numbers.
LEMMA MaxOfRange ==
    ASSUME NEW i \in Nat \ {0}
    PROVE  Max(1 .. i) = i /\ (1 .. i) \ {Max(1 .. i)} = 1 .. (i - 1) /\ 1 .. i # {}
<1>1. \A x \in 1 .. i : (\A y \in 1 .. i : x >= y) <=> x = i
  OBVIOUS
<1>2. Max(1 .. i) = i
  BY <1>1 DEF Max
<1> QED  BY <1>2

\* Step i of n takes values of A to values of A.
StepsWithin(G, n, A) == n \in Nat /\ G \in [1 .. n -> [A -> A]]

\* c folds the steps over every set of positions, as MapThenFoldSet does.
FoldsSets(c, n, A, b, G) ==
    /\ c \in [SUBSET (1 .. n) -> A]
    /\ \A s \in SUBSET (1 .. n) : c[s] = IF s = {} THEN b ELSE G[Max(s)][c[s \ {Max(s)}]]

\* So does d with the first positions.
FoldsPrefixes(d, n, A, b, G) ==
    /\ d[{}] = b
    /\ \A i \in 1 .. n : d[1 .. (i - 1)] \in A => d[1 .. i] = G[i][d[1 .. (i - 1)]]

\* What the steps make of b one after another.
IsRun(run, n, A, b, G) ==
    /\ run \in [0 .. n -> A] /\ run[0] = b
    /\ \A i \in 1 .. n : run[i] = G[i][run[i - 1]]

\* A run ends in z.
RunsTo(z, n, A, b, G) == \E run : IsRun(run, n, A, b, G) /\ z = run[n]

\* Steps that stay within A can be folded over every set of positions.
LEMMA FoldExists ==
    ASSUME NEW n, NEW A, NEW b \in A, NEW G, StepsWithin(G, n, A)
    PROVE  \E c : FoldsSets(c, n, A, b, G)
<1> USE DEF StepsWithin
<1> DEFINE Folds(c, k) ==
             \A s \in SUBSET (1 .. k) :
                c[s] = IF s = {} THEN b ELSE G[Max(s)][c[s \ {Max(s)}]]
           T == {k \in 0 .. n : \E c \in [SUBSET (1 .. k) -> A] : Folds(c, k)}
<1>1. 0 \in T
  <2> DEFINE c == [s \in SUBSET (1 .. 0) |-> b]
  <2>1. c \in [SUBSET (1 .. 0) -> A] /\ Folds(c, 0)
    OBVIOUS
  <2> HIDE DEF c, Folds
  <2>2. \E e \in [SUBSET (1 .. 0) -> A] : Folds(e, 0)
    BY <2>1, Zenon
  <2>3. 0 \in 0 .. n
    OBVIOUS
  <2> QED  BY <2>2, <2>3, Zenon
<1>2. ASSUME NEW i \in 1 .. n, i - 1 \in T
      PROVE  i \in T
  <2> DEFINE k == i - 1
  <2>1. PICK c \in [SUBSET (1 .. k) -> A] : Folds(c, k)
    BY <1>2
  <2> DEFINE d == [s \in SUBSET (1 .. i) |-> IF i \in s THEN G[i][c[s \ {i}]] ELSE c[s]]
  <2>2. \A s \in SUBSET (1 .. i) : s \ {i} \in SUBSET (1 .. k)
    OBVIOUS
  <2>3. d \in [SUBSET (1 .. i) -> A]
    <3>1. ASSUME NEW s \in SUBSET (1 .. i)
          PROVE  (IF i \in s THEN G[i][c[s \ {i}]] ELSE c[s]) \in A
      <4>1. CASE i \in s
        BY <2>2, <4>1
      <4>2. CASE i \notin s
        BY <2>2, <4>2
      <4> QED  BY <4>1, <4>2
    <3> QED  BY <3>1
  <2>4. ASSUME NEW s \in SUBSET (1 .. i)
        PROVE  d[s] = IF s = {} THEN b ELSE G[Max(s)][d[s \ {Max(s)}]]
    <3>1. CASE i \in s
      <4>1. \A x \in s : (\A y \in s : x >= y) <=> x = i
        BY <3>1
      <4>2. Max(s) = i
        BY <3>1, <4>1 DEF Max
      <4>3. d[s \ {i}] = c[s \ {i}]
        BY <2>2
      <4> QED  BY <3>1, <4>2, <4>3
    <3>2. CASE i \notin s
      <4>1. s \in SUBSET (1 .. k)
        BY <3>2
      <4>2. d[s] = c[s]
        BY <3>2
      <4>3. s \ {Max(s)} \in SUBSET (1 .. k) /\ i \notin s \ {Max(s)}
        BY <3>2, <4>1
      <4>4. d[s \ {Max(s)}] = c[s \ {Max(s)}]
        BY <4>3
      <4> QED  BY <2>1, <4>1, <4>2, <4>4
    <3> QED  BY <3>1, <3>2
  <2>5. Folds(d, i)
    BY <2>4
  <2> HIDE DEF d, Folds
  <2> QED  BY <2>3, <2>5
<1>3. 0 .. n \subseteq T
  <2> HIDE DEF T
  <2> QED  BY <1>1, <1>2, Induction
<1>4. n \in T
  <2> HIDE DEF T
  <2> QED  BY <1>3
<1> QED  BY <1>4 DEF FoldsSets

\* What such a function makes of the first positions is what the steps make one after another.
LEMMA FoldRun ==
    ASSUME NEW n, NEW A, NEW b \in A, NEW G, NEW d,
           StepsWithin(G, n, A), FoldsPrefixes(d, n, A, b, G)
    PROVE  RunsTo(d[1 .. n], n, A, b, G)
<1> USE DEF StepsWithin, FoldsPrefixes
<1> DEFINE T == {i \in 0 .. n : d[1 .. i] \in A}
           run == [i \in 0 .. n |-> d[1 .. i]]
<1>1. d[1 .. 0] = b
  <2>1. 1 .. 0 = {}
    OBVIOUS
  <2> QED  BY <2>1
<1>2. 0 .. n \subseteq T
  <2>1. 0 \in T
    BY <1>1
  <2>2. ASSUME NEW i \in 1 .. n, i - 1 \in T
        PROVE  i \in T
    BY <2>2
  <2> HIDE DEF T
  <2> QED  BY <2>1, <2>2, Induction
<1>3. run \in [0 .. n -> A]
  BY <1>2
<1>4. \A i \in 1 .. n : run[i] = G[i][run[i - 1]]
  BY <1>2
<1>5. run[0] = b /\ d[1 .. n] = run[n]
  BY <1>1
<1>6. IsRun(run, n, A, b, G)
  BY <1>3, <1>4, <1>5 DEF IsRun
<1> HIDE DEF run
<1> QED  BY <1>5, <1>6 DEF RunsTo

\* What is folded over every set of positions is folded one position after another.
LEMMA FoldedRun ==
    ASSUME NEW n, NEW A, NEW b \in A, NEW G, NEW f,
           StepsWithin(G, n, A), FoldsSets(f, n, A, b, G)
    PROVE  \E run : IsRun(run, n, A, b, G)
<1> USE DEF StepsWithin
<1>1. f[{}] = b
  BY DEF FoldsSets
<1>2. ASSUME NEW i \in 1 .. n
      PROVE  f[1 .. i] = G[i][f[1 .. (i - 1)]]
  <2>1. Max(1 .. i) = i /\ (1 .. i) \ {Max(1 .. i)} = 1 .. (i - 1) /\ 1 .. i # {}
    <3>1. i \in Nat \ {0}
      BY <1>2
    <3> QED  BY <3>1, MaxOfRange
  <2>2. 1 .. i \in SUBSET (1 .. n)
    BY <1>2
  <2> QED  BY <2>1, <2>2 DEF FoldsSets
<1>3. FoldsPrefixes(f, n, A, b, G)
  BY <1>1, <1>2 DEF FoldsPrefixes
<1> QED  BY <1>3, FoldRun DEF RunsTo

-----------------------------------------------------------------------------
(* Selections.                                                             *)

\* Selecting from a sequence goes element by element.
Selecting(run, S, s, T) ==
    /\ run \in [0 .. Len(s) -> Seq(S)]
    /\ run[0] = <<>> /\ Select(s, T) = run[Len(s)]
    /\ \A i \in 1 .. Len(s) :
          run[i] = IF s[i] \in T THEN Append(run[i - 1], s[i]) ELSE run[i - 1]

\* A selection can be followed from element to element.
LEMMA SelectRun ==
    ASSUME NEW S, NEW s \in Seq(S), NEW T
    PROVE  \E run : Selecting(run, S, s, T)
<1> DEFINE n == Len(s)
           Op(kept, e) == IF e \in T THEN Append(kept, e) ELSE kept
           G == [i \in 1 .. n |-> [a \in Seq(S) |-> Op(a, s[i])]]
           P(c) == c = [i \in 0 .. n |->
                          IF i = 0 THEN <<>>
                          ELSE IF s[i] \in T THEN Append(c[i - 1], s[i]) ELSE c[i - 1]]
           d == CHOOSE c : P(c)
<1>1. n \in Nat /\ DOMAIN s = 1 .. n /\ <<>> \in Seq(S) /\ \A i \in 1 .. n : s[i] \in S
  OBVIOUS
<1>2. StepsWithin(G, n, Seq(S))
  BY <1>1 DEF StepsWithin
<1>3. Select(s, T) = d[n]
  BY DEF Select
<1>4. \E c : P(c)
  <2>1. \A i \in 1 .. n : \A a \in Seq(S) : G[i][a] = Op(a, s[i])
    OBVIOUS
  <2> HIDE DEF G, n
  <2>2. PICK f : FoldsSets(f, n, Seq(S), <<>>, G)
    BY <1>1, <1>2, FoldExists
  <2>3. PICK c : IsRun(c, n, Seq(S), <<>>, G)
    BY <1>1, <1>2, <2>2, FoldedRun
  <2>4. c \in [0 .. n -> Seq(S)] /\ c[0] = <<>> /\ \A i \in 1 .. n : c[i] = Op(c[i - 1], s[i])
    <3>1. ASSUME NEW i \in 1 .. n
          PROVE  c[i] = Op(c[i - 1], s[i])
      <4>1. i - 1 \in 0 .. n /\ c[i] = G[i][c[i - 1]] /\ c \in [0 .. n -> Seq(S)]
        BY <1>1, <2>3 DEF IsRun
      <4> QED  BY <2>1, <4>1
    <3> QED  BY <2>3, <3>1 DEF IsRun
  <2> DEFINE e == [i \in 0 .. n |->
                     IF i = 0 THEN <<>>
                     ELSE IF s[i] \in T THEN Append(c[i - 1], s[i]) ELSE c[i - 1]]
  <2>5. ASSUME NEW i \in 0 .. n
        PROVE  c[i] = e[i]
    <3>1. CASE i = 0
      BY <2>4, <3>1
    <3>2. CASE i # 0
      <4>1. i \in 1 .. n
        BY <1>1, <3>2
      <4> QED  BY <2>4, <3>2, <4>1
    <3> QED  BY <3>1, <3>2
  <2>6. c = e
    <3> HIDE DEF e
    <3>1. c = [i \in 0 .. n |-> c[i]]
      BY <2>4
    <3>2. e = [i \in 0 .. n |-> e[i]]
      BY DEF e
    <3> QED  BY <2>5, <3>1, <3>2
  <2> QED  BY <2>6, Zenon
<1>5. P(d)
  BY <1>4, Zenon
<1> HIDE DEF d, G
<1>6. /\ DOMAIN d = 0 .. n /\ d = [i \in 0 .. n |-> d[i]]
      /\ d[0] = <<>> /\ \A i \in 1 .. n : d[i] = Op(d[i - 1], s[i])
  <2> HIDE DEF n
  <2>1. ASSUME NEW e, P(e)
        PROVE  DOMAIN e = 0 .. n /\ e = [i \in 0 .. n |-> e[i]]
    BY <2>1
  <2>2. \A i \in 0 .. n : d[i] = IF i = 0 THEN <<>> ELSE Op(d[i - 1], s[i])
    BY <1>5, Zenon
  <2>3. 0 \in 0 .. n /\ \A i \in 1 .. n : i \in 0 .. n /\ i # 0
    BY <1>1
  <2> HIDE DEF Op
  <2> QED  BY <1>5, <2>1, <2>2, <2>3
<1>7. d \in [0 .. n -> Seq(S)]
  <2> DEFINE U == {i \in 0 .. n : d[i] \in Seq(S)}
  <2> HIDE DEF n
  <2>1. 0 \in U
    BY <1>1, <1>6
  <2>2. ASSUME NEW i \in 1 .. n, i - 1 \in U
        PROVE  i \in U
    <3>1. d[i - 1] \in Seq(S) /\ s[i] \in S /\ i \in 0 .. n
      BY <1>1, <2>2
    <3>2. d[i] = Op(d[i - 1], s[i])
      BY <1>6
    <3>3. ASSUME NEW kept \in Seq(S), NEW e \in S
          PROVE  Op(kept, e) \in Seq(S)
      BY <3>3
    <3> HIDE DEF Op, P
    <3>4. d[i] \in Seq(S)
      BY <3>1, <3>2, <3>3
    <3> QED  BY <3>1, <3>4
  <2>3. 0 .. n \subseteq U
    <3> HIDE DEF U, n
    <3> QED  BY <1>1, <2>1, <2>2, Induction
  <2>4. \A i \in 0 .. n : d[i] \in Seq(S)
    BY <2>3
  <2> QED  BY <1>6, <2>4
<1>8. Selecting(d, S, s, T)
  BY <1>3, <1>6, <1>7 DEF Selecting
<1> QED  BY <1>8

\* r is what T selects of the first m elements of s: element j of r is element h[j] of s.
Embeds(h, r, s, T, m) ==
    /\ Len(r) <= m /\ h \in [1 .. Len(r) -> 1 .. m]
    /\ \A j \in 1 .. Len(r) : r[j] = s[h[j]] /\ r[j] \in T
    /\ \A j, k \in 1 .. Len(r) : j < k => h[j] < h[k]
    /\ \A i \in 1 .. m : s[i] \in T => \E j \in 1 .. Len(r) : h[j] = i

\* A selection keeps what is selected, nothing else, and the order.
LEMMA SelectEmbeds ==
    ASSUME NEW S, NEW s \in Seq(S), NEW T
    PROVE  /\ Select(s, T) \in Seq(S)
           /\ \E h : Embeds(h, Select(s, T), s, T, Len(s))
<1>0. PICK run : Selecting(run, S, s, T)
  BY SelectRun
<1>1. /\ run \in [0 .. Len(s) -> Seq(S)]
      /\ run[0] = <<>> /\ Select(s, T) = run[Len(s)]
      /\ \A i \in 1 .. Len(s) :
            run[i] = IF s[i] \in T THEN Append(run[i - 1], s[i]) ELSE run[i - 1]
  BY <1>0 DEF Selecting
<1> DEFINE Good(m) == \E h : Embeds(h, run[m], s, T, m)
           U == {m \in 0 .. Len(s) : Good(m)}
<1>2. Len(s) \in Nat /\ \A i \in 1 .. Len(s) : s[i] \in S
  OBVIOUS
<1>3. 0 \in U
  <2>1. Embeds(<<>>, run[0], s, T, 0)
    BY <1>1 DEF Embeds
  <2> QED  BY <1>2, <2>1
<1>4. ASSUME NEW m \in 1 .. Len(s), m - 1 \in U
      PROVE  m \in U
  <2> DEFINE q == run[m - 1]
             r == run[m]
  <2>1. PICK h : Embeds(h, q, s, T, m - 1)
    BY <1>4
  <2>2. q \in Seq(S) /\ r \in Seq(S) /\ s[m] \in S
    <3>1. m - 1 \in 0 .. Len(s) /\ m \in 0 .. Len(s)
      BY <1>2
    <3> QED  BY <1>1, <1>2, <3>1
  <2>3. CASE s[m] \in T
    <3> DEFINE g == [j \in 1 .. Len(r) |-> IF j = Len(r) THEN m ELSE h[j]]
    <3>1. r = Append(q, s[m])
      BY <1>1, <2>3
    <3> HIDE DEF q, r
    <3>2. Len(r) = Len(q) + 1 /\ Len(q) \in Nat /\ r[Len(r)] = s[m]
          /\ \A j \in 1 .. Len(q) : r[j] = q[j]
      BY <2>2, <3>1
    <3>3. \A j \in 1 .. Len(r) : j # Len(r) => j \in 1 .. Len(q)
      BY <3>2
    <3>4. Len(r) <= m /\ g \in [1 .. Len(r) -> 1 .. m]
      BY <1>2, <2>1, <3>2, <3>3 DEF Embeds
    <3>5. \A j \in 1 .. Len(r) : r[j] = s[g[j]] /\ r[j] \in T
      BY <2>1, <2>3, <3>2, <3>3 DEF Embeds
    <3>6. \A j, k \in 1 .. Len(r) : j < k => g[j] < g[k]
      <4> SUFFICES ASSUME NEW j \in 1 .. Len(r), NEW k \in 1 .. Len(r), j < k
                   PROVE  g[j] < g[k]
        OBVIOUS
      <4>1. j \in 1 .. Len(q) /\ h[j] \in 1 .. (m - 1) /\ g[j] = h[j]
        BY <2>1, <3>2, <3>3 DEF Embeds
      <4>2. CASE k = Len(r)
        BY <1>2, <4>1, <4>2
      <4>3. CASE k # Len(r)
        <5>1. k \in 1 .. Len(q)
          BY <2>1, <3>3, <4>3
        <5>2. h[j] < h[k]
          BY <2>1, <4>1, <5>1 DEF Embeds
        <5> QED  BY <3>3, <4>1, <4>3, <5>1, <5>2
      <4> QED  BY <4>2, <4>3
    <3>7. \A i \in 1 .. m : s[i] \in T => \E j \in 1 .. Len(r) : g[j] = i
      <4> SUFFICES ASSUME NEW i \in 1 .. m, s[i] \in T
                   PROVE  \E j \in 1 .. Len(r) : g[j] = i
        OBVIOUS
      <4>1. CASE i = m
        BY <3>2, <4>1
      <4>2. CASE i # m
        <5>1. PICK j \in 1 .. Len(q) : h[j] = i
          BY <1>2, <2>1, <4>2 DEF Embeds
        <5> QED  BY <3>2, <5>1
      <4> QED  BY <4>1, <4>2
    <3>8. Embeds(g, r, s, T, m)
      BY <3>4, <3>5, <3>6, <3>7 DEF Embeds
    <3> QED  BY <3>8 DEF r
  <2>4. CASE s[m] \notin T
    <3>1. r = q
      BY <1>1, <2>4
    <3>2. Embeds(h, q, s, T, m)
      <4> HIDE DEF q
      <4>1. Len(q) \in Nat
        BY <2>2
      <4> QED  BY <1>2, <2>1, <2>4, <4>1 DEF Embeds
    <3> QED  BY <3>1, <3>2
  <2> QED  BY <2>3, <2>4
<1>5. 0 .. Len(s) \subseteq U
  <2> HIDE DEF U
  <2> QED  BY <1>2, <1>3, <1>4, Induction
<1>6. Good(Len(s))
  <2> HIDE DEF Good
  <2> QED  BY <1>2, <1>5
<1> QED  BY <1>1, <1>2, <1>6

=============================================================================
