---------------------------- MODULE Detector_proofs ----------------------------
(***************************************************************************)
(* Proofs about one detection, for any people, topics, replies, likeness   *)
(* of topics and number of samples: what a step may spend, what the vote   *)
(* counts and keeps, and what the coupling check may hold back; and about  *)
(* the log of the verdicts people give on what was detected, for any bar,  *)
(* samples and number of rows: what a crash may cost, and what the report  *)
(* may say of the rows.                                                    *)
(***************************************************************************)
EXTENDS Detector, Calibration, FiniteSetTheorems, WellFoundedInduction, TLAPS

-----------------------------------------------------------------------------
(* Least numbers, and functions by recursion on an interval.               *)

LEMMA Least ==
  ASSUME NEW B \in SUBSET Nat, B # {}
  PROVE  \E n \in B : \A m \in B : n <= m
<1>1. PICK n \in B : \A m \in B : <<m, n>> \notin OpToRel(<, Nat)
  BY WFMin, NatLessThanWellFounded, Zenon
<1>2. \A m \in B : ~(m < n)
  BY <1>1 DEF OpToRel
<1>. QED  BY <1>2

LEMMA Greatest ==
  ASSUME NEW N \in Nat, NEW B \in SUBSET (1..N), B # {}
  PROVE  \E n \in B : \A m \in B : m <= n
<1>. DEFINE T == {N - i : i \in B}
<1>1. \A i \in B : i \in Nat /\ i <= N /\ N - i \in Nat
  OBVIOUS
<1>2. T \in SUBSET Nat /\ T # {}
  BY <1>1
<1>. HIDE DEF T
<1>3. PICK k \in T : \A m \in T : k <= m
  BY <1>2, Least
<1>4. PICK n \in B : k = N - n
  BY <1>3 DEF T
<1>5. \A m \in B : N - n <= N - m
  BY <1>3, <1>4 DEF T
<1>. QED  BY <1>1, <1>5

(* f starts with a and goes on as G says up to m.                          *)
Follows(f, a, G, m) == f[0] = a /\ \A n \in 1..m : f[n] = G[n][f[n - 1]]

LEMMA Recursion ==
  ASSUME NEW V, NEW N \in Nat, NEW a \in V, NEW G \in [1..N -> [V -> V]]
  PROVE  \E f \in [0..N -> V] : Follows(f, a, G, N)
<1>. DEFINE Upto(m) == \E f \in [0..m -> V] : Follows(f, a, G, m)
            Bad == {m \in Nat : m <= N /\ ~Upto(m)}
<1>1. Upto(0)
  <2>1. PICK f \in [0..0 -> V] : f = [n \in 0..0 |-> a]
    OBVIOUS
  <2>2. f[0] = a /\ 1..0 = {}
    BY <2>1
  <2>. QED  BY <2>2 DEF Follows
<1>2. ASSUME NEW m \in Nat, m < N, Upto(m)
      PROVE  Upto(m + 1)
  <2>1. PICK f \in [0..m -> V] : Follows(f, a, G, m)
    BY <1>2
  <2>2. f[m] \in V
    BY <1>2, <2>1
  <2>3. m + 1 \in 1..N
    BY <1>2
  <2>4. G[m + 1][f[m]] \in V
    BY <2>2, <2>3
  <2>. DEFINE b == G[m + 1][f[m]]
              g == [n \in 0..(m + 1) |-> IF n <= m THEN f[n] ELSE b]
  <2>. HIDE DEF b
  <2>5. g \in [0..(m + 1) -> V]
    BY <2>1, <2>4 DEF b
  <2>6. \A n \in 0..m : g[n] = f[n]
    BY <1>2
  <2>7. g[m + 1] = b
    BY <1>2
  <2>. HIDE DEF g
  <2>8. g[0] = a
    BY <1>2, <2>1, <2>6 DEF Follows
  <2>9. ASSUME NEW n \in 1..(m + 1)
        PROVE  g[n] = G[n][g[n-1]]
    <3>1. n - 1 \in 0..m
      BY <1>2
    <3>2. CASE n = m + 1
      BY <2>6, <2>7, <3>1, <3>2, <1>2 DEF b
    <3>3. CASE n # m + 1
      <4>1. n \in 1..m /\ n \in 0..m
        BY <3>3, <1>2
      <4>. QED  BY <2>1, <2>6, <3>1, <4>1 DEF Follows
    <3>. QED  BY <3>2, <3>3
  <2>. QED  BY <2>5, <2>8, <2>9 DEF Follows
<1>. HIDE DEF Upto
<1>3. Bad = {}
  <2>1. SUFFICES ASSUME Bad # {} PROVE FALSE
    OBVIOUS
  <2>2. PICK m \in Bad : \A n \in Bad : m <= n
    BY <2>1, Least
  <2>3. m # 0 /\ m - 1 \in Nat /\ m - 1 < N /\ m - 1 \notin Bad
    BY <1>1, <2>2
  <2>4. Upto(m - 1)
    BY <2>2, <2>3
  <2>5. Upto((m - 1) + 1)
    BY <1>2, <2>3, <2>4
  <2>. QED  BY <2>2, <2>5
<1>4. Upto(N)
  BY <1>3
<1>. QED  BY <1>4 DEF Upto

-----------------------------------------------------------------------------
(* Keep, and the sizes of finite sets.                                     *)

LEMMA Bounds ==
  ASSUME NEW n \in Nat, NEW B \in SUBSET (1..n)
  PROVE  IsFiniteSet(B) /\ Cardinality(B) \in 0..n /\ (B # {} => Cardinality(B) > 0)
<1>1. IsFiniteSet(1..n) /\ Cardinality(1..n) = n
  BY FS_Interval
<1>2. IsFiniteSet(B) /\ Cardinality(B) <= n
  BY <1>1, FS_Subset
<1>3. Cardinality(B) \in Nat
  BY <1>2, FS_CardinalityType
<1>. QED  BY <1>2, <1>3, FS_EmptySet

(* The places of I below one of them are in number its rank among them.    *)
Upto(I, i) == {j \in I : j <= i}

LEMMA RankOnto ==
  ASSUME NEW N \in Nat, NEW I \in SUBSET (1..N)
  PROVE  /\ \A i \in I : Cardinality(Upto(I, i)) \in 1..Cardinality(I)
         /\ \A n \in 1..Cardinality(I) : \E i \in I : Cardinality(Upto(I, i)) = n
         /\ \A i, j \in I : Cardinality(Upto(I, i)) = Cardinality(Upto(I, j)) => i = j
<1>1. IsFiniteSet(I) /\ Cardinality(I) \in Nat
  BY Bounds
<1>2. \A i \in I : Upto(I, i) \in SUBSET I /\ i \in Upto(I, i) /\ i \in Nat
  BY DEF Upto
<1>3. ASSUME NEW i \in I
      PROVE  IsFiniteSet(Upto(I, i)) /\ Cardinality(Upto(I, i)) \in 1..Cardinality(I)
  <2>1. IsFiniteSet(Upto(I, i)) /\ Cardinality(Upto(I, i)) <= Cardinality(I)
    BY <1>1, <1>2, FS_Subset
  <2>2. Upto(I, i) \in SUBSET (1..N) /\ Upto(I, i) # {}
    BY <1>2
  <2>3. Cardinality(Upto(I, i)) \in Nat /\ Cardinality(Upto(I, i)) > 0
    BY <2>2, Bounds
  <2>. QED  BY <1>1, <2>1, <2>3
<1>4. ASSUME NEW i \in I, NEW j \in I, i < j
      PROVE  Cardinality(Upto(I, i)) < Cardinality(Upto(I, j))
  <2>1. Upto(I, i) \in SUBSET Upto(I, j)
    <3>1. i \in Nat /\ j \in Nat /\ \A x \in I : x \in Nat
      BY <1>2
    <3>2. \A x \in I : x <= i => x <= j
      BY <1>4, <3>1
    <3>. QED  BY <3>2 DEF Upto
  <2>2. j \in Upto(I, j) /\ j \notin Upto(I, i)
    BY <1>2, <1>4 DEF Upto
  <2>3. Cardinality(Upto(I, i)) <= Cardinality(Upto(I, j))
        /\ Cardinality(Upto(I, j)) # Cardinality(Upto(I, i))
    BY <1>3, <2>1, <2>2, FS_Subset
  <2>4. Cardinality(Upto(I, i)) \in Nat /\ Cardinality(Upto(I, j)) \in Nat
    BY <1>3
  <2>. QED  BY <2>3, <2>4
<1>. DEFINE rank == [i \in I |-> Cardinality(Upto(I, i))]
            K == 1..Cardinality(I)
<1>5. rank \in [I -> K]
  BY <1>3
<1>6. ASSUME NEW i \in I, NEW j \in I, Cardinality(Upto(I, i)) = Cardinality(Upto(I, j))
      PROVE  i = j
  <2>1. i \in Nat /\ j \in Nat /\ Cardinality(Upto(I, i)) \in Nat
    BY <1>2, <1>3
  <2>2. ~(i < j) /\ ~(j < i)
    BY <1>4, <1>6, <2>1
  <2>. QED  BY <2>1, <2>2
<1>7. rank \in Injection(I, K)
  BY <1>5, <1>6 DEF Injection, IsInjective
<1>8. IsFiniteSet(K) /\ Cardinality(K) = Cardinality(I)
  BY <1>1, FS_Interval
<1>9. rank \in Surjection(I, K)
  <2>. HIDE DEF rank, K
  <2>. QED  BY <1>7, <1>8, FS_Injection
<1>10. \A n \in K : \E i \in I : rank[i] = n
  <2>. HIDE DEF rank, K
  <2>. QED  BY <1>9 DEF Surjection
<1>. QED  BY <1>3, <1>6, <1>10

LEMMA KeepIs ==
  ASSUME NEW S, NEW s \in Seq(S), NEW I \in SUBSET DOMAIN s
  PROVE  /\ Keep(s, I) \in Seq(S)
         /\ Len(Keep(s, I)) = Cardinality(I) /\ Cardinality(I) \in Nat
         /\ \A n \in 1..Cardinality(I) : \E i \in I : Keep(s, I)[n] = s[i]
         /\ \A i \in I : \E n \in 1..Cardinality(I) : Keep(s, I)[n] = s[i]
<1>. DEFINE place(n) == CHOOSE i \in I : Cardinality({j \in I : j <= i}) = n
            t == [n \in 1..Cardinality(I) |-> s[place(n)]]
<1>1. DOMAIN s = 1..Len(s) /\ Len(s) \in Nat
  OBVIOUS
<1>2. Cardinality(I) \in Nat
  BY <1>1, Bounds
<1>3. /\ \A i \in I : Cardinality(Upto(I, i)) \in 1..Cardinality(I)
      /\ \A n \in 1..Cardinality(I) : \E i \in I : Cardinality(Upto(I, i)) = n
      /\ \A i, j \in I : Cardinality(Upto(I, i)) = Cardinality(Upto(I, j)) => i = j
  BY <1>1, RankOnto
<1>4. \A n \in 1..Cardinality(I) : place(n) \in I /\ Cardinality(Upto(I, place(n))) = n
  BY <1>3 DEF Upto
<1>6. \A i \in I : place(Cardinality(Upto(I, i))) = i
  <2>. HIDE DEF place
  <2>. QED  BY <1>3, <1>4
<1>. HIDE DEF place
<1>7. \A n \in 1..Cardinality(I) : t[n] \in S /\ t[n] = s[place(n)]
  BY <1>4, <1>1
<1>8. t \in Seq(S) /\ Len(t) = Cardinality(I)
  BY <1>2, <1>7
<1>9. Keep(s, I) = t
  BY DEF Keep, place
<1>. HIDE DEF t
<1>. QED  BY <1>2, <1>3, <1>4, <1>6, <1>7, <1>8, <1>9

-----------------------------------------------------------------------------
(* Clusters.                                                               *)

(* Two items name the same problem; the relation is symmetric.             *)
Link(items, i, j) == SameTangle(items[i].k, items[j].k)

LEMMA LinkSymmetric == \A items, i, j : Link(items, i, j) => Link(items, j, i)
  BY DetectorAssumption DEF Link, SameTangle

(* C parts the items up to n into classes: what is linked is together, and *)
(* a class has no part of its own that is not linked to the rest.          *)
Parts(C, n) ==
  /\ \A c \in C : c \in SUBSET (1..n) /\ c # {}
  /\ \A i \in 1..n : \E c \in C : i \in c
  /\ \A c, d \in C : c \cap d # {} => c = d
ClosedIn(items, X, c) == \A i \in X, j \in c : Link(items, i, j) => j \in X
Classes(C, items, n) ==
  /\ Parts(C, n)
  /\ \A c \in C : ClosedIn(items, c, 1..n)
  /\ \A c \in C : \A X : X \subseteq c /\ X # {} /\ ClosedIn(items, X, c) => X = c

(* An item joins every class that holds one like it into one.              *)
Join(C, items, n) ==
  LET touched == {c \in C : \E i \in c : SameTangle(items[i].k, items[n].k)}
  IN (C \ touched) \cup {{n} \cup UNION touched}

LEMMA JoinClasses ==
  ASSUME NEW n \in Nat \ {0}, NEW C, NEW items, Classes(C, items, n - 1)
  PROVE  Classes(Join(C, items, n), items, n)
<1>. DEFINE touched == {c \in C : \E i \in c : Link(items, i, n)}
            t == {n} \cup UNION touched
            D == Join(C, items, n)
<1>1. D = (C \ touched) \cup {t}
  BY DEF Join, Link
<1>2. /\ \A c \in C : c \in SUBSET (1..(n - 1)) /\ c # {} /\ n \notin c /\ c \in SUBSET (1..n)
      /\ \A i \in 1..(n - 1) : \E c \in C : i \in c
      /\ \A c, d \in C : c \cap d # {} => c = d
      /\ \A c \in C : ClosedIn(items, c, 1..(n - 1))
      /\ \A c \in C : \A X : X \subseteq c /\ X # {} /\ ClosedIn(items, X, c) => X = c
  BY DEF Classes, Parts
<1>3. \A i \in 1..n : i = n \/ i \in 1..(n - 1)
  OBVIOUS
<1>. HIDE DEF D
<1>4. \A c \in C : c \in touched <=> \E i \in c : Link(items, i, n)
  OBVIOUS
<1>5. touched \subseteq C
  OBVIOUS
<1>. HIDE DEF touched
<1>6. n \in t /\ t \in SUBSET (1..n) /\ \A c \in touched : c \subseteq t
  BY <1>2, <1>5
<1>7. \A i \in t : i = n \/ \E c \in touched : i \in c
  OBVIOUS
<1>. HIDE DEF t
<1>8. \A c \in D : (c \in C /\ c \notin touched) \/ c = t
  BY <1>1
<1>9. \A c \in C : c \notin touched => c \cap t = {}
  BY <1>2, <1>5, <1>7
<1>10. Parts(D, n)
  <2>1. ASSUME NEW c \in D PROVE c \in SUBSET (1..n) /\ c # {}
    <3>1. CASE c \in C
      BY <1>2, <3>1
    <3>2. CASE c = t
      BY <1>6, <3>2
    <3>. QED  BY <1>8, <3>1, <3>2
  <2>2. ASSUME NEW i \in 1..n PROVE \E c \in D : i \in c
    <3>1. CASE i = n
      BY <1>1, <1>6, <3>1
    <3>2. CASE i # n
      <4>1. PICK c \in C : i \in c
        BY <1>2, <1>3, <3>2
      <4>. QED  BY <1>1, <1>6, <4>1
    <3>. QED  BY <3>1, <3>2
  <2>3. \A c, d \in D : c \cap d # {} => c = d
    BY <1>2, <1>8, <1>9
  <2>. QED  BY <2>1, <2>2, <2>3 DEF Parts
<1>11. ASSUME NEW c \in D PROVE ClosedIn(items, c, 1..n)
  <2>1. SUFFICES ASSUME NEW i \in c, NEW j \in 1..n, Link(items, i, j) PROVE j \in c
    BY DEF ClosedIn
  <2>2. CASE c \in C /\ c \notin touched
    <3>1. j # n
      BY <1>4, <2>1, <2>2
    <3>. QED  BY <1>2, <1>3, <2>1, <2>2, <3>1 DEF ClosedIn
  <2>3. CASE c = t
    <3>1. CASE j = n
      BY <1>6, <2>3, <3>1
    <3>2. CASE j # n
      <4>1. PICK d \in C : j \in d
        BY <1>2, <1>3, <3>2
      <4>2. d \in touched
        <5>1. CASE i = n
          BY <1>4, <2>1, <4>1, <5>1, LinkSymmetric
        <5>2. CASE i # n
          <6>1. PICK e \in touched : i \in e
            BY <1>7, <2>1, <2>3, <5>2
          <6>2. j \in e
            BY <1>2, <1>3, <1>5, <2>1, <3>2, <6>1 DEF ClosedIn
          <6>. QED  BY <1>2, <1>5, <4>1, <6>1, <6>2
        <5>. QED  BY <5>1, <5>2
      <4>. QED  BY <1>6, <2>3, <4>1, <4>2
    <3>. QED  BY <3>1, <3>2
  <2>. QED  BY <1>8, <2>2, <2>3
<1>12. ASSUME NEW c \in D, NEW X, X \subseteq c, X # {}, ClosedIn(items, X, c)
       PROVE  X = c
  <2>1. CASE c \in C /\ c \notin touched
    BY <1>2, <1>12, <2>1
  <2>2. CASE c = t
    <3>1. \A d \in touched : X \cap d # {} => d \subseteq X
      <4>1. SUFFICES ASSUME NEW d \in touched, X \cap d # {} PROVE d \subseteq X
        OBVIOUS
      <4>2. ClosedIn(items, X \cap d, d)
        BY <1>6, <1>12, <2>2, <4>1 DEF ClosedIn
      <4>3. X \cap d = d
        <5>. DEFINE Y == X \cap d
        <5>1. Y \subseteq d /\ Y # {} /\ d \in C
          BY <1>5, <4>1
        <5>. HIDE DEF Y
        <5>2. ClosedIn(items, Y, d)
          BY <4>2 DEF Y
        <5>3. Y = d
          BY <1>2, <5>1, <5>2
        <5>. QED  BY <5>3 DEF Y
      <4>. QED  BY <4>3
    <3>2. n \in X
      <4>1. SUFFICES ASSUME n \notin X PROVE FALSE
        OBVIOUS
      <4>2. PICK x \in X : TRUE
        BY <1>12
      <4>3. PICK d \in touched : x \in d
        BY <1>7, <1>12, <2>2, <4>1, <4>2
      <4>4. PICK i \in d : Link(items, i, n)
        BY <1>4, <1>5, <4>3
      <4>5. i \in X
        BY <3>1, <4>2, <4>3, <4>4
      <4>. QED  BY <1>6, <1>12, <2>2, <4>1, <4>4, <4>5 DEF ClosedIn
    <3>3. \A d \in touched : d \subseteq X
      <4>1. SUFFICES ASSUME NEW d \in touched PROVE d \subseteq X
        OBVIOUS
      <4>2. PICK i \in d : Link(items, i, n)
        BY <1>4, <1>5, <4>1
      <4>3. i \in X
        BY <1>6, <1>12, <2>2, <3>2, <4>1, <4>2, LinkSymmetric DEF ClosedIn
      <4>. QED  BY <3>1, <4>1, <4>2, <4>3
    <3>. QED  BY <1>7, <1>12, <2>2, <3>2, <3>3
  <2>. QED  BY <1>8, <2>1, <2>2
<1>. QED  BY <1>10, <1>11, <1>12 DEF Classes, D

(* An item's class, as the vote builds them one item at a time.            *)
LEMMA ClustersAreClasses ==
  ASSUME NEW S, NEW items \in Seq(S)
  PROVE  Classes(Clusters(items), items, Len(items))
<1>. DEFINE N == Len(items)
            Body(f) == [n \in 0..N |-> IF n = 0 THEN {} ELSE
              LET before  == f[n - 1]
                  touched == {c \in before : \E i \in c : SameTangle(items[i].k, items[n].k)}
              IN (before \ touched) \cup {{n} \cup UNION touched}]
            joined == CHOOSE f : f = Body(f)
            V == SUBSET SUBSET (1..N)
<1>1. N \in Nat
  OBVIOUS
<1>2. \A f, n : n \in 0..N => Body(f)[n] = IF n = 0 THEN {} ELSE Join(f[n - 1], items, n)
  BY DEF Join
<1>3. \E f : f = Body(f)
  <2>. DEFINE G == [n \in 1..N |-> [C \in V |-> Join(C, items, n)]]
  <2>1. G \in [1..N -> [V -> V]]
    BY DEF Join
  <2>2. \A n \in 1..N, C \in V : G[n][C] = Join(C, items, n)
    OBVIOUS
  <2>3. {} \in V
    OBVIOUS
  <2>. HIDE DEF G, V
  <2>4. PICK f \in [0..N -> V] : Follows(f, {}, G, N)
    BY <1>1, <2>1, <2>3, Recursion
  <2>5. \A n \in 0..N : f[n] = Body(f)[n]
    <3>1. SUFFICES ASSUME NEW n \in 0..N PROVE f[n] = Body(f)[n]
      OBVIOUS
    <3>. HIDE DEF Body
    <3>2. CASE n = 0
      BY <1>2, <2>4, <3>2 DEF Follows
    <3>3. CASE n # 0
      <4>1. n \in 1..N /\ n - 1 \in 0..N
        BY <1>1, <3>3
      <4>2. f[n] = G[n][f[n - 1]] /\ f[n - 1] \in V
        BY <2>4, <4>1 DEF Follows
      <4>. QED  BY <1>2, <2>2, <3>3, <4>1, <4>2
    <3>. QED  BY <3>2, <3>3
  <2>6. f = [n \in 0..N |-> f[n]] /\ Body(f) = [n \in 0..N |-> Body(f)[n]]
    BY <2>4
  <2>. HIDE DEF Body
  <2>. QED  BY <2>5, <2>6
<1>4. joined = Body(joined)
  BY <1>3
<1>. HIDE DEF joined
<1>5. \A n \in 0..N : joined[n] = IF n = 0 THEN {} ELSE Join(joined[n - 1], items, n)
  <2>. HIDE DEF Body
  <2>. QED  BY <1>2, <1>4
<1>6. Clusters(items) = joined[N]
  BY DEF Clusters, joined
<1>. HIDE DEF Body
<1>. DEFINE Bad == {n \in Nat : n <= N /\ ~Classes(joined[n], items, n)}
<1>7. Classes(joined[0], items, 0)
  BY <1>1, <1>5 DEF Classes, Parts
<1>8. Bad = {}
  <2>1. SUFFICES ASSUME Bad # {} PROVE FALSE
    OBVIOUS
  <2>2. PICK n \in Bad : \A m \in Bad : n <= m
    BY <2>1, Least
  <2>3. n # 0 /\ n \in 0..N /\ n - 1 \in Nat /\ n - 1 <= N /\ n - 1 \notin Bad
    BY <1>1, <1>7, <2>2
  <2>4. joined[n] = Join(joined[n - 1], items, n) /\ Classes(joined[n - 1], items, n - 1)
    BY <1>5, <2>3
  <2>. QED  BY <2>2, <2>3, <2>4, JoinClasses
<1>. QED  BY <1>1, <1>6, <1>8

(* What is reachable in one more step.                                     *)
Reach(items, X, N) == {j \in 1..N : j \in X \/ \E m \in X : Link(items, m, j)}

(* After as many steps as there are items nothing new is reached: each     *)
(* step before that reached one item more.                                 *)
LEMMA ReachableIs ==
  ASSUME NEW S, NEW items \in Seq(S), NEW i \in 1..Len(items)
  PROVE  LET R == Reachable(items, i)
             N == Len(items)
         IN /\ i \in R /\ R \in SUBSET (1..N)
            /\ ClosedIn(items, R, 1..N)
            /\ \A X : X \subseteq 1..N /\ i \in X /\ ClosedIn(items, X, 1..N) => R \subseteq X
<1>. DEFINE N == Len(items)
            Body(f) == [n \in 0..N |-> IF n = 0 THEN {i}
              ELSE LET near == f[n - 1]
                   IN {j \in DOMAIN items :
                         j \in near \/ \E m \in near : SameTangle(items[m].k, items[j].k)}]
            reach == CHOOSE f : f = Body(f)
            V == SUBSET (1..N)
<1>1. N \in Nat /\ DOMAIN items = 1..N
  OBVIOUS
<1>2. \A f, n : n \in 0..N => Body(f)[n] = IF n = 0 THEN {i} ELSE Reach(items, f[n - 1], N)
  BY <1>1 DEF Reach, Link
<1>3. \E f : f = Body(f)
  <2>. DEFINE G == [n \in 1..N |-> [X \in V |-> Reach(items, X, N)]]
  <2>1. G \in [1..N -> [V -> V]]
    BY DEF Reach
  <2>2. \A n \in 1..N, X \in V : G[n][X] = Reach(items, X, N)
    OBVIOUS
  <2>3. {i} \in V
    OBVIOUS
  <2>. HIDE DEF G, V
  <2>4. PICK f \in [0..N -> V] : Follows(f, {i}, G, N)
    BY <1>1, <2>1, <2>3, Recursion
  <2>5. \A n \in 0..N : f[n] = Body(f)[n]
    <3>1. SUFFICES ASSUME NEW n \in 0..N PROVE f[n] = Body(f)[n]
      OBVIOUS
    <3>. HIDE DEF Body
    <3>2. CASE n = 0
      BY <1>2, <2>4, <3>2 DEF Follows
    <3>3. CASE n # 0
      <4>1. n \in 1..N /\ n - 1 \in 0..N
        BY <1>1, <3>3
      <4>2. f[n] = G[n][f[n - 1]] /\ f[n - 1] \in V
        BY <2>4, <4>1 DEF Follows
      <4>. QED  BY <1>2, <2>2, <3>3, <4>1, <4>2
    <3>. QED  BY <3>2, <3>3
  <2>6. f = [n \in 0..N |-> f[n]] /\ Body(f) = [n \in 0..N |-> Body(f)[n]]
    BY <2>4
  <2>. HIDE DEF Body
  <2>. QED  BY <2>5, <2>6
<1>4. reach = Body(reach)
  BY <1>3
<1>. HIDE DEF reach
<1>5. \A n \in 0..N : reach[n] = IF n = 0 THEN {i} ELSE Reach(items, reach[n - 1], N)
  <2>. HIDE DEF Body
  <2>. QED  BY <1>2, <1>4
<1>6. Reachable(items, i) = reach[N]
  BY DEF Reachable, reach
<1>. HIDE DEF Body
<1>. DEFINE Least1(n) == \A X : X \subseteq 1..N /\ i \in X /\ ClosedIn(items, X, 1..N) => reach[n] \subseteq X
            Good(n) == /\ i \in reach[n] /\ reach[n] \in SUBSET (1..N) /\ Least1(n)
                       /\ ClosedIn(items, reach[n], 1..N) \/ Cardinality(reach[n]) >= n + 1
            Bad == {n \in Nat : n <= N /\ ~Good(n)}
<1>7. Good(0)
  <2>1. reach[0] = {i}
    BY <1>1, <1>5
  <2>2. Cardinality({i}) = 1
    BY FS_Singleton
  <2>. QED  BY <2>1, <2>2
<1>8. ASSUME NEW n \in 1..N, Good(n - 1)
      PROVE  Good(n)
  <2>. DEFINE X == reach[n - 1]
              Y == reach[n]
  <2>1. Y = Reach(items, X, N)
    BY <1>1, <1>5
  <2>2. i \in X /\ X \in SUBSET (1..N) /\ Least1(n - 1)
    BY <1>8
  <2>3. i \in Y /\ Y \in SUBSET (1..N) /\ X \subseteq Y
    BY <2>1, <2>2 DEF Reach
  <2>4. Least1(n)
    BY <2>1, <2>2 DEF Reach, ClosedIn
  <2>5. CASE ClosedIn(items, X, 1..N)
    <3>1. Y = X
      BY <2>1, <2>2, <2>5 DEF Reach, ClosedIn
    <3>. QED  BY <2>3, <2>4, <2>5, <3>1
  <2>6. CASE ~ClosedIn(items, X, 1..N)
    <3>1. Cardinality(X) >= n
      BY <1>1, <1>8, <2>6
    <3>2. X # Y
      BY <2>1, <2>6 DEF Reach, ClosedIn
    <3>3. IsFiniteSet(Y) /\ Cardinality(Y) \in Nat /\ Cardinality(X) \in Nat
      <4>. HIDE DEF X, Y
      <4>. QED  BY <1>1, <2>2, <2>3, Bounds
    <3>4. Cardinality(X) <= Cardinality(Y) /\ Cardinality(Y) # Cardinality(X)
      <4>. HIDE DEF X, Y
      <4>. QED  BY <2>3, <3>2, <3>3, FS_Subset
    <3>5. Cardinality(Y) >= n + 1
      BY <1>1, <3>1, <3>3, <3>4
    <3>. QED  BY <2>3, <2>4, <3>5
  <2>. QED  BY <2>5, <2>6
<1>. HIDE DEF Good
<1>9. Bad = {}
  <2>1. SUFFICES ASSUME Bad # {} PROVE FALSE
    OBVIOUS
  <2>2. PICK n \in Bad : \A m \in Bad : n <= m
    BY <2>1, Least
  <2>3. n # 0 /\ n \in 1..N /\ n - 1 \in Nat /\ n - 1 <= N /\ n - 1 \notin Bad
    BY <1>1, <1>7, <2>2
  <2>. QED  BY <1>8, <2>2, <2>3
<1>10. Good(N)
  BY <1>1, <1>9
<1>11. reach[N] \in SUBSET (1..N) /\ Cardinality(reach[N]) \in 0..N
  <2>1. reach[N] \in SUBSET (1..N)
    BY <1>10 DEF Good
  <2>. QED  BY <1>1, <2>1, Bounds
<1>12. ClosedIn(items, reach[N], 1..N)
  BY <1>1, <1>10, <1>11 DEF Good
<1>. QED  BY <1>6, <1>10, <1>11, <1>12 DEF Good

(* The clusters are the classes of reachable items.                        *)
LEMMA ClassesAreReached ==
  ASSUME NEW S, NEW items \in Seq(S)
  PROVE  /\ \A c \in Clusters(items), i \in 1..Len(items) : i \in c => Reachable(items, i) = c
         /\ {Reachable(items, i) : i \in DOMAIN items} = Clusters(items)
<1>. DEFINE C == Clusters(items)
            N == Len(items)
<1>1. Classes(C, items, N)
  BY ClustersAreClasses
<1>2. DOMAIN items = 1..N
  OBVIOUS
<1>. HIDE DEF C
<1>3. ASSUME NEW c \in C, NEW i \in 1..N, i \in c
      PROVE  Reachable(items, i) = c
  <2>. DEFINE R == Reachable(items, i)
  <2>1. /\ i \in R /\ R \in SUBSET (1..N)
        /\ ClosedIn(items, R, 1..N)
        /\ \A X : X \subseteq 1..N /\ i \in X /\ ClosedIn(items, X, 1..N) => R \subseteq X
    BY ReachableIs
  <2>. HIDE DEF R
  <2>2. c \subseteq 1..N /\ ClosedIn(items, c, 1..N)
    BY <1>1 DEF Classes, Parts
  <2>3. R \subseteq c
    BY <1>3, <2>1, <2>2
  <2>4. ClosedIn(items, R, c)
    BY <2>1, <2>2 DEF ClosedIn
  <2>5. R = c
    BY <1>1, <2>1, <2>3, <2>4 DEF Classes
  <2>. QED  BY <2>5 DEF R
<1>4. \A i \in 1..N : \E c \in C : i \in c
  BY <1>1 DEF Classes, Parts
<1>5. \A c \in C : c # {} /\ c \subseteq 1..N
  BY <1>1 DEF Classes, Parts
<1>6. {Reachable(items, i) : i \in DOMAIN items} = C
  <2>1. \A i \in 1..N : Reachable(items, i) \in C
    BY <1>3, <1>4
  <2>2. \A c \in C : \E i \in 1..N : c = Reachable(items, i)
    BY <1>3, <1>5
  <2>. QED  BY <1>2, <2>1, <2>2
<1>. QED  BY <1>3, <1>6 DEF C

-----------------------------------------------------------------------------
(* The vote.                                                               *)

Item(K, count) == [k : K, run : 1..count]

LEMMA Concat ==
  ASSUME NEW T, NEW s \in Seq(T), NEW t \in Seq(T)
  PROVE  s \o t \in Seq(T) /\ Len(s \o t) = Len(s) + Len(t)
  OBVIOUS

(* Every tangle of every run is an item of that run.                       *)
LEMMA ItemsAre ==
  ASSUME NEW K, NEW rs \in Seq(Seq(K))
  PROVE  /\ Items(rs) \in Seq(Item(K, Len(rs)))
         /\ \A r \in 1..Len(rs) : Len(rs[r]) <= Len(Items(rs))
<1>. DEFINE N == Len(rs)
            of(r) == [i \in DOMAIN rs[r] |-> [k |-> rs[r][i], run |-> r]]
            Body(f) == [n \in 0..N |-> IF n = 0 THEN <<>> ELSE f[n - 1] \o of(n)]
            upto == CHOOSE f : f = Body(f)
            T == Item(K, N)
            V == Seq(T)
<1>1. N \in Nat /\ \A r \in 1..N : rs[r] \in Seq(K)
  OBVIOUS
<1>2. \A r \in 1..N : of(r) \in V /\ Len(of(r)) = Len(rs[r])
  <2>1. SUFFICES ASSUME NEW r \in 1..N PROVE of(r) \in V /\ Len(of(r)) = Len(rs[r])
    OBVIOUS
  <2>2. PICK s \in Seq(K) : s = rs[r]
    BY <1>1
  <2>3. DOMAIN s = 1..Len(s) /\ Len(s) \in Nat
    OBVIOUS
  <2>4. \A i \in 1..Len(s) : [k |-> s[i], run |-> r] \in T
    BY <2>3 DEF Item
  <2>5. of(r) = [i \in 1..Len(s) |-> [k |-> s[i], run |-> r]]
    BY <2>2, <2>3
  <2>. HIDE DEF T, of
  <2>6. of(r) \in Seq(T) /\ Len(of(r)) = Len(s)
    BY <2>3, <2>4, <2>5
  <2>. QED  BY <2>2, <2>6
<1>. HIDE DEF of, T
<1>3. \A f, n : n \in 0..N => Body(f)[n] = IF n = 0 THEN <<>> ELSE f[n - 1] \o of(n)
  OBVIOUS
<1>4. \E f : f = Body(f)
  <2>. DEFINE G == [n \in 1..N |-> [s \in V |-> s \o of(n)]]
  <2>1. G \in [1..N -> [V -> V]]
    BY <1>2
  <2>2. \A n \in 1..N, s \in V : G[n][s] = s \o of(n)
    OBVIOUS
  <2>3. <<>> \in V
    OBVIOUS
  <2>. HIDE DEF G, V
  <2>4. PICK f \in [0..N -> V] : Follows(f, <<>>, G, N)
    BY <1>1, <2>1, <2>3, Recursion
  <2>5. \A n \in 0..N : f[n] = Body(f)[n]
    <3>1. SUFFICES ASSUME NEW n \in 0..N PROVE f[n] = Body(f)[n]
      OBVIOUS
    <3>. HIDE DEF Body
    <3>2. CASE n = 0
      BY <1>3, <2>4, <3>2 DEF Follows
    <3>3. CASE n # 0
      <4>1. n \in 1..N /\ n - 1 \in 0..N
        BY <1>1, <3>3
      <4>2. f[n] = G[n][f[n - 1]] /\ f[n - 1] \in V
        BY <2>4, <4>1 DEF Follows
      <4>. QED  BY <1>3, <2>2, <3>3, <4>1, <4>2
    <3>. QED  BY <3>2, <3>3
  <2>6. f = [n \in 0..N |-> f[n]] /\ Body(f) = [n \in 0..N |-> Body(f)[n]]
    BY <2>4
  <2>. HIDE DEF Body
  <2>. QED  BY <2>5, <2>6
<1>5. upto = Body(upto)
  BY <1>4
<1>. HIDE DEF upto
<1>6. \A n \in 0..N : upto[n] = IF n = 0 THEN <<>> ELSE upto[n - 1] \o of(n)
  <2>. HIDE DEF Body
  <2>. QED  BY <1>3, <1>5
<1>7. Items(rs) = upto[N]
  BY DEF Items, upto, of
<1>. HIDE DEF Body
<1>. DEFINE Good(n) == upto[n] \in V /\ \A r \in 1..n : Len(rs[r]) <= Len(upto[n])
            Bad == {n \in Nat : n <= N /\ ~Good(n)}
<1>8. Good(0)
  <2>1. upto[0] = <<>> /\ 1..0 = {}
    BY <1>1, <1>6
  <2>. QED  BY <2>1
<1>9. ASSUME NEW n \in 1..N, Good(n - 1)
      PROVE  Good(n)
  <2>1. upto[n] = upto[n - 1] \o of(n) /\ upto[n - 1] \in V
    <3>1. n \in 0..N /\ n # 0
      BY <1>1
    <3>. QED  BY <1>6, <1>9, <3>1
  <2>2. upto[n] \in V /\ Len(upto[n]) = Len(upto[n - 1]) + Len(rs[n])
    <3>1. of(n) \in V /\ Len(of(n)) = Len(rs[n])
      BY <1>2
    <3>. DEFINE s == upto[n - 1]
                t == of(n)
    <3>2. s \in Seq(T) /\ t \in Seq(T)
      BY <2>1, <3>1
    <3>. HIDE DEF s, t
    <3>3. s \o t \in Seq(T) /\ Len(s \o t) = Len(s) + Len(t)
      BY <3>2, Concat
    <3>4. upto[n] = s \o t
      BY <2>1 DEF s, t
    <3>5. Len(t) = Len(rs[n])
      BY <3>1 DEF t
    <3>. QED  BY <3>3, <3>4, <3>5 DEF s
  <2>3. Len(upto[n - 1]) \in Nat /\ \A r \in 1..n : Len(rs[r]) \in Nat
    <3>1. \A r \in 1..n : rs[r] \in Seq(K)
      BY <1>1
    <3>. QED  BY <2>1, <3>1
  <2>4. \A r \in 1..n : r = n \/ r \in 1..(n - 1)
    BY <1>1
  <2>5. ASSUME NEW r \in 1..n PROVE Len(rs[r]) <= Len(upto[n])
    <3>. DEFINE x == Len(rs[n])
                y == Len(upto[n - 1])
                z == Len(upto[n])
    <3>1. x \in Nat /\ y \in Nat /\ z = y + x /\ Len(rs[r]) \in Nat
      BY <2>2, <2>3
    <3>2. r = n => Len(rs[r]) = x
      OBVIOUS
    <3>3. r # n => Len(rs[r]) <= y
      BY <1>9, <2>4
    <3>. HIDE DEF x, y, z
    <3>4. Len(rs[r]) <= z
      BY <3>1, <3>2, <3>3
    <3>. QED  BY <3>4 DEF z
  <2>. QED  BY <2>2, <2>5
<1>. HIDE DEF Good
<1>10. Bad = {}
  <2>1. SUFFICES ASSUME Bad # {} PROVE FALSE
    OBVIOUS
  <2>2. PICK n \in Bad : \A m \in Bad : n <= m
    BY <2>1, Least
  <2>3. n # 0 /\ n \in 1..N /\ n - 1 \in Nat /\ n - 1 <= N /\ n - 1 \notin Bad
    BY <1>1, <1>8, <2>2
  <2>. QED  BY <1>9, <2>2, <2>3
<1>11. Good(N)
  BY <1>1, <1>10
<1>. QED  BY <1>7, <1>11 DEF Good, T

LEMMA MinIs ==
  ASSUME NEW B \in SUBSET Nat, B # {}
  PROVE  Min(B) \in B /\ \A m \in B : Min(B) <= m
<1>1. \E n \in B : \A m \in B : n <= m
  BY Least
<1>. QED  BY <1>1 DEF Min

LEMMA MaxIs ==
  ASSUME NEW n \in Nat, NEW B \in SUBSET (1..n), B # {}
  PROVE  Max(B) \in B /\ \A m \in B : m <= Max(B)
<1>1. \E x \in B : \A m \in B : m <= x
  BY Greatest
<1>2. \E x \in B : \A m \in B : x >= m
  BY <1>1
<1>. QED  BY <1>2 DEF Max

(* A tangle as one pass reports it, and one as the vote over so many runs  *)
(* reports it.                                                             *)
AllKinds == PairwiseKinds \cup TeamwideKinds
Basic == [kind : AllKinds, parties : SUBSET People, topic : DOMAIN Rank, conf : 1..10,
          votes : {0}, samples : {0}]
Vote(count) == [kind : AllKinds, parties : SUBSET People, topic : DOMAIN Rank,
                conf : 0..10 * count, votes : 1..count, samples : {count}]

(* The sum over the runs so far of each run's best confidence.             *)
Best(items, c, r) == Max({items[i].k.conf : i \in {x \in c : items[x].run = r}})
SumOfBest(items, c, ran, count) ==
  LET sum[r \in 0..count] ==
        IF r = 0 THEN 0 ELSE sum[r - 1] + (IF r \in ran THEN Best(items, c, r) ELSE 0)
  IN sum[count]

LEMMA SumIs ==
  ASSUME NEW count \in Nat, NEW items, NEW c, NEW ran,
         \A r \in 1..count : r \in ran => Best(items, c, r) \in 1..10
  PROVE  SumOfBest(items, c, ran, count) \in 0..10 * count
<1>. DEFINE Body(f) == [r \in 0..count |-> IF r = 0 THEN 0
                          ELSE f[r - 1] + (IF r \in ran THEN Best(items, c, r) ELSE 0)]
            sum == CHOOSE f : f = Body(f)
            add(r) == IF r \in ran THEN Best(items, c, r) ELSE 0
<1>1. \A r \in 1..count : add(r) \in 0..10
  OBVIOUS
<1>. HIDE DEF add
<1>2. \A f, r : r \in 0..count => Body(f)[r] = IF r = 0 THEN 0 ELSE f[r - 1] + add(r)
  BY DEF add
<1>3. \E f : f = Body(f)
  <2>. DEFINE G == [n \in 1..count |-> [s \in Nat |-> s + add(n)]]
  <2>1. G \in [1..count -> [Nat -> Nat]]
    BY <1>1
  <2>2. \A n \in 1..count, s \in Nat : G[n][s] = s + add(n)
    OBVIOUS
  <2>. HIDE DEF G
  <2>3. PICK f \in [0..count -> Nat] : Follows(f, 0, G, count)
    BY <2>1, Recursion
  <2>4. \A n \in 0..count : f[n] = Body(f)[n]
    <3>1. SUFFICES ASSUME NEW n \in 0..count PROVE f[n] = Body(f)[n]
      OBVIOUS
    <3>. HIDE DEF Body
    <3>2. CASE n = 0
      BY <1>2, <2>3, <3>2 DEF Follows
    <3>3. CASE n # 0
      <4>1. n \in 1..count /\ n - 1 \in 0..count
        BY <3>3
      <4>2. f[n] = G[n][f[n - 1]] /\ f[n - 1] \in Nat
        BY <2>3, <4>1 DEF Follows
      <4>. QED  BY <1>2, <2>2, <3>3, <4>1, <4>2
    <3>. QED  BY <3>2, <3>3
  <2>5. f = [n \in 0..count |-> f[n]] /\ Body(f) = [n \in 0..count |-> Body(f)[n]]
    BY <2>3
  <2>. HIDE DEF Body
  <2>. QED  BY <2>4, <2>5
<1>4. sum = Body(sum)
  BY <1>3
<1>. HIDE DEF sum
<1>5. \A r \in 0..count : sum[r] = IF r = 0 THEN 0 ELSE sum[r - 1] + add(r)
  <2>. HIDE DEF Body
  <2>. QED  BY <1>2, <1>4
<1>. DEFINE Bad == {r \in Nat : r <= count /\ sum[r] \notin 0..10 * r}
<1>6. Bad = {}
  <2>1. SUFFICES ASSUME Bad # {} PROVE FALSE
    OBVIOUS
  <2>2. PICK n \in Bad : \A m \in Bad : n <= m
    BY <2>1, Least
  <2>3. n \in Nat /\ n <= count /\ sum[n] \notin 0..10 * n
    BY <2>2
  <2>4. n # 0
    <3>1. sum[0] = 0
      BY <1>5
    <3>. QED  BY <2>3, <3>1
  <2>5. n \in 1..count /\ n \in 0..count /\ n - 1 \in Nat /\ n - 1 <= count /\ n - 1 \notin Bad
    BY <2>2, <2>3, <2>4
  <2>6. sum[n - 1] \in 0..10 * (n - 1) /\ sum[n] = sum[n - 1] + add(n) /\ add(n) \in 0..10
    BY <1>1, <1>5, <2>4, <2>5
  <2>. QED  BY <2>3, <2>5, <2>6
<1>7. sum[count] \in 0..10 * count
  BY <1>6
<1>. HIDE DEF Bad
<1>. QED  BY <1>7 DEF sum, SumOfBest

(* A cluster speaks with one of its members and counts its runs.           *)
LEMMA ClusterIs ==
  ASSUME NEW count \in Nat, NEW items \in Seq(Item(Basic, count)),
         NEW c \in SUBSET (1..Len(items)), c # {}
  PROVE  LET k == Cluster(items, c, count)
         IN /\ k \in Vote(count)
            /\ k.votes = RunsOf(items, c)
            /\ k.samples = count
            /\ \E i \in c : k.parties = items[i].k.parties /\ k.topic = items[i].k.topic
<1>. DEFINE ran == {items[i].run : i \in c}
            rep == Representative(items, c)
<1>1. \A i \in c : items[i] \in Item(Basic, count) /\ i \in Nat
  OBVIOUS
<1>2. \A i \in c : items[i].k \in Basic /\ items[i].run \in 1..count /\ items[i].k.conf \in 1..10
  BY <1>1 DEF Item, Basic
<1>3. rep \in c
  <2>. DEFINE confs == {items[i].k.conf : i \in c}
              tops == {i \in c : \A j \in c : items[j].k.conf <= items[i].k.conf}
  <2>1. confs \in SUBSET (1..10) /\ confs # {}
    BY <1>2
  <2>. HIDE DEF confs
  <2>2. PICK m \in confs : \A n \in confs : n <= m
    BY <2>1, Greatest
  <2>3. PICK i \in c : items[i].k.conf = m
    BY <2>2 DEF confs
  <2>4. \A j \in c : items[j].k.conf <= items[i].k.conf
    BY <2>2, <2>3 DEF confs
  <2>5. tops \in SUBSET Nat /\ tops # {}
    BY <1>1, <2>4
  <2>6. rep = Min(tops)
    BY DEF Representative
  <2>7. tops \subseteq c
    OBVIOUS
  <2>. HIDE DEF tops, rep
  <2>8. Min(tops) \in tops
    BY <2>5, MinIs
  <2>. QED  BY <2>6, <2>7, <2>8
<1>. HIDE DEF rep
<1>4. \A r \in 1..count : r \in ran => Best(items, c, r) \in 1..10
  <2>1. SUFFICES ASSUME NEW r \in ran PROVE Best(items, c, r) \in 1..10
    OBVIOUS
  <2>. DEFINE confs == {items[i].k.conf : i \in {x \in c : items[x].run = r}}
  <2>2. confs \in SUBSET (1..10) /\ confs # {}
    BY <1>2
  <2>. HIDE DEF confs
  <2>3. Max(confs) \in confs
    BY <2>2, MaxIs
  <2>. QED  BY <2>2, <2>3 DEF confs, Best
<1>5. ran \in SUBSET (1..count) /\ ran # {}
  BY <1>2
<1>6. RunsOf(items, c) = Cardinality(ran)
  BY DEF RunsOf
<1>7. Cardinality(ran) \in 1..count
  <2>. HIDE DEF ran
  <2>. QED  BY <1>5, Bounds
<1>8. Cluster(items, c, count) =
        [items[rep].k EXCEPT !.conf = SumOfBest(items, c, ran, count),
                             !.votes = Cardinality(ran), !.samples = count]
  BY DEF Cluster, SumOfBest, Best, rep
<1>. HIDE DEF ran
<1>9. SumOfBest(items, c, ran, count) \in 0..10 * count
  BY <1>4, SumIs
<1>10. items[rep].k \in Basic
  BY <1>2, <1>3
<1>. QED  BY <1>3, <1>6, <1>7, <1>8, <1>9, <1>10 DEF Basic, Vote

LEMMA ClustersFinite ==
  ASSUME NEW S, NEW items \in Seq(S)
  PROVE  /\ IsFiniteSet(Clusters(items))
         /\ \A c \in Clusters(items) : c \in SUBSET (1..Len(items)) /\ c # {}
<1>1. \A c \in Clusters(items) : c \in SUBSET (1..Len(items)) /\ c # {}
  BY ClustersAreClasses DEF Classes, Parts
<1>2. Len(items) \in Nat
  OBVIOUS
<1>3. IsFiniteSet(SUBSET (1..Len(items)))
  <2>1. IsFiniteSet(1..Len(items))
    BY <1>2, FS_Interval
  <2>. QED  BY <2>1, FS_SUBSET
<1>. QED  BY <1>1, <1>3, FS_Subset

(* One tangle for each cluster, with its votes.                            *)
LEMMA VotedIs ==
  ASSUME NEW rs \in Seq(Seq(Basic))
  PROVE  LET items == Items(rs)
         IN /\ IsFiniteSet(Voted(rs))
            /\ Cardinality(Voted(rs)) = Cardinality(Clusters(items))
            /\ \A v \in Voted(rs) :
                 /\ v.members \in Clusters(items)
                 /\ v.k \in Vote(Len(rs))
                 /\ v.k.votes = RunsOf(items, v.members)
                 /\ v.k.samples = Len(rs)
                 /\ \E i \in v.members : /\ v.k.parties = items[i].k.parties
                                         /\ v.k.topic = items[i].k.topic
            /\ \A c \in Clusters(items) : \E v \in Voted(rs) : v.members = c
            /\ \A v, w \in Voted(rs) : v.members = w.members => v = w
<1>. DEFINE items == Items(rs)
            N == Len(rs)
            C == Clusters(items)
            vote == [c \in C |-> [members |-> c, k |-> Cluster(items, c, N)]]
            V == Voted(rs)
<1>1. N \in Nat /\ items \in Seq(Item(Basic, N))
  BY ItemsAre
<1>2. V = {[members |-> c, k |-> Cluster(items, c, N)] : c \in C}
  BY DEF Voted
<1>. HIDE DEF items, N, V
<1>3. IsFiniteSet(C) /\ \A c \in C : c \in SUBSET (1..Len(items)) /\ c # {}
  BY <1>1, ClustersFinite
<1>. HIDE DEF C
<1>4. \A c \in C : vote[c] = [members |-> c, k |-> Cluster(items, c, N)]
                   /\ vote[c].members = c /\ vote[c].k = Cluster(items, c, N)
  OBVIOUS
<1>5. vote \in [C -> V] /\ \A v \in V : \E c \in C : v = vote[c]
  BY <1>2
<1>. HIDE DEF vote
<1>6. \A c \in C : /\ vote[c].k \in Vote(N)
                   /\ vote[c].k.votes = RunsOf(items, c)
                   /\ vote[c].k.samples = N
                   /\ \E i \in c : /\ vote[c].k.parties = items[i].k.parties
                                   /\ vote[c].k.topic = items[i].k.topic
  <2>1. SUFFICES ASSUME NEW c \in C, NEW k, k = vote[c].k
                 PROVE  /\ k \in Vote(N) /\ k.votes = RunsOf(items, c) /\ k.samples = N
                        /\ \E i \in c : k.parties = items[i].k.parties /\ k.topic = items[i].k.topic
    OBVIOUS
  <2>2. k = Cluster(items, c, N)
    BY <1>4, <2>1
  <2>. QED  BY <1>1, <1>3, <2>2, ClusterIs
<1>7. vote \in Surjection(C, V) /\ vote \in Injection(C, V)
  BY <1>4, <1>5 DEF Surjection, Injection, IsInjective
<1>8. IsFiniteSet(V) /\ Cardinality(V) = Cardinality(C)
  BY <1>3, <1>7, FS_Surjection
<1>9. \A v \in V : v = vote[v.members] /\ v.members \in C
  BY <1>4, <1>5
<1>10. \A v \in V : /\ v.k \in Vote(N)
                    /\ v.k.votes = RunsOf(items, v.members)
                    /\ v.k.samples = N
                    /\ \E i \in v.members : /\ v.k.parties = items[i].k.parties
                                            /\ v.k.topic = items[i].k.topic
  <2>1. SUFFICES ASSUME NEW v \in V
                 PROVE  /\ v.k \in Vote(N)
                        /\ v.k.votes = RunsOf(items, v.members)
                        /\ v.k.samples = N
                        /\ \E i \in v.members : /\ v.k.parties = items[i].k.parties
                                                /\ v.k.topic = items[i].k.topic
    OBVIOUS
  <2>2. PICK c \in C : v = vote[c]
    BY <1>5
  <2>3. v.members = c
    BY <1>4, <2>2
  <2>. QED  BY <1>6, <2>2, <2>3
<1>11. \A c \in C : \E v \in V : v.members = c
  BY <1>4, <1>5
<1>. QED  BY <1>8, <1>9, <1>10, <1>11 DEF items, N, C, V

(* The vote's order shows each cluster once.                               *)
Shows(ts, cs) == \A c \in cs : \E n \in DOMAIN ts : ts[n] = c.k

LEMMA SortedIs ==
  ASSUME NEW cs, IsFiniteSet(cs), NEW ts \in Sorted(cs)
  PROVE  /\ ts \in Seq({c.k : c \in cs}) /\ Len(ts) = Cardinality(cs)
         /\ \A n \in DOMAIN ts : \E c \in cs : ts[n] = c.k
         /\ Shows(ts, cs)
<1>. DEFINE D == 1..Cardinality(cs)
            S == {c.k : c \in cs}
<1>1. Cardinality(cs) \in Nat
  BY FS_CardinalityType
<1>2. PICK o \in SetToSeqs(cs) : ts = [i \in DOMAIN o |-> o[i].k]
  BY DEF Sorted
<1>3. o \in [D -> cs] /\ \A i, j \in D : i # j => o[i] # o[j]
  BY <1>2 DEF SetToSeqs
<1>4. o \in Injection(D, cs)
  <2>. HIDE DEF D
  <2>. QED  BY <1>3 DEF Injection, IsInjective
<1>5. IsFiniteSet(D) /\ Cardinality(D) = Cardinality(cs)
  BY <1>1, FS_Interval
<1>6. o \in Surjection(D, cs)
  <2>. HIDE DEF D
  <2>. QED  BY <1>4, <1>5, FS_Injection
<1>7. \A c \in cs : \E n \in D : o[n] = c
  <2>. HIDE DEF D
  <2>. QED  BY <1>6 DEF Surjection
<1>8. DOMAIN ts = D /\ \A n \in D : ts[n] = o[n].k /\ o[n] \in cs
  BY <1>2, <1>3
<1>9. ts = [n \in D |-> ts[n]] /\ \A n \in D : ts[n] \in S
  BY <1>2, <1>3
<1>10. ts \in Seq(S) /\ Len(ts) = Cardinality(cs)
  <2>. HIDE DEF S
  <2>. QED  BY <1>1, <1>9
<1>. HIDE DEF D
<1>11. \A n \in DOMAIN ts : \E c \in cs : ts[n] = c.k
  BY <1>8
<1>12. \A c \in cs : \E n \in D : ts[n] = c.k
  BY <1>7, <1>8
<1>. QED  BY <1>8, <1>10, <1>11, <1>12 DEF Shows

-----------------------------------------------------------------------------
(* What the passes and the coupling check make of their replies.           *)

LEMMA ConfidenceIs ==
  ASSUME atoms \in AtomSets, NEW parties
  PROVE  MinConfForParties(parties) \in 1..10
<1>. DEFINE theirs == {a.conf : a \in {x \in atoms : x.from \in parties}}
<1>1. theirs \in SUBSET (1..10) /\ theirs \in SUBSET Nat
  BY DetectorAssumption
<1>2. theirs # {} => Min(theirs) \in theirs
  <2>. HIDE DEF theirs
  <2>. QED  BY <1>1, MinIs
<1>3. MinConfForParties(parties) = IF theirs = {} THEN 3 ELSE Min(theirs)
  BY DEF MinConfForParties
<1>. HIDE DEF theirs
<1>4. CASE theirs = {}
  BY <1>3, <1>4
<1>5. CASE theirs # {}
  <2>1. MinConfForParties(parties) = Min(theirs)
    BY <1>3, <1>5
  <2>2. Min(theirs) \in 1..10
    BY <1>1, <1>2, <1>5, Zenon
  <2>. QED  BY <2>1, <2>2
<1>. QED  BY <1>4, <1>5

LEMMA BuiltIs ==
  ASSUME atoms \in AtomSets, NEW reply \in Seq(RawTangle), NEW allowed \in SUBSET AllKinds,
         NEW selfOnly
  PROVE  BuildTangles(reply, allowed, selfOnly) \in Seq(Basic)
<1>. DEFINE accepted(raw) == raw.kind \in allowed /\ (selfOnly => Cardinality(raw.parties) = 1)
            I == {i \in DOMAIN reply : accepted(reply[i])}
            raws == Keep(reply, I)
<1>1. /\ raws \in Seq(RawTangle) /\ Len(raws) = Cardinality(I)
      /\ \A n \in 1..Cardinality(I) : \E i \in I : raws[n] = reply[i]
  <2>1. I \in SUBSET DOMAIN reply
    OBVIOUS
  <2>. HIDE DEF I
  <2>. QED  BY <2>1, KeepIs
<1>2. \A i \in I : reply[i].kind \in allowed
  OBVIOUS
<1>3. BuildTangles(reply, allowed, selfOnly) = [i \in DOMAIN raws |-> BuildTangle(raws[i])]
  BY DEF BuildTangles
<1>. HIDE DEF raws, I
<1>4. DOMAIN raws = 1..Len(raws) /\ Len(raws) \in Nat
  BY <1>1
<1>5. \A n \in 1..Len(raws) : raws[n] \in RawTangle /\ raws[n].kind \in allowed
  BY <1>1, <1>2
<1>6. \A n \in 1..Len(raws) : BuildTangle(raws[n]) \in Basic
  <2>1. SUFFICES ASSUME NEW n \in 1..Len(raws) PROVE BuildTangle(raws[n]) \in Basic
    OBVIOUS
  <2>2. PICK raw \in RawTangle : raw = raws[n] /\ raw.kind \in allowed
    BY <1>5
  <2>3. raw.kind \in AllKinds /\ raw.parties \in SUBSET People /\ raw.topic \in DOMAIN Rank
    BY <2>2 DEF RawTangle
  <2>4. MinConfForParties(raw.parties) \in 1..10
    BY ConfidenceIs
  <2>5. (IF raw.conf \in 1..10 THEN raw.conf ELSE MinConfForParties(raw.parties)) \in 1..10
    BY <2>4
  <2>6. BuildTangle(raw) \in Basic
    BY <2>3, <2>5 DEF BuildTangle, Basic
  <2>. QED  BY <2>2, <2>6
<1>. QED  BY <1>3, <1>4, <1>6

LEMMA QuorumIs ==
  ASSUME NEW S, NEW tangles \in Seq(S)
  PROVE  FilterTeamwideQuorum(tangles) \in Seq(S)
<1>. DEFINE I == {i \in DOMAIN tangles : Cardinality(tangles[i].parties) >= 3}
<1>1. I \in SUBSET DOMAIN tangles /\ FilterTeamwideQuorum(tangles) = Keep(tangles, I)
  BY DEF FilterTeamwideQuorum
<1>. HIDE DEF I
<1>. QED  BY <1>1, KeepIs

(* With nothing to be covered by, no self tangle is dropped.               *)
LEMMA DedupeIs ==
  ASSUME NEW S, NEW own \in Seq(S), NEW tangles
  PROVE  /\ DedupeSelf(own, tangles) \in Seq(S)
         /\ tangles = <<>> => Len(DedupeSelf(own, tangles)) = Len(own)
<1>. DEFINE fresh(s) == ~\E i \in DOMAIN tangles : SameTangle(s, tangles[i])
            I == {i \in DOMAIN own : fresh(own[i])}
<1>1. I \in SUBSET DOMAIN own /\ DedupeSelf(own, tangles) = Keep(own, I)
  BY DEF DedupeSelf
<1>2. tangles = <<>> => I = DOMAIN own
  <2>1. tangles = <<>> => DOMAIN tangles = {}
    OBVIOUS
  <2>. QED  BY <2>1
<1>3. Cardinality(DOMAIN own) = Len(own)
  <2>1. DOMAIN own = 1..Len(own) /\ Len(own) \in Nat
    OBVIOUS
  <2>2. Cardinality(1..Len(own)) = Len(own)
    BY <2>1, FS_Interval
  <2>. QED  BY <2>1, <2>2
<1>. HIDE DEF I
<1>4. DedupeSelf(own, tangles) \in Seq(S) /\ Len(DedupeSelf(own, tangles)) = Cardinality(I)
  BY <1>1, KeepIs
<1>. QED  BY <1>2, <1>3, <1>4

(* The coupling check splits the tangles it is given.                      *)
LEMMA SplitIs ==
  ASSUME NEW S, NEW ts \in Seq(S), NEW vs
  PROVE  LET split == ApplyGroundingVerdicts(ts, vs)
         IN /\ split.kept \in Seq(S) /\ split.suppressed \in Seq(S)
            /\ Len(split.kept) + Len(split.suppressed) = Len(ts)
            /\ \A n \in DOMAIN split.suppressed :
                 \E i \in DOMAIN vs \cap DOMAIN ts : split.suppressed[n] = ts[i] /\ MultiPerson(ts[i])
<1>. DEFINE refused(i) == MultiPerson(ts[i]) /\ i \in DOMAIN vs /\ ~vs[i]
            held == {i \in DOMAIN ts : refused(i)}
            rest == DOMAIN ts \ held
            split == ApplyGroundingVerdicts(ts, vs)
<1>1. split.kept = Keep(ts, rest) /\ split.suppressed = Keep(ts, held)
  BY DEF ApplyGroundingVerdicts
<1>2. held \in SUBSET (DOMAIN ts) /\ rest \in SUBSET (DOMAIN ts) /\ held \subseteq DOMAIN vs
      /\ \A i \in held : MultiPerson(ts[i])
  OBVIOUS
<1>3. DOMAIN ts = 1..Len(ts) /\ Len(ts) \in Nat
  OBVIOUS
<1>4. IsFiniteSet(DOMAIN ts) /\ Cardinality(DOMAIN ts) = Len(ts)
  BY <1>3, FS_Interval
<1>5. DOMAIN ts \cap held = held
  BY <1>2
<1>. HIDE DEF split, held
<1>6. Cardinality(rest) = Len(ts) - Cardinality(held)
  BY <1>4, <1>5, FS_Difference
<1>. HIDE DEF rest
<1>7. split.kept \in Seq(S) /\ Len(split.kept) = Cardinality(rest) /\ Cardinality(rest) \in Nat
  BY <1>1, <1>2, KeepIs
<1>8. split.suppressed \in Seq(S) /\ Len(split.suppressed) = Cardinality(held)
      /\ Cardinality(held) \in Nat
  BY <1>1, <1>2, KeepIs
<1>9. \A n \in 1..Cardinality(held) : \E i \in held : split.suppressed[n] = ts[i]
  BY <1>1, <1>2, KeepIs
<1>10. \A n \in DOMAIN split.suppressed :
         \E i \in DOMAIN vs \cap DOMAIN ts : split.suppressed[n] = ts[i] /\ MultiPerson(ts[i])
  BY <1>2, <1>8, <1>9
<1>11. Len(split.kept) + Len(split.suppressed) = Len(ts)
  BY <1>3, <1>6, <1>7, <1>8
<1>. QED  BY <1>7, <1>8, <1>10, <1>11 DEF split

(* The kinds are asked in their order.                                     *)
LEMMA NextGroundIs ==
  ASSUME NEW ts, NEW from \in 1..4
  PROVE  \/ NextGround(ts, from) = "done"
         \/ \E n \in 1..3 : n >= from /\ NextGround(ts, from) = GroundKindOrder[n]
<1>. DEFINE open == {n \in from..3 : Groundable(ts, GroundKindOrder[n]) # {}}
<1>1. open \in SUBSET Nat /\ \A n \in open : n \in 1..3 /\ n >= from
  OBVIOUS
<1>2. NextGround(ts, from) = IF open = {} THEN "done" ELSE GroundKindOrder[Min(open)]
  BY DEF NextGround
<1>. HIDE DEF open
<1>3. open # {} => Min(open) \in open
  BY <1>1, MinIs
<1>. QED  BY <1>1, <1>2, <1>3

-----------------------------------------------------------------------------
(* The inductive invariant.                                                *)

Most == IF samples > 1 THEN samples ELSE 1

(* Only known tangles, of the runs made so far.                            *)
Shape ==
  /\ atoms \in AtomSets /\ samples \in SampleCounts
  /\ pc \in Calls \cup {"done", "failed"}
  /\ attempt \in 1..MaxToolAttempts
  /\ runs \in Seq(Seq(Basic)) /\ Len(runs) <= Most
  /\ pairwise \in Seq(Basic) /\ self \in Seq(Basic)
  /\ cross \in Seq(Tangle) /\ kept \in Seq(Tangle) /\ suppressed \in Seq(Tangle)

(* What a detection has not come to yet is empty.                          *)
Early ==
  /\ pc \in {"pairwise", "teamwide"} =>
       Len(runs) < Most /\ cross = <<>> /\ self = <<>>
  /\ pc = "teamwide" => ~(DistinctAuthors < 3)
  /\ pc \in {"pairwise", "teamwide", "self"} => verdicts = <<>>
  /\ pc # "done" => kept = <<>> /\ suppressed = <<>>

(* What failed attempts left was a reply to the call under way.            *)
Heard == left # <<>> => pc \in Calls /\ left \in RepliesTo(pc)

(* A verdict is about a tangle; without stray verdicts, about one the      *)
(* coupling check asked about.                                             *)
Judged ==
  \A i \in DOMAIN verdicts :
    /\ i \in DOMAIN Tangles
    /\ ~StrayVerdicts => /\ Tangles[i].kind \in Range(GroundKindOrder)
                         /\ MultiPerson(Tangles[i])

(* The vote is over all the runs.                                          *)
Counted ==
  pc \notin {"pairwise", "teamwide", "failed"} =>
    /\ Len(runs) = Most
    /\ samples <= 1 => cross = runs[1] /\ floorHeld = 0
    /\ samples > 1 => LET low == {c \in Voted(runs) : BelowFloor(c.k)}
                      IN cross \in Sorted(Voted(runs) \ low) /\ floorHeld = Cardinality(low)

(* What is shown and what is held back follow from the verdicts.           *)
Ended ==
  pc = "done" =>
    LET split == ApplyGroundingVerdicts(Tangles, verdicts)
    IN kept = split.kept /\ suppressed = split.suppressed

DetectionInv == Shape /\ Early /\ Heard /\ Judged /\ Counted /\ Ended

(* A tangle after so many runs, of so many samples.                        *)
TangleOf(n, m) ==
  [kind : AllKinds, parties : SUBSET People, topic : DOMAIN Rank, conf : 0..10 * n + 10,
   votes : 0..m, samples : {0, m}]

LEMMA TangleIs == Tangle = TangleOf(Len(runs), samples)
  BY DEF Tangle, TangleOf, AllKinds

LEMMA Grows ==
  ASSUME NEW n \in Nat, NEW m \in Nat
  PROVE  Basic \subseteq TangleOf(n, m) /\ Vote(m) \subseteq TangleOf(m, m)
<1>1. 1..10 \subseteq 0..10 * n + 10 /\ 0..10 * m \subseteq 0..10 * m + 10 /\ 1..m \subseteq 0..m
  OBVIOUS
<1>2. Basic \subseteq TangleOf(n, m)
  BY <1>1 DEF Basic, TangleOf
<1>3. Vote(m) \subseteq TangleOf(m, m)
  BY <1>1 DEF Vote, TangleOf
<1>. QED  BY <1>2, <1>3

LEMMA Widen ==
  ASSUME NEW A, NEW B, A \subseteq B, NEW s \in Seq(A)
  PROVE  s \in Seq(B)
<1>1. s \in [1..Len(s) -> B] /\ Len(s) \in Nat
  OBVIOUS
<1>. QED  BY <1>1

LEMMA SamplesAre ==
  ASSUME samples \in SampleCounts
  PROVE  /\ samples \in Nat /\ Most \in Nat /\ Most >= 1
         /\ Most = Max({1, samples})
<1>1. samples \in Nat
  BY DetectorAssumption
<1>2. \E x \in {1, samples} : \A y \in {1, samples} : x >= y
  BY <1>1
<1>3. Max({1, samples}) \in {1, samples} /\ \A y \in {1, samples} : Max({1, samples}) >= y
  BY <1>2 DEF Max
<1>. QED  BY <1>1, <1>3 DEF Most

(* All that is shown so far.                                               *)
LEMMA ShownIs ==
  ASSUME NEW n \in Nat, NEW m \in Nat, NEW c \in Seq(TangleOf(n, m)), NEW own \in Seq(Basic)
  PROVE  c \o DedupeSelf(own, c) \in Seq(TangleOf(n, m))
<1>1. DedupeSelf(own, c) \in Seq(Basic)
  BY DedupeIs
<1>2. DedupeSelf(own, c) \in Seq(TangleOf(n, m))
  BY <1>1, Grows, Widen
<1>. QED  BY <1>2

(* Every cluster of the runs is shown or counted.                          *)
LEMMA VoteIs ==
  ASSUME NEW rs \in Seq(Seq(Basic)), NEW low \in SUBSET Voted(rs),
         NEW c \in Sorted(Voted(rs) \ low)
  PROVE  /\ c \in Seq(Vote(Len(rs)))
         /\ IsFiniteSet(low) /\ Cardinality(low) \in Nat
         /\ Len(c) + Cardinality(low) = Cardinality(Clusters(Items(rs)))
         /\ \A n \in DOMAIN c : \E v \in Voted(rs) \ low : c[n] = v.k
         /\ \A v \in Voted(rs) \ low : \E n \in DOMAIN c : c[n] = v.k
<1>. DEFINE V == Voted(rs)
            U == V \ low
            C == Clusters(Items(rs))
<1>1. IsFiniteSet(V) /\ Cardinality(V) = Cardinality(C) /\ \A v \in V : v.k \in Vote(Len(rs))
  BY VotedIs
<1>2. low \in SUBSET V /\ c \in Sorted(U) /\ V \cap low = low
  OBVIOUS
<1>. HIDE DEF V, C
<1>3. IsFiniteSet(U) /\ Cardinality(U) = Cardinality(V) - Cardinality(low)
  <2>1. Cardinality(V \ low) = Cardinality(V) - Cardinality(V \cap low)
    BY <1>1, FS_Difference
  <2>2. IsFiniteSet(V \ low)
    BY <1>1, FS_Difference
  <2>3. Cardinality(V \cap low) = Cardinality(low)
    BY <1>2
  <2>. QED  BY <2>1, <2>2, <2>3
<1>4. IsFiniteSet(low) /\ Cardinality(low) \in Nat /\ Cardinality(V) \in Nat
  BY <1>1, <1>2, FS_Subset, FS_CardinalityType
<1>5. \A v \in U : v \in V /\ v.k \in Vote(Len(rs))
  BY <1>1
<1>. HIDE DEF U
<1>6. /\ c \in Seq(Vote(Len(rs))) /\ Len(c) = Cardinality(U)
      /\ \A n \in DOMAIN c : \E v \in U : c[n] = v.k
      /\ \A v \in U : \E n \in DOMAIN c : c[n] = v.k
  <2>1. /\ c \in Seq({v.k : v \in U}) /\ Len(c) = Cardinality(U)
        /\ \A n \in DOMAIN c : \E v \in U : c[n] = v.k
        /\ \A v \in U : \E n \in DOMAIN c : c[n] = v.k
    <3>1. IsFiniteSet(U) /\ c \in Sorted(U)
      BY <1>2, <1>3
    <3>2. Len(c) = Cardinality(U)
      BY <3>1, SortedIs
    <3>3. \A n \in DOMAIN c : \E v \in U : c[n] = v.k
      BY <3>1, SortedIs
    <3>5. c \in Seq({v.k : v \in U})
      BY <3>1, SortedIs
    <3>4. \A v \in U : \E n \in DOMAIN c : c[n] = v.k
      <4>1. Shows(c, U)
        BY <3>1, SortedIs
      <4>. QED  BY <4>1 DEF Shows
    <3>. QED  BY <3>2, <3>3, <3>4, <3>5
  <2>2. {v.k : v \in U} \subseteq Vote(Len(rs))
    BY <1>5
  <2>. QED  BY <2>1, <2>2, Widen
<1>7. Len(c) + Cardinality(low) = Cardinality(C)
  BY <1>1, <1>3, <1>4, <1>6
<1>. QED  BY <1>4, <1>6, <1>7 DEF U, V, C

LEMMA AskedKinds ==
  /\ Range(GroundKindOrder) = {"collision", "duplication", "teamwide-divergence"}
  /\ \A n \in 1..3 : GroundKindOrder[n] \in Range(GroundKindOrder)
  /\ \A m, n \in 1..3 : GroundKindOrder[m] = GroundKindOrder[n] => m = n
<1>1. DOMAIN GroundKindOrder = 1..3 /\ \A i \in 1..3 : i = 1 \/ i = 2 \/ i = 3
  BY DEF GroundKindOrder
<1>2. \A x : x \in Range(GroundKindOrder) <=> \E i \in 1..3 : x = GroundKindOrder[i]
  BY <1>1 DEF Range
<1>3. /\ GroundKindOrder[1] = "collision" /\ GroundKindOrder[2] = "duplication"
      /\ GroundKindOrder[3] = "teamwide-divergence"
  BY DEF GroundKindOrder
<1>. QED  BY <1>1, <1>2, <1>3

(* What a failed attempt left can be taken for an answer.                  *)
LEMMA HeardIs ==
  ASSUME DetectionInv
  PROVE  /\ pc = "pairwise" => Returned(PairReplies) \subseteq Seq(RawTangle)
         /\ pc = "teamwide" => Returned(TeamReplies) \subseteq Seq(RawTangle)
         /\ pc = "self" => Returned(SelfReplies) \subseteq Seq(RawTangle)
         /\ pc \in Range(GroundKindOrder) =>
              \A reply \in Returned(VerdictReplies(pc)) :
                reply = <<>> \/ reply \in VerdictReplies(pc)
<1>1. left = <<>> \/ left \in RepliesTo(pc)
  BY DEF DetectionInv, Heard
<1>2. /\ PairReplies \subseteq Seq(RawTangle) /\ TeamReplies \subseteq Seq(RawTangle)
      /\ SelfReplies \subseteq Seq(RawTangle) /\ <<>> \in Seq(RawTangle)
  BY DetectorAssumption
<1>4. pc = "pairwise" => RepliesTo(pc) = PairReplies
  BY DEF RepliesTo
<1>5. pc = "teamwide" => RepliesTo(pc) = TeamReplies
  BY DEF RepliesTo
<1>6. pc = "self" => RepliesTo(pc) = SelfReplies
  BY DEF RepliesTo
<1>7. pc \in Range(GroundKindOrder) => RepliesTo(pc) = VerdictReplies(pc)
  BY AskedKinds DEF RepliesTo
<1>. QED  BY <1>1, <1>2, <1>4, <1>5, <1>6, <1>7 DEF Returned
LEMMA InitInv == Init => DetectionInv
<1>1. SUFFICES ASSUME Init PROVE DetectionInv
  OBVIOUS
<1>2. Most >= 1 /\ Most \in Nat
  BY <1>1, SamplesAre DEF Init
<1>3. Shape
  BY <1>1, <1>2 DEF Init, Shape, Calls, MaxToolAttempts
<1>4. Early /\ Heard /\ Judged /\ Counted /\ Ended
  BY <1>1, <1>2 DEF Init, Early, Heard, Judged, Counted, Ended
<1>. QED  BY <1>3, <1>4 DEF DetectionInv

(* A run ends: the next one begins, or the vote is taken.                  *)
LEMMA FinishStep ==
  ASSUME DetectionInv, pc \in {"pairwise", "teamwide"}, NEW found \in Seq(Basic),
         FinishRun(found), pairwise' = <<>>, Fresh,
         UNCHANGED <<atoms, samples, self, verdicts, kept, suppressed>>
  PROVE  DetectionInv'
<1>1. /\ atoms' = atoms /\ samples' = samples /\ self' = self /\ verdicts' = verdicts
      /\ kept' = kept /\ suppressed' = suppressed /\ attempt' = 1 /\ left' = <<>>
  BY DEF Fresh
<1>2. /\ samples \in Nat /\ Most \in Nat /\ Most >= 1 /\ Most' = Most
      /\ runs \in Seq(Seq(Basic)) /\ Len(runs) \in Nat /\ Len(runs) < Most
      /\ cross = <<>> /\ self = <<>> /\ verdicts = <<>> /\ kept = <<>> /\ suppressed = <<>>
  BY <1>1, SamplesAre DEF DetectionInv, Shape, Early, Most
<1>3. /\ runs' = Append(runs, found)
      /\ \/ Len(runs') < samples /\ pc' = "pairwise" /\ cross' = cross /\ floorHeld' = floorHeld
         \/ samples <= 1 /\ pc' = "self" /\ cross' = found /\ floorHeld' = 0
         \/ /\ samples > 1 /\ Len(runs') = samples /\ pc' = "self"
            /\ LET low == {c \in Voted(runs') : BelowFloor(c.k)}
               IN cross' \in Sorted(Voted(runs') \ low) /\ floorHeld' = Cardinality(low)
  BY Zenon DEF FinishRun
<1>4. runs' \in Seq(Seq(Basic)) /\ Len(runs') = Len(runs) + 1 /\ runs'[Len(runs) + 1] = found
  BY <1>2, <1>3
<1>5. Tangle' = TangleOf(Len(runs'), samples)
  BY <1>1, TangleIs DEF Tangle, TangleOf, AllKinds
<1>6. atoms' \in AtomSets /\ samples' \in SampleCounts /\ attempt' \in 1..MaxToolAttempts
  BY <1>1 DEF DetectionInv, Shape, MaxToolAttempts
<1>7. Heard' /\ Judged'
  BY <1>1, <1>2 DEF Heard, Judged
<1>8. CASE Len(runs') < samples /\ pc' = "pairwise" /\ cross' = cross /\ floorHeld' = floorHeld
  <2>1. Shape'
    BY <1>1, <1>2, <1>4, <1>6, <1>8 DEF Shape, Calls, Most
  <2>2. Early' /\ Counted' /\ Ended'
    BY <1>1, <1>2, <1>4, <1>8 DEF Early, Counted, Ended, Most
  <2>. QED  BY <1>7, <2>1, <2>2 DEF DetectionInv
<1>9. CASE samples <= 1 /\ pc' = "self" /\ cross' = found /\ floorHeld' = 0
  <2>1. cross' \in Seq(Tangle')
    BY <1>2, <1>4, <1>5, <1>9, Grows, Widen
  <2>2. Len(runs') = Most /\ Most = 1 /\ runs'[1] = found
    BY <1>2, <1>4, <1>9 DEF Most
  <2>3. Shape'
    BY <1>1, <1>2, <1>4, <1>6, <1>9, <2>1, <2>2 DEF Shape, Calls
  <2>4. Early' /\ Counted' /\ Ended'
    BY <1>1, <1>2, <1>9, <2>2 DEF Early, Counted, Ended
  <2>. QED  BY <1>7, <2>3, <2>4 DEF DetectionInv
<1>10. CASE /\ samples > 1 /\ Len(runs') = samples /\ pc' = "self"
            /\ LET low == {c \in Voted(runs') : BelowFloor(c.k)}
               IN cross' \in Sorted(Voted(runs') \ low) /\ floorHeld' = Cardinality(low)
  <2>1. cross' \in Seq(Vote(Len(runs')))
    BY <1>4, <1>10, VoteIs
  <2>2. cross' \in Seq(Tangle')
    BY <1>2, <1>5, <1>10, <2>1, Grows, Widen
  <2>3. Len(runs') = Most
    BY <1>10 DEF Most
  <2>4. Shape'
    BY <1>1, <1>2, <1>4, <1>6, <1>10, <2>2, <2>3 DEF Shape, Calls
  <2>5. Early' /\ Ended'
    BY <1>1, <1>2, <1>10, <2>3 DEF Early, Ended
  <2>6. Counted'
    BY <1>1, <1>2, <1>10, <2>3 DEF Counted
  <2>. QED  BY <1>7, <2>4, <2>5, <2>6 DEF DetectionInv
<1>. QED  BY <1>3, <1>8, <1>9, <1>10

LEMMA AuthorsIs == ASSUME atoms \in AtomSets PROVE DistinctAuthors \in Nat
<1>1. IsFiniteSet(atoms)
  BY DetectorAssumption
<1>. DEFINE who == [a \in atoms |-> a.from]
            T == {a.from : a \in atoms}
<1>2. who \in Surjection(atoms, T)
  BY DEF Surjection
<1>3. IsFiniteSet(T)
  <2>. HIDE DEF who, T
  <2>. QED  BY <1>1, <1>2, FS_Surjection
<1>. QED  BY <1>3, FS_CardinalityType DEF DistinctAuthors

LEMMA PairwiseStep == ASSUME DetectionInv, PairwisePass PROVE DetectionInv'
<1>1. /\ pc = "pairwise" /\ Fresh
      /\ UNCHANGED <<atoms, samples, self, verdicts, kept, suppressed>>
  BY DEF PairwisePass
<1>2. PICK r \in Returned(PairReplies) : \E found \in {BuildTangles(r, PairwiseKinds, FALSE)} :
        \/ DistinctAuthors < 3 /\ FinishRun(found) /\ pairwise' = <<>>
        \/ /\ DistinctAuthors >= 3
           /\ pairwise' = found /\ pc' = "teamwide" /\ UNCHANGED <<runs, cross, floorHeld>>
  BY Zenon DEF PairwisePass
<1>. DEFINE found == BuildTangles(r, PairwiseKinds, FALSE)
<1>3. found \in Seq(Basic)
  <2>1. r \in Seq(RawTangle)
    BY <1>1, <1>2, HeardIs
  <2>2. atoms \in AtomSets /\ PairwiseKinds \subseteq AllKinds
    BY DEF DetectionInv, Shape, AllKinds
  <2>. QED  BY <2>1, <2>2, BuiltIs
<1>. HIDE DEF found
<1>4. CASE FinishRun(found) /\ pairwise' = <<>>
  BY <1>1, <1>3, <1>4, FinishStep
<1>5. CASE /\ DistinctAuthors >= 3
           /\ pairwise' = found /\ pc' = "teamwide" /\ UNCHANGED <<runs, cross, floorHeld>>
  <2>1. /\ atoms' = atoms /\ samples' = samples /\ self' = self /\ verdicts' = verdicts
        /\ kept' = kept /\ suppressed' = suppressed /\ attempt' = 1 /\ left' = <<>>
        /\ runs' = runs /\ cross' = cross /\ pairwise' = found /\ pc' = "teamwide"
    BY <1>1, <1>5 DEF Fresh
  <2>2. DistinctAuthors \in Nat /\ DistinctAuthors' = DistinctAuthors
    BY <2>1, AuthorsIs DEF DetectionInv, Shape, DistinctAuthors
  <2>3. Tangle' = Tangle /\ Most' = Most
    BY <2>1 DEF Tangle, Most
  <2>4. Shape'
    BY <1>3, <2>1, <2>3 DEF DetectionInv, Shape, Calls, MaxToolAttempts
  <2>5. Early'
    BY <1>1, <1>5, <2>1, <2>2, <2>3 DEF DetectionInv, Early
  <2>6. Heard' /\ Judged' /\ Counted' /\ Ended'
    BY <1>1, <2>1 DEF DetectionInv, Early, Heard, Judged, Counted, Ended
  <2>. QED  BY <2>4, <2>5, <2>6 DEF DetectionInv
<1>. QED  BY <1>2, <1>4, <1>5 DEF found

LEMMA TeamwideStep == ASSUME DetectionInv, TeamwidePass PROVE DetectionInv'
<1>1. /\ pc = "teamwide" /\ Fresh /\ pairwise' = <<>>
      /\ UNCHANGED <<atoms, samples, self, verdicts, kept, suppressed>>
  BY DEF TeamwidePass
<1>2. PICK r \in Returned(TeamReplies) :
        \E found \in {BuildTangles(r, TeamwideKinds, FALSE)} :
          FinishRun(pairwise \o FilterTeamwideQuorum(found))
  BY Zenon DEF TeamwidePass
<1>. DEFINE found == BuildTangles(r, TeamwideKinds, FALSE)
            all == pairwise \o FilterTeamwideQuorum(found)
<1>3. found \in Seq(Basic)
  <2>1. r \in Seq(RawTangle)
    BY <1>1, <1>2, HeardIs
  <2>2. atoms \in AtomSets /\ TeamwideKinds \subseteq AllKinds
    BY DEF DetectionInv, Shape, AllKinds
  <2>. QED  BY <2>1, <2>2, BuiltIs
<1>. HIDE DEF found
<1>4. all \in Seq(Basic)
  <2>1. pairwise \in Seq(Basic) /\ FilterTeamwideQuorum(found) \in Seq(Basic)
    BY <1>3, QuorumIs DEF DetectionInv, Shape
  <2>. QED  BY <2>1
<1>5. FinishRun(all)
  BY <1>2 DEF found
<1>. HIDE DEF all
<1>. QED  BY <1>1, <1>4, <1>5, FinishStep

(* What is shown goes on to the next kind asked, or is split.              *)
LEMMA ContinueIs ==
  ASSUME DetectionInv, pc # "done", NEW ts \in Seq(Tangle), NEW vs, NEW from \in 1..4,
         Continue(ts, vs, from)
  PROVE  /\ pc' = "done" \/ \E n \in 1..3 : n >= from /\ pc' = GroundKindOrder[n]
         /\ kept' \in Seq(Tangle) /\ suppressed' \in Seq(Tangle)
         /\ pc' # "done" => kept' = <<>> /\ suppressed' = <<>>
         /\ pc' = "done" => LET split == ApplyGroundingVerdicts(ts, vs)
                            IN kept' = split.kept /\ suppressed' = split.suppressed
<1>1. pc' = NextGround(ts, from)
  BY DEF Continue
<1>2. kept = <<>> /\ suppressed = <<>>
  BY DEF DetectionInv, Early
<1>. DEFINE split == ApplyGroundingVerdicts(ts, vs)
<1>3. split.kept \in Seq(Tangle) /\ split.suppressed \in Seq(Tangle)
  BY SplitIs
<1>. HIDE DEF split
<1>4. IF pc' = "done" THEN kept' = split.kept /\ suppressed' = split.suppressed
                      ELSE kept' = kept /\ suppressed' = suppressed
  BY DEF Continue, split
<1>5. kept' \in Seq(Tangle) /\ suppressed' \in Seq(Tangle)
  <2>1. CASE pc' = "done"
    BY <1>3, <1>4, <2>1
  <2>2. CASE pc' # "done"
    <3>1. kept' = <<>> /\ suppressed' = <<>>
      BY <1>2, <1>4, <2>2
    <3>. QED  BY <3>1
  <2>. QED  BY <2>1, <2>2
<1>. QED  BY <1>1, <1>2, <1>4, <1>5, NextGroundIs DEF split

LEMMA SelfStep == ASSUME DetectionInv, SelfPass PROVE DetectionInv'
<1>. DEFINE ts == cross \o DedupeSelf(self', cross)
<1>1. /\ pc = "self" /\ attempt' = 1 /\ left' = <<>>
      /\ atoms' = atoms /\ samples' = samples /\ pairwise' = pairwise /\ runs' = runs
      /\ cross' = cross /\ floorHeld' = floorHeld /\ verdicts' = verdicts
  BY DEF SelfPass, Fresh
<1>2. self' \in Seq(Basic)
  <2>1. PICK r \in Returned(SelfReplies) : self' = BuildTangles(r, SelfKinds, TRUE)
    BY DEF SelfPass
  <2>2. r \in Seq(RawTangle)
    BY <1>1, <2>1, HeardIs
  <2>3. atoms \in AtomSets /\ SelfKinds \subseteq AllKinds
    BY DEF DetectionInv, Shape, AllKinds, SelfKinds, PairwiseKinds
  <2>. QED  BY <2>1, <2>2, <2>3, BuiltIs
<1>3. ts \in Seq(Tangle)
  <2>1. Len(runs) \in Nat /\ samples \in Nat /\ cross \in Seq(Tangle)
    BY SamplesAre DEF DetectionInv, Shape
  <2>. QED  BY <1>2, <2>1, TangleIs, ShownIs
<1>4. Continue(ts, verdicts, 1)
  BY DEF SelfPass
<1>5. Tangles' = ts /\ Tangle' = Tangle /\ Most' = Most
  BY <1>1 DEF Tangles, Tangle, Most
<1>. HIDE DEF ts
<1>6. /\ pc' = "done" \/ \E n \in 1..3 : n >= 1 /\ pc' = GroundKindOrder[n]
      /\ kept' \in Seq(Tangle) /\ suppressed' \in Seq(Tangle)
      /\ pc' # "done" => kept' = <<>> /\ suppressed' = <<>>
      /\ pc' = "done" => LET split == ApplyGroundingVerdicts(ts, verdicts)
                         IN kept' = split.kept /\ suppressed' = split.suppressed
  BY <1>1, <1>3, <1>4, ContinueIs
<1>7. pc' \in {"collision", "duplication", "teamwide-divergence", "done"}
  BY <1>6, AskedKinds
<1>8. Shape'
  BY <1>1, <1>2, <1>5, <1>6, <1>7 DEF DetectionInv, Shape, Calls, MaxToolAttempts
<1>9. Early'
  BY <1>1, <1>6, <1>7 DEF DetectionInv, Early
<1>10. Heard' /\ Judged'
  BY <1>1 DEF DetectionInv, Early, Heard, Judged
<1>11. Counted'
  BY <1>1, <1>5 DEF DetectionInv, Counted
<1>12. Ended'
  BY <1>1, <1>5, <1>6 DEF Ended
<1>. QED  BY <1>8, <1>9, <1>10, <1>11, <1>12 DEF DetectionInv

LEMMA GroundStep == ASSUME DetectionInv, GroundCall PROVE DetectionInv'
<1>1. PICK n \in 1..3 :
        /\ pc = GroundKindOrder[n]
        /\ \E reply \in Returned(VerdictReplies(pc)) :
             LET all == [i \in DOMAIN reply \cup DOMAIN verdicts |->
                           IF i \in DOMAIN reply THEN reply[i] ELSE verdicts[i]]
             IN verdicts' = all /\ Continue(Tangles, all, n + 1)
        /\ Fresh
        /\ UNCHANGED <<atoms, samples, pairwise, runs, cross, floorHeld, self>>
  BY Zenon DEF GroundCall
<1>2. /\ attempt' = 1 /\ left' = <<>>
      /\ atoms' = atoms /\ samples' = samples /\ pairwise' = pairwise /\ runs' = runs
      /\ cross' = cross /\ floorHeld' = floorHeld /\ self' = self
  BY <1>1 DEF Fresh
<1>3. PICK reply \in Returned(VerdictReplies(pc)) :
        /\ verdicts' = [i \in DOMAIN reply \cup DOMAIN verdicts |->
                          IF i \in DOMAIN reply THEN reply[i] ELSE verdicts[i]]
        /\ Continue(Tangles, verdicts', n + 1)
  BY <1>1
<1>4. pc \in Range(GroundKindOrder)
  BY <1>1, AskedKinds
<1>5. /\ DOMAIN reply \subseteq DOMAIN Tangles
      /\ ~StrayVerdicts => DOMAIN reply \subseteq Groundable(Tangles, pc)
  <2>1. reply = <<>> \/ reply \in VerdictReplies(pc)
    BY <1>3, <1>4, HeardIs
  <2>2. CASE reply = <<>>
    BY <2>2
  <2>3. CASE reply \in VerdictReplies(pc)
    <3>1. PICK shown : /\ shown = (IF StrayVerdicts THEN DOMAIN Tangles ELSE Groundable(Tangles, pc))
                       /\ \E S \in SUBSET shown : reply \in [S -> BOOLEAN]
      BY <2>3 DEF VerdictReplies
    <3>2. DOMAIN reply \subseteq shown
      BY <3>1
    <3>3. Groundable(Tangles, pc) \subseteq DOMAIN Tangles
      BY DEF Groundable
    <3>. QED  BY <3>1, <3>2, <3>3
  <2>. QED  BY <2>1, <2>2, <2>3
<1>6. Tangles \in Seq(Tangle)
  <2>1. Len(runs) \in Nat /\ samples \in Nat /\ cross \in Seq(Tangle) /\ self \in Seq(Basic)
    BY SamplesAre DEF DetectionInv, Shape
  <2>. QED  BY <2>1, TangleIs, ShownIs DEF Tangles
<1>7. Tangles' = Tangles /\ Tangle' = Tangle /\ Most' = Most
  BY <1>2 DEF Tangles, Tangle, Most
<1>8. pc \in {"collision", "duplication", "teamwide-divergence"}
  BY <1>4, AskedKinds
<1>9. /\ pc' = "done" \/ \E k \in 1..3 : k >= n + 1 /\ pc' = GroundKindOrder[k]
      /\ kept' \in Seq(Tangle) /\ suppressed' \in Seq(Tangle)
      /\ pc' # "done" => kept' = <<>> /\ suppressed' = <<>>
      /\ pc' = "done" => LET split == ApplyGroundingVerdicts(Tangles, verdicts')
                         IN kept' = split.kept /\ suppressed' = split.suppressed
  <2>1. pc # "done" /\ n + 1 \in 1..4
    BY <1>8
  <2>. QED  BY <1>3, <1>6, <2>1, ContinueIs
<1>10. pc' \in {"collision", "duplication", "teamwide-divergence", "done"}
  BY <1>9, AskedKinds
<1>11. Shape'
  BY <1>2, <1>7, <1>9, <1>10 DEF DetectionInv, Shape, Calls, MaxToolAttempts
<1>12. Early'
  BY <1>9, <1>10 DEF Early
<1>13. Judged'
  <2>1. DOMAIN verdicts' = DOMAIN reply \cup DOMAIN verdicts
    BY <1>3
  <2>2. \A i \in DOMAIN reply :
          /\ i \in DOMAIN Tangles
          /\ ~StrayVerdicts => /\ Tangles[i].kind \in Range(GroundKindOrder)
                               /\ MultiPerson(Tangles[i])
    BY <1>4, <1>5 DEF Groundable
  <2>. QED  BY <1>7, <2>1, <2>2 DEF DetectionInv, Judged
<1>14. Heard'
  BY <1>2 DEF Heard
<1>15. Counted'
  BY <1>2, <1>7, <1>8 DEF DetectionInv, Counted
<1>16. Ended'
  BY <1>7, <1>9 DEF Ended
<1>. QED  BY <1>11, <1>12, <1>13, <1>14, <1>15, <1>16 DEF DetectionInv

(* A miss leaves a reply to the call that is made again.                   *)
LEMMA MissStep == ASSUME DetectionInv, Miss PROVE DetectionInv'
<1>1. /\ pc \in Calls
      /\ atoms' = atoms /\ samples' = samples /\ pairwise' = pairwise /\ runs' = runs
      /\ cross' = cross /\ floorHeld' = floorHeld /\ self' = self /\ verdicts' = verdicts
      /\ kept' = kept /\ suppressed' = suppressed
  BY DEF Miss
<1>2. /\ Tangles' = Tangles /\ Tangle' = Tangle /\ Most' = Most
      /\ DistinctAuthors' = DistinctAuthors
  BY <1>1 DEF Tangles, Tangle, Most, DistinctAuthors
<1>3. \/ attempt < MaxToolAttempts /\ attempt' = attempt + 1 /\ pc' = pc
         /\ left' \in {left} \cup RepliesTo(pc)
      \/ pc' = "failed" /\ attempt' = 1 /\ left' = <<>>
  BY DEF Miss, Fresh
<1>4. attempt' \in 1..MaxToolAttempts
  BY <1>3 DEF DetectionInv, Shape, MaxToolAttempts
<1>5. pc' = pc \/ pc' = "failed"
  BY <1>3
<1>6. pc # "done" /\ pc' # "done"
  BY <1>1, <1>5 DEF Calls
<1>7. Shape'
  BY <1>1, <1>2, <1>4, <1>5 DEF DetectionInv, Shape
<1>8. Early'
  BY <1>1, <1>2, <1>5, <1>6 DEF DetectionInv, Early
<1>9. Heard'
  <2>1. CASE left' = <<>>
    BY <2>1 DEF Heard
  <2>2. CASE left' # <<>>
    <3>1. pc' = pc /\ left' \in {left} \cup RepliesTo(pc)
      BY <1>3, <2>2
    <3>2. left' \in RepliesTo(pc)
      BY <2>2, <3>1 DEF DetectionInv, Heard
    <3>3. \A call : VerdictReplies(call)' = VerdictReplies(call)
      BY <1>2 DEF VerdictReplies, Groundable
    <3>4. RepliesTo(pc)' = RepliesTo(pc)
      BY <3>1, <3>3 DEF RepliesTo
    <3>. QED  BY <1>1, <3>1, <3>2, <3>4 DEF Heard
  <2>. QED  BY <2>1, <2>2
<1>10. Judged'
  BY <1>1, <1>2 DEF DetectionInv, Judged
<1>11. Counted'
  BY <1>1, <1>2, <1>5 DEF DetectionInv, Counted
<1>12. Ended'
  BY <1>6 DEF Ended
<1>. QED  BY <1>7, <1>8, <1>9, <1>10, <1>11, <1>12 DEF DetectionInv

LEMMA FailStep == ASSUME DetectionInv, CallFails PROVE DetectionInv'
<1>1. /\ pc \in Calls /\ pc' = "failed" /\ attempt' = 1 /\ left' = <<>>
      /\ atoms' = atoms /\ samples' = samples /\ pairwise' = pairwise /\ runs' = runs
      /\ cross' = cross /\ floorHeld' = floorHeld /\ self' = self /\ verdicts' = verdicts
      /\ kept' = kept /\ suppressed' = suppressed
  BY DEF CallFails, Fresh
<1>2. Tangles' = Tangles /\ Tangle' = Tangle /\ Most' = Most
  BY <1>1 DEF Tangles, Tangle, Most
<1>3. Shape'
  BY <1>1, <1>2 DEF DetectionInv, Shape, MaxToolAttempts
<1>4. Early' /\ Heard' /\ Counted' /\ Ended'
  BY <1>1 DEF DetectionInv, Calls, Early, Heard, Counted, Ended
<1>5. Judged'
  BY <1>1, <1>2 DEF DetectionInv, Judged
<1>. QED  BY <1>3, <1>4, <1>5 DEF DetectionInv

LEMMA StepInv == DetectionInv /\ [Next]_vars => DetectionInv'
<1>1. SUFFICES ASSUME DetectionInv, [Next]_vars PROVE DetectionInv'
  OBVIOUS
<1>2. CASE UNCHANGED vars
  <2>1. /\ atoms' = atoms /\ samples' = samples /\ pc' = pc /\ attempt' = attempt
        /\ left' = left /\ pairwise' = pairwise /\ runs' = runs /\ cross' = cross
        /\ floorHeld' = floorHeld /\ self' = self /\ verdicts' = verdicts
        /\ kept' = kept /\ suppressed' = suppressed
    BY <1>2 DEF vars
  <2>2. /\ Tangles' = Tangles /\ Tangle' = Tangle /\ Most' = Most
        /\ DistinctAuthors' = DistinctAuthors
    BY <2>1 DEF Tangles, Tangle, Most, DistinctAuthors
  <2>3. RepliesTo(pc)' = RepliesTo(pc)
    BY <2>1, <2>2 DEF RepliesTo, VerdictReplies, Groundable
  <2>4. Shape' /\ Early'
    BY <1>1, <2>1, <2>2 DEF DetectionInv, Shape, Early
  <2>5. Heard' /\ Judged'
    BY <1>1, <2>1, <2>2, <2>3 DEF DetectionInv, Heard, Judged
  <2>6. Counted' /\ Ended'
    BY <1>1, <2>1, <2>2 DEF DetectionInv, Counted, Ended
  <2>. QED  BY <2>4, <2>5, <2>6 DEF DetectionInv
<1>. QED  BY <1>1, <1>2, PairwiseStep, TeamwideStep, SelfStep, GroundStep, MissStep, FailStep
          DEF Next

LEMMA AlwaysInv == Spec => []DetectionInv
<1>. QED  BY InitInv, StepInv, PTL DEF Spec
-----------------------------------------------------------------------------
(* Theorems.                                                               *)

LEMMA TypeInv == DetectionInv => TypeOK
<1>1. SUFFICES ASSUME DetectionInv PROVE TypeOK
  OBVIOUS
<1>2. /\ samples \in Nat /\ Most = Max({1, samples}) /\ Len(runs) \in Nat
      /\ Tangle = TangleOf(Len(runs), samples)
  BY <1>1, SamplesAre, TangleIs DEF DetectionInv, Shape
<1>3. pairwise \in Seq(Tangle) /\ self \in Seq(Tangle)
  BY <1>1, <1>2, Grows, Widen DEF DetectionInv, Shape
<1>4. DOMAIN verdicts \subseteq DOMAIN Tangles
  BY <1>1 DEF DetectionInv, Judged
<1>. QED  BY <1>1, <1>2, <1>3, <1>4 DEF DetectionInv, Shape, TypeOK

LEMMA EndedIs ==
  ASSUME DetectionInv, pc = "done"
  PROVE  /\ \A n \in DOMAIN suppressed :
              \E i \in DOMAIN verdicts : suppressed[n] = Tangles[i] /\ MultiPerson(Tangles[i])
         /\ Len(kept) + Len(suppressed) = Len(Tangles)
<1>1. Tangles \in Seq(Tangle)
  <2>1. Len(runs) \in Nat /\ samples \in Nat /\ cross \in Seq(Tangle) /\ self \in Seq(Basic)
    BY SamplesAre DEF DetectionInv, Shape
  <2>. QED  BY <2>1, TangleIs, ShownIs DEF Tangles
<1>. DEFINE split == ApplyGroundingVerdicts(Tangles, verdicts)
<1>2. kept = split.kept /\ suppressed = split.suppressed
  BY DEF DetectionInv, Ended
<1>3. /\ \A n \in DOMAIN split.suppressed :
           \E i \in DOMAIN verdicts \cap DOMAIN Tangles :
             split.suppressed[n] = Tangles[i] /\ MultiPerson(Tangles[i])
      /\ Len(split.kept) + Len(split.suppressed) = Len(Tangles)
  BY <1>1, SplitIs
<1>. HIDE DEF split
<1>. QED  BY <1>2, <1>3

(* The coupling check holds back only tangles between people, whatever     *)
(* index its verdicts name, and every tangle is kept or listed as held     *)
(* back (ground.go 195-216); tangles, verdicts and attempts stay well      *)
(* formed at every call.                                                   *)
HeldBackIsListed ==
  /\ TypeOK
  /\ pc = "done" => /\ \A n \in DOMAIN suppressed : MultiPerson(suppressed[n])
                    /\ Len(kept) + Len(suppressed) = Len(Tangles)

THEOREM NothingVanishes == Spec => []HeldBackIsListed
<1>1. DetectionInv => HeldBackIsListed
  BY TypeInv, EndedIs DEF HeldBackIsListed
<1>. QED  BY <1>1, AlwaysInv, PTL

(* Where the coupling check judges only the indices it was shown, it holds *)
(* back only the kinds it adjudicates (ground.go 86-88).                   *)
THEOREM HeldBackWasAsked ==
  ASSUME ~StrayVerdicts PROVE Spec => []OnlyCheckedKindsHeldBack
<1>1. DetectionInv => OnlyCheckedKindsHeldBack
  <2>1. SUFFICES ASSUME DetectionInv PROVE OnlyCheckedKindsHeldBack
    OBVIOUS
  <2>2. \A i \in DOMAIN verdicts : Tangles[i].kind \in Range(GroundKindOrder)
    BY <2>1 DEF DetectionInv, Judged
  <2>. QED  BY <2>1, <2>2, TypeInv, EndedIs DEF OnlyCheckedKindsHeldBack
<1>. QED  BY <1>1, AlwaysInv, PTL

(* A detection that ends with nothing to show, nothing held back and       *)
(* nothing below the floor found nothing in any of its runs                *)
(* (docs/LEGIBILITY.md 0a).                                                *)
THEOREM AllClearIsAllClear == Spec => []ClearMeansNothingFound
<1>1. DetectionInv => ClearMeansNothingFound
  <2>1. SUFFICES ASSUME DetectionInv, pc = "done", kept = <<>>, suppressed = <<>>, floorHeld = 0
                 PROVE  /\ Len(runs) = Max({1, samples}) /\ self = <<>>
                        /\ \A r \in DOMAIN runs : runs[r] = <<>>
    BY DEF ClearMeansNothingFound
  <2>2. /\ samples \in Nat /\ Most = Max({1, samples}) /\ runs \in Seq(Seq(Basic))
        /\ cross \in Seq(Tangle) /\ self \in Seq(Basic)
    BY <2>1, SamplesAre DEF DetectionInv, Shape
  <2>3. Len(runs) = Most
    BY <2>1 DEF DetectionInv, Counted
  <2>4. Len(Tangles) = 0
    BY <2>1, EndedIs
  <2>. DEFINE own == DedupeSelf(self, cross)
  <2>5. own \in Seq(Basic) /\ (cross = <<>> => Len(own) = Len(self))
    BY <2>2, DedupeIs
  <2>6. Tangles = cross \o own
    BY DEF Tangles
  <2>. HIDE DEF own
  <2>7. Len(cross) = 0 /\ Len(own) = 0
    BY <2>2, <2>4, <2>5, <2>6
  <2>8. cross = <<>> /\ self = <<>>
    BY <2>2, <2>5, <2>7
  <2>9. \A r \in DOMAIN runs : runs[r] = <<>>
    <3>1. CASE samples <= 1
      <4>1. cross = runs[1] /\ Len(runs) = 1
        BY <2>1, <2>2, <2>3, <3>1 DEF DetectionInv, Counted, Most
      <4>. QED  BY <2>2, <2>8, <4>1
    <3>2. CASE samples > 1
      <4>. DEFINE low == {c \in Voted(runs) : BelowFloor(c.k)}
                  N == Len(Items(runs))
                  C == Clusters(Items(runs))
      <4>1. cross \in Sorted(Voted(runs) \ low) /\ Cardinality(low) = 0
        BY <2>1, <3>2 DEF DetectionInv, Counted
      <4>2. low \in SUBSET Voted(runs)
        OBVIOUS
      <4>. HIDE DEF low
      <4>3. Len(cross) + Cardinality(low) = Cardinality(C)
        BY <2>2, <4>1, <4>2, VoteIs
      <4>4. Cardinality(C) = 0
        BY <2>7, <4>1, <4>3
      <4>5. Items(runs) \in Seq(Item(Basic, Len(runs))) /\ \A r \in 1..Len(runs) : Len(runs[r]) <= N
        BY <2>2, ItemsAre
      <4>6. IsFiniteSet(C) /\ \A i \in 1..N : \E c \in C : i \in c
        BY <4>5, ClustersFinite, ClustersAreClasses DEF Classes, Parts
      <4>7. 1..N = {} /\ N \in Nat
        <5>1. C = {}
          BY <4>4, <4>6, FS_EmptySet
        <5>. QED  BY <4>5, <4>6, <5>1
      <4>8. N = 0
        <5>. HIDE DEF N
        <5>. QED  BY <4>7
      <4>9. \A r \in 1..Len(runs) : runs[r] \in Seq(Basic) /\ Len(runs[r]) = 0
        <5>1. \A r \in 1..Len(runs) : runs[r] \in Seq(Basic)
          BY <2>2
        <5>2. \A r \in 1..Len(runs) : Len(runs[r]) <= 0 /\ Len(runs[r]) \in Nat
          BY <4>5, <4>8, <5>1
        <5>. QED  BY <5>1, <5>2
      <4>. QED  BY <2>2, <4>9
    <3>. QED  BY <2>2, <3>1, <3>2
  <2>. QED  BY <2>2, <2>3, <2>8, <2>9
<1>. QED  BY <1>1, AlwaysInv, PTL

(* The vote as the invariant gives it: each class of the items with its    *)
(* tangle, the low ones dropped and counted, the others shown.             *)
LEMMA JustVotedIs ==
  ASSUME DetectionInv, JustVoted
  PROVE  LET low == {c \in Voted(runs) : BelowFloor(c.k)}
             items == Items(runs)
         IN /\ samples \in Nat /\ samples > 1 /\ Len(runs) = samples
            /\ runs \in Seq(Seq(Basic)) /\ items \in Seq(Item(Basic, samples))
            /\ floorHeld = Cardinality(low) /\ IsFiniteSet(low)
            /\ Len(cross) + floorHeld = Cardinality(Clusters(items))
            /\ \A n \in DOMAIN cross : \E v \in Voted(runs) \ low : cross[n] = v.k
            /\ \A v \in Voted(runs) \ low : \E n \in DOMAIN cross : cross[n] = v.k
<1>. DEFINE low == {c \in Voted(runs) : BelowFloor(c.k)}
<1>1. samples \in Nat /\ samples > 1 /\ runs \in Seq(Seq(Basic))
  BY SamplesAre DEF DetectionInv, Shape, JustVoted
<1>2. Len(runs) = samples /\ cross \in Sorted(Voted(runs) \ low) /\ floorHeld = Cardinality(low)
  BY <1>1 DEF DetectionInv, Counted, JustVoted, Most
<1>3. low \in SUBSET Voted(runs)
  OBVIOUS
<1>. HIDE DEF low
<1>4. /\ IsFiniteSet(low) /\ Len(cross) + Cardinality(low) = Cardinality(Clusters(Items(runs)))
      /\ \A n \in DOMAIN cross : \E v \in Voted(runs) \ low : cross[n] = v.k
      /\ \A v \in Voted(runs) \ low : \E n \in DOMAIN cross : cross[n] = v.k
  BY <1>1, <1>2, <1>3, VoteIs
<1>5. Items(runs) \in Seq(Item(Basic, samples))
  BY <1>1, <1>2, ItemsAre
<1>. QED  BY <1>1, <1>2, <1>4, <1>5 DEF low

(* What the firm bar would assert the abstention floor has not dropped,    *)
(* for any likeness of topics and any number of samples (mesh.go 183-185). *)
THEOREM FloorSparesTheFirm == Spec => []FloorBelowBar
<1>1. DetectionInv => FloorBelowBar
  <2>. DEFINE items == Items(runs)
              low == {c \in Voted(runs) : BelowFloor(c.k)}
              n(i) == RunsOf(items, Reachable(items, i))
              asserted(i) == Firm([items[i].k EXCEPT !.votes = n(i), !.samples = samples])
  <2>1. SUFFICES ASSUME DetectionInv, JustVoted, NEW i \in DOMAIN items, asserted(i)
                 PROVE  \E c \in DOMAIN cross : cross[c].votes = n(i)
    BY DEF FloorBelowBar
  <2>2. /\ samples \in Nat /\ samples > 1 /\ Len(runs) = samples
        /\ runs \in Seq(Seq(Basic)) /\ items \in Seq(Item(Basic, samples))
        /\ \A v \in Voted(runs) \ low : \E c \in DOMAIN cross : cross[c] = v.k
    BY <2>1, JustVotedIs
  <2>3. Reachable(items, i) \in Clusters(items)
    BY <2>1, <2>2, ClassesAreReached
  <2>4. PICK v \in Voted(runs) : v.members = Reachable(items, i)
    BY <2>2, <2>3, VotedIs
  <2>5. v.k \in Vote(samples) /\ v.k.votes = n(i) /\ v.k.samples = samples
    BY <2>2, <2>4, VotedIs
  <2>6. n(i) \in Nat
    BY <2>5 DEF Vote
  <2>7. 10 * n(i) >= 3 * samples
    <3>1. items[i].k \in Basic
      <4>1. i \in DOMAIN items /\ items \in Seq(Item(Basic, samples))
        BY <2>1, <2>2
      <4>. HIDE DEF items
      <4>2. items[i] \in Item(Basic, samples)
        BY <4>1
      <4>. QED  BY <4>2 DEF Item
    <3>. DEFINE k == [items[i].k EXCEPT !.votes = n(i), !.samples = samples]
    <3>2. k.votes = n(i) /\ k.samples = samples
      BY <3>1 DEF Basic
    <3>. HIDE DEF k, n, items
    <3>3. 10 * n(i) >= FirmBar(k.kind) * samples
      BY <2>1, <2>2, <3>2 DEF Firm, k
    <3>4. FirmBar(k.kind) = 3 \/ FirmBar(k.kind) = 5
      BY DEF FirmBar
    <3>. QED  BY <2>2, <2>6, <3>3, <3>4
  <2>8. ~BelowFloor(v.k)
    <3>. HIDE DEF n
    <3>. QED  BY <2>2, <2>5, <2>6, <2>7 DEF BelowFloor
  <2>9. v \in Voted(runs) \ low
    BY <2>4, <2>8
  <2>10. PICK c \in DOMAIN cross : cross[c] = v.k
    BY <2>2, <2>9
  <2>. QED  BY <2>5, <2>10
<1>. QED  BY <1>1, AlwaysInv, PTL

(* The vote's clusters are the classes of tangles that name the same       *)
(* problem, in any order of arrival; each class shown carries the number   *)
(* of runs that surfaced it, and the others are the ones counted among the *)
(* dropped (mesh.go 984-991).                                              *)
THEOREM VoteIsOverRuns == Spec => []VoteCountsRuns
<1>1. DetectionInv => VoteCountsRuns
  <2>. DEFINE items == Items(runs)
              low == {c \in Voted(runs) : BelowFloor(c.k)}
              C == Clusters(items)
              shown(class) == {c \in DOMAIN cross : \E i \in class :
                                 /\ cross[c].parties = items[i].k.parties
                                 /\ cross[c].topic = items[i].k.topic
                                 /\ cross[c].votes = RunsOf(items, class)
                                 /\ cross[c].samples = samples}
              unseen == {class \in C : shown(class) = {}}
  <2>1. SUFFICES ASSUME DetectionInv, JustVoted
                 PROVE  Len(cross) + floorHeld = Cardinality(C) /\ Cardinality(unseen) = floorHeld
    <3>1. ASSUME DetectionInv, JustVoted
          PROVE  {Reachable(items, i) : i \in DOMAIN items} = C
      BY <3>1, JustVotedIs, ClassesAreReached
    <3>. QED  BY <3>1 DEF VoteCountsRuns
  <2>2. /\ samples \in Nat /\ Len(runs) = samples
        /\ runs \in Seq(Seq(Basic))
        /\ floorHeld = Cardinality(low) /\ IsFiniteSet(low)
        /\ Len(cross) + floorHeld = Cardinality(C)
        /\ \A n \in DOMAIN cross : \E v \in Voted(runs) \ low : cross[n] = v.k
        /\ \A v \in Voted(runs) \ low : \E n \in DOMAIN cross : cross[n] = v.k
    BY <2>1, JustVotedIs
  <2>3. /\ \A v \in Voted(runs) :
             /\ v.members \in C
             /\ v.k \in Vote(samples)
             /\ v.k.votes = RunsOf(items, v.members)
             /\ v.k.samples = samples
             /\ \E i \in v.members : /\ v.k.parties = items[i].k.parties
                                     /\ v.k.topic = items[i].k.topic
        /\ \A c \in C : \E v \in Voted(runs) : v.members = c
        /\ \A v, w \in Voted(runs) : v.members = w.members => v = w
    BY <2>2, VotedIs
  <2>4. \A v \in low : v \in Voted(runs) /\ BelowFloor(v.k)
    OBVIOUS
  <2>5. \A v \in Voted(runs) : v \in low <=> BelowFloor(v.k)
    OBVIOUS
  <2>. HIDE DEF low, items, C
  <2>6. \A v \in Voted(runs) \ low : shown(v.members) # {}
    <3>1. SUFFICES ASSUME NEW v \in Voted(runs) \ low PROVE shown(v.members) # {}
      OBVIOUS
    <3>2. PICK c \in DOMAIN cross : cross[c] = v.k
      BY <2>2
    <3>. QED  BY <2>3, <3>2
  <2>7. \A v \in low : shown(v.members) = {}
    <3>1. SUFFICES ASSUME NEW v \in low, NEW c \in DOMAIN cross,
                          cross[c].votes = RunsOf(items, v.members)
                   PROVE  FALSE
      OBVIOUS
    <3>2. PICK w \in Voted(runs) \ low : cross[c] = w.k
      BY <2>2
    <3>3. w.k.votes = v.k.votes /\ w.k.samples = samples /\ v.k.samples = samples
      BY <2>3, <2>4, <3>1, <3>2
    <3>4. BelowFloor(v.k) /\ ~BelowFloor(w.k)
      BY <2>4, <2>5, <3>2
    <3>. QED  BY <3>3, <3>4 DEF BelowFloor
  <2>8. \A class \in unseen : class \in C /\ shown(class) = {}
    OBVIOUS
  <2>9. \A class \in C : shown(class) = {} => class \in unseen
    OBVIOUS
  <2>. HIDE DEF shown, unseen
  <2>. DEFINE class == [v \in low |-> v.members]
  <2>10. \A v \in low : class[v] = v.members /\ v.members \in unseen
    BY <2>3, <2>4, <2>7, <2>9
  <2>11. \A u \in unseen : \E v \in low : class[v] = u
    <3>1. SUFFICES ASSUME NEW u \in unseen PROVE \E v \in low : class[v] = u
      OBVIOUS
    <3>2. PICK v \in Voted(runs) : v.members = u
      BY <2>3, <2>8
    <3>3. v \in low
      BY <2>6, <2>8, <3>2
    <3>. QED  BY <2>10, <3>2, <3>3
  <2>12. \A v, w \in low : class[v] = class[w] => v = w
    BY <2>3, <2>4, <2>10
  <2>13. class \in [low -> unseen]
    BY <2>10
  <2>. HIDE DEF class
  <2>14. class \in Surjection(low, unseen) /\ class \in Injection(low, unseen)
    BY <2>11, <2>12, <2>13 DEF Surjection, Injection, IsInjective
  <2>15. Cardinality(unseen) = Cardinality(low)
    BY <2>2, <2>14, FS_Surjection
  <2>. QED  BY <2>2, <2>15
<1>. QED  BY <1>1, AlwaysInv, PTL

-----------------------------------------------------------------------------
(* What a detection may still spend.                                       *)

PlaceOf(p) == SelectInSeq(GroundKindOrder, LAMBDA k : k = p)

LEMMA PlaceIs == \A n \in 1..3 : PlaceOf(GroundKindOrder[n]) = n
<1>1. SUFFICES ASSUME NEW n \in 1..3, NEW p, p = GroundKindOrder[n] PROVE PlaceOf(p) = n
  OBVIOUS
<1>. DEFINE I == {i \in 1..Len(GroundKindOrder) : GroundKindOrder[i] = p}
<1>2. Len(GroundKindOrder) = 3
  BY DEF GroundKindOrder
<1>3. I = {n}
  BY <1>1, <1>2, AskedKinds
<1>4. PlaceOf(p) = IF I # {} THEN Min(I) ELSE 0
  BY DEF PlaceOf, SelectInSeq
<1>. HIDE DEF I
<1>5. Min(I) \in I
  BY <1>3, MinIs
<1>. QED  BY <1>3, <1>4, <1>5

(* The calls still to come, spelled out.                                   *)
PerRun == IF DistinctAuthors < 3 THEN 1 ELSE 2
CallsAhead ==
  /\ pc = "pairwise" => CallsAfter = PerRun * (Most - Len(runs)) + 3
  /\ pc = "teamwide" => CallsAfter = PerRun * (Most - Len(runs)) + 2
  /\ pc = "self" => CallsAfter = 3
  /\ \A n \in 1..3 : pc = GroundKindOrder[n] => CallsAfter = 3 - n

LEMMA CallsAre == DetectionInv => CallsAhead
<1>. SUFFICES ASSUME DetectionInv PROVE CallsAhead
  OBVIOUS
<1>1. Most = Max({1, samples})
  BY SamplesAre DEF DetectionInv, Shape
<1>2. \A n \in 1..3 : pc = GroundKindOrder[n] => CallsAfter = 3 - n
  <2>1. SUFFICES ASSUME NEW n \in 1..3, pc = GroundKindOrder[n] PROVE CallsAfter = 3 - n
    OBVIOUS
  <2>2. pc \notin {"pairwise", "teamwide", "self"}
    BY <2>1, AskedKinds
  <2>3. CallsAfter = 3 - PlaceOf(pc)
    BY <2>2 DEF CallsAfter, PlaceOf
  <2>. QED  BY <2>1, <2>3, PlaceIs
<1>. QED  BY <1>1, <1>2 DEF CallsAfter, CallsAhead, PerRun
LEMMA LessToSpend ==
  ASSUME NEW m \in Nat, NEW n \in Nat, n < m, NEW a \in 1..3
  PROVE  3 * n + (4 - 1) < 3 * m + (4 - a)
  OBVIOUS

(* A run ends one call or two calls of the budget later.                   *)
LEMMA FinishSpends ==
  ASSUME DetectionInv, CallsAhead, CallsAhead', NEW found, FinishRun(found), Fresh,
         UNCHANGED <<atoms, samples>>,
         \/ pc = "pairwise" /\ DistinctAuthors < 3
         \/ pc = "teamwide"
  PROVE  Budget' < Budget
<1>. DEFINE left0 == Most - Len(runs)
<1>1. /\ attempt' = 1 /\ attempt \in 1..3
      /\ samples \in Nat /\ Most \in Nat /\ Len(runs) \in Nat /\ Len(runs) < Most
      /\ runs \in Seq(Seq(Basic))
      /\ pc = "teamwide" => ~(DistinctAuthors < 3)
  BY SamplesAre DEF DetectionInv, Shape, Early, MaxToolAttempts, Fresh
<1>2. PerRun' = PerRun /\ Most' = Most
  BY DEF PerRun, Most, DistinctAuthors
<1>3. /\ runs' = Append(runs, found)
      /\ \/ pc' = "pairwise" /\ Len(runs') < samples
         \/ pc' = "self"
  BY Zenon DEF FinishRun
<1>4. Len(runs') = Len(runs) + 1
  BY <1>1, <1>3
<1>5. CallsAfter \in Nat /\ CallsAfter' \in Nat /\ CallsAfter' < CallsAfter
  <2>1. CASE pc = "pairwise" /\ DistinctAuthors < 3
    <3>1. PerRun = 1 /\ CallsAfter = PerRun * (Most - Len(runs)) + 3
      BY <2>1 DEF PerRun, CallsAhead
    <3>2. CallsAfter = (Most - Len(runs)) + 3
      BY <1>1, <3>1
    <3>3. CASE pc' = "pairwise" /\ Len(runs') < samples
      <4>1. CallsAfter' = PerRun' * (Most' - Len(runs')) + 3
        BY <3>3 DEF CallsAhead
      <4>2. CallsAfter' = (Most - (Len(runs) + 1)) + 3
        BY <1>1, <1>2, <1>4, <3>1, <4>1
      <4>. QED  BY <1>1, <3>2, <4>2
    <3>4. CASE pc' = "self"
      <4>1. CallsAfter' = 3
        BY <3>4 DEF CallsAhead
      <4>. QED  BY <1>1, <3>2, <4>1
    <3>. QED  BY <1>3, <3>3, <3>4
  <2>2. CASE pc = "teamwide"
    <3>1. PerRun = 2 /\ CallsAfter = PerRun * (Most - Len(runs)) + 2
      BY <1>1, <2>2 DEF PerRun, CallsAhead
    <3>2. CallsAfter = 2 * (Most - Len(runs)) + 2
      BY <1>1, <3>1
    <3>3. CASE pc' = "pairwise" /\ Len(runs') < samples
      <4>1. CallsAfter' = PerRun' * (Most' - Len(runs')) + 3
        BY <3>3 DEF CallsAhead
      <4>2. CallsAfter' = 2 * (Most - (Len(runs) + 1)) + 3
        BY <1>1, <1>2, <1>4, <3>1, <4>1
      <4>. QED  BY <1>1, <3>2, <4>2
    <3>4. CASE pc' = "self"
      <4>1. CallsAfter' = 3
        BY <3>4 DEF CallsAhead
      <4>. QED  BY <1>1, <3>2, <4>1
    <3>. QED  BY <1>3, <3>3, <3>4
  <2>. QED  BY <2>1, <2>2
<1>6. pc \in Calls /\ pc' \in Calls
  BY <1>3 DEF Calls
<1>7. Budget = 3 * CallsAfter + (4 - attempt) /\ Budget' = 3 * CallsAfter' + (4 - attempt')
  BY <1>6 DEF Budget, MaxToolAttempts
<1>. QED  BY <1>1, <1>5, <1>7, LessToSpend

LEMMA CallsAreFew ==
  ASSUME DetectionInv, CallsAhead, pc \in Calls
  PROVE  CallsAfter \in Nat
<1>0. /\ Most \in Nat /\ Len(runs) \in Nat
      /\ pc \in {"pairwise", "teamwide"} => Len(runs) < Most
  BY SamplesAre DEF DetectionInv, Shape, Early
<1>1. PerRun \in {1, 2}
  BY DEF PerRun
<1>2. PerRun * (Most - Len(runs)) = Most - Len(runs) \/ PerRun * (Most - Len(runs)) = 2 * (Most - Len(runs))
  BY <1>0, <1>1
<1>3. CASE pc \in {"pairwise", "teamwide"}
  <2>. DEFINE x == PerRun * (Most - Len(runs))
  <2>1. x \in Nat
    BY <1>0, <1>2, <1>3
  <2>2. CallsAfter = x + 3 \/ CallsAfter = x + 2
    BY <1>3 DEF CallsAhead
  <2>. HIDE DEF x
  <2>. QED  BY <2>1, <2>2
<1>4. CASE pc = "self"
  BY <1>4 DEF CallsAhead
<1>5. CASE pc \in Range(GroundKindOrder)
  <2>1. PICK n \in 1..3 : pc = GroundKindOrder[n]
    BY <1>5, AskedKinds DEF GroundKindOrder
  <2>. QED  BY <2>1 DEF CallsAhead
<1>. QED  BY <1>3, <1>4, <1>5, AskedKinds DEF Calls

LEMMA SpendStep ==
  ASSUME DetectionInv, CallsAhead, CallsAhead', Next
  PROVE  Budget' < Budget
<1>1. /\ attempt \in 1..3 /\ samples \in Nat /\ Most \in Nat /\ Len(runs) \in Nat
      /\ pc \in {"pairwise", "teamwide"} => Len(runs) < Most
  BY SamplesAre DEF DetectionInv, Shape, Early, MaxToolAttempts
<1>2. /\ pc \in Calls => Budget = 3 * CallsAfter + (4 - attempt)
      /\ pc' \in Calls => Budget' = 3 * CallsAfter' + (4 - attempt')
      /\ pc' \notin Calls => Budget' = 0
  BY DEF Budget, MaxToolAttempts
<1>3. pc \in Calls => CallsAfter \in Nat
  BY CallsAreFew
<1>4. CASE PairwisePass
  <2>1. pc = "pairwise" /\ Fresh /\ UNCHANGED <<atoms, samples>>
    BY <1>4 DEF PairwisePass
  <2>2. \E found : \/ DistinctAuthors < 3 /\ FinishRun(found)
                   \/ DistinctAuthors >= 3 /\ pc' = "teamwide" /\ UNCHANGED runs
    BY <1>4, Zenon DEF PairwisePass
  <2>3. CASE \E found : DistinctAuthors < 3 /\ FinishRun(found)
    BY <2>1, <2>3, FinishSpends
  <2>4. CASE DistinctAuthors >= 3 /\ pc' = "teamwide" /\ UNCHANGED runs
    <3>1. DistinctAuthors \in Nat
      BY AuthorsIs DEF DetectionInv, Shape
    <3>2. PerRun = 2 /\ PerRun' = 2 /\ Most' = Most /\ runs' = runs /\ attempt' = 1
      BY <2>1, <2>4, <3>1 DEF PerRun, Most, DistinctAuthors, Fresh
    <3>3. CallsAfter = PerRun * (Most - Len(runs)) + 3
          /\ CallsAfter' = PerRun' * (Most' - Len(runs')) + 2
      BY <2>1, <2>4 DEF CallsAhead
    <3>4. CallsAfter = 2 * (Most - Len(runs)) + 3 /\ CallsAfter' = 2 * (Most - Len(runs)) + 2
      BY <1>1, <3>2, <3>3
    <3>5. pc \in Calls /\ pc' \in Calls
      BY <2>1, <2>4 DEF Calls
    <3>. QED  BY <1>1, <1>2, <3>2, <3>4, <3>5
  <2>. QED  BY <2>2, <2>3, <2>4
<1>5. CASE TeamwidePass
  <2>1. pc = "teamwide" /\ Fresh /\ UNCHANGED <<atoms, samples>> /\ \E found : FinishRun(found)
    BY <1>5, Zenon DEF TeamwidePass
  <2>. QED  BY <2>1, FinishSpends
<1>6. CASE SelfPass
  <2>1. /\ pc = "self" /\ attempt' = 1
        /\ \E ts : pc' = NextGround(ts, 1)
    BY <1>6, Zenon DEF SelfPass, Continue, Fresh
  <2>2. pc' = "done" \/ \E n \in 1..3 : pc' = GroundKindOrder[n]
    BY <2>1, NextGroundIs
  <2>3. Budget \in Nat /\ Budget >= 10
    BY <1>1, <1>2, <2>1 DEF CallsAhead, Calls
  <2>4. CASE pc' = "done"
    <3>1. pc' \notin Calls
      BY <2>4 DEF Calls
    <3>2. Budget' = 0
      BY <1>2, <3>1
    <3>. QED  BY <2>3, <3>2
  <2>5. CASE \E n \in 1..3 : pc' = GroundKindOrder[n]
    <3>1. PICK n \in 1..3 : pc' = GroundKindOrder[n]
      BY <2>5
    <3>2. CallsAfter' = 3 - n /\ pc' \in Calls
      BY <3>1, AskedKinds DEF CallsAhead, Calls
    <3>3. CallsAfter = 3 /\ pc \in Calls
      BY <2>1 DEF CallsAhead, Calls
    <3>. QED  BY <1>1, <1>2, <2>1, <3>2, <3>3
  <2>. QED  BY <2>2, <2>4, <2>5
<1>7. CASE GroundCall
  <2>1. PICK n \in 1..3 : pc = GroundKindOrder[n] /\ attempt' = 1
                          /\ \E ts : pc' = NextGround(ts, n + 1)
    BY <1>7, Zenon DEF GroundCall, Continue, Fresh
  <2>2. pc' = "done" \/ \E m \in 1..3 : m >= n + 1 /\ pc' = GroundKindOrder[m]
    <3>1. n + 1 \in 1..4
      OBVIOUS
    <3>. QED  BY <2>1, <3>1, NextGroundIs
  <2>3. CallsAfter = 3 - n /\ pc \in Calls
    BY <2>1, AskedKinds DEF CallsAhead, Calls
  <2>4. CASE pc' = "done"
    BY <1>1, <1>2, <2>3, <2>4 DEF Calls
  <2>5. CASE pc' # "done"
    <3>1. PICK m \in 1..3 : m >= n + 1 /\ pc' = GroundKindOrder[m]
      BY <2>2, <2>5
    <3>2. CallsAfter' = 3 - m /\ pc' \in Calls
      BY <3>1, AskedKinds DEF CallsAhead, Calls
    <3>. QED  BY <1>1, <1>2, <2>1, <2>3, <3>1, <3>2
  <2>. QED  BY <2>4, <2>5
<1>8. CASE Miss
  <2>1. pc \in Calls
    BY <1>8 DEF Miss
  <2>2. CASE attempt' = attempt + 1 /\ pc' = pc
    <3>1. /\ atoms' = atoms /\ samples' = samples /\ runs' = runs
      BY <1>8 DEF Miss
    <3>2. CallsAfter' = CallsAfter
      <4>1. PerRun' = PerRun /\ Most' = Most /\ Len(runs)' = Len(runs)
        BY <3>1 DEF PerRun, Most, DistinctAuthors
      <4>2. CASE pc \in {"pairwise", "teamwide", "self"}
        BY <2>2, <4>1, <4>2 DEF CallsAhead
      <4>3. CASE pc \in Range(GroundKindOrder)
        <5>1. PICK n \in 1..3 : pc = GroundKindOrder[n]
          BY <4>3, AskedKinds DEF GroundKindOrder
        <5>. QED  BY <2>2, <5>1 DEF CallsAhead
      <4>. QED  BY <2>1, <4>2, <4>3, AskedKinds DEF Calls
    <3>. QED  BY <1>1, <1>2, <1>3, <2>1, <2>2, <3>2
  <2>3. CASE pc' = "failed"
    BY <1>1, <1>2, <1>3, <2>1, <2>3 DEF Calls
  <2>. QED  BY <1>8, <2>2, <2>3 DEF Miss
<1>9. CASE CallFails
  <2>1. pc \in Calls /\ pc' = "failed"
    BY <1>9 DEF CallFails
  <2>. QED  BY <1>1, <1>2, <1>3, <2>1 DEF Calls
<1>. QED  BY <1>4, <1>5, <1>6, <1>7, <1>8, <1>9 DEF Next

(* What is left to spend is never negative.                                *)
THEOREM NeverOverspent == Spec => [](Budget \in Nat)
<1>1. DetectionInv => Budget \in Nat
  <2>. SUFFICES ASSUME DetectionInv PROVE Budget \in Nat
    OBVIOUS
  <2>1. attempt \in 1..3 /\ (pc \in Calls => CallsAfter \in Nat)
    BY CallsAre, CallsAreFew DEF DetectionInv, Shape, MaxToolAttempts
  <2>2. CASE pc \in Calls
    BY <2>1, <2>2 DEF Budget, MaxToolAttempts
  <2>3. CASE pc \notin Calls
    BY <2>3 DEF Budget
  <2>. QED  BY <2>2, <2>3
<1>. QED  BY <1>1, AlwaysInv, PTL

(* A detection makes each call at most three times and ends: no step       *)
(* leaves as much to spend as it found (mesh.go 666-674).                  *)
THEOREM DetectionSpendsLess == Spec => SpendIsBounded
<1>1. DetectionInv' => CallsAhead'
  BY CallsAre, PTL
<1>2. DetectionInv /\ DetectionInv' /\ [Next]_vars => [Budget' < Budget]_vars
  BY <1>1, CallsAre, SpendStep
<1>. QED  BY <1>2, AlwaysInv, PTL DEF Spec, SpendIsBounded

-----------------------------------------------------------------------------
(* Sums over finite sets, whatever order the library takes them in.        *)

Taken(s) == CHOOSE x \in s : TRUE

(* tot sums fun over the subsets of D, as the library chooses.             *)
Totals(tot, fun, D) ==
  /\ fun \in [D -> Nat] /\ tot \in [SUBSET D -> Nat] /\ tot[{}] = 0
  /\ \A s \in SUBSET D : s # {} => tot[s] = fun[Taken(s)] + tot[s \ {Taken(s)}]

LEMMA TakenIs == \A s : s # {} => Taken(s) \in s
  BY DEF Taken

LEMMA OneLess ==
  ASSUME NEW s, IsFiniteSet(s), NEW x \in s
  PROVE  /\ IsFiniteSet(s \ {x}) /\ Cardinality(s) \in Nat /\ Cardinality(s \ {x}) \in Nat
         /\ Cardinality(s) = Cardinality(s \ {x}) + 1
<1>1. /\ IsFiniteSet(s \ {x}) /\ Cardinality(s \ {x}) = Cardinality(s) - 1
  BY FS_RemoveElement
<1>2. Cardinality(s) \in Nat /\ Cardinality(s \ {x}) \in Nat
  BY <1>1, FS_CardinalityType
<1>. QED  BY <1>1, <1>2

LEMMA TotalsExist ==
  ASSUME NEW D, IsFiniteSet(D), NEW fun \in [D -> Nat]
  PROVE  \E tot : Totals(tot, fun, D)
<1>. DEFINE N == Cardinality(D)
            V == [SUBSET D -> Nat]
            zero == [s \in SUBSET D |-> 0]
            next(F) == [s \in SUBSET D |-> IF s = {} THEN 0
                          ELSE fun[Taken(s)] + F[s \ {Taken(s)}]]
            G == [n \in 1..N |-> [F \in V |-> next(F)]]
<1>1. N \in Nat
  BY FS_CardinalityType
<1>2. \A F \in V : next(F) \in V
  <2>1. SUFFICES ASSUME NEW F \in V, NEW s \in SUBSET D, s # {}
                 PROVE  fun[Taken(s)] + F[s \ {Taken(s)}] \in Nat
    OBVIOUS
  <2>2. Taken(s) \in D /\ s \ {Taken(s)} \in SUBSET D
    BY <2>1, TakenIs
  <2>. HIDE DEF next
  <2>. QED  BY <2>2
<1>3. \A F \in V, s \in SUBSET D : s # {} => next(F)[s] = fun[Taken(s)] + F[s \ {Taken(s)}]
  OBVIOUS
<1>4. zero \in V /\ zero[{}] = 0
  OBVIOUS
<1>. HIDE DEF next, zero
<1>5. G \in [1..N -> [V -> V]] /\ \A n \in 1..N, F \in V : G[n][F] = next(F)
  BY <1>2
<1>. HIDE DEF G, V
<1>6. PICK f \in [0..N -> V] : Follows(f, zero, G, N)
  BY <1>1, <1>4, <1>5, Recursion
<1>. DEFINE tot == [s \in SUBSET D |-> f[Cardinality(s)][s]]
<1>7. \A s \in SUBSET D : IsFiniteSet(s) /\ Cardinality(s) \in 0..N
  <2>1. SUFFICES ASSUME NEW s \in SUBSET D PROVE IsFiniteSet(s) /\ Cardinality(s) \in 0..N
    OBVIOUS
  <2>2. IsFiniteSet(s) /\ Cardinality(s) <= N
    BY FS_Subset
  <2>. QED  BY <1>1, <2>2, FS_CardinalityType
<1>8. tot \in [SUBSET D -> Nat]
  <2>1. \A s \in SUBSET D : f[Cardinality(s)] \in V
    BY <1>6, <1>7
  <2>. QED  BY <2>1 DEF V
<1>9. tot[{}] = 0
  <2>1. Cardinality({}) = 0 /\ f[0] = zero
    BY <1>6, FS_EmptySet DEF Follows
  <2>. QED  BY <1>4, <2>1
<1>10. ASSUME NEW s \in SUBSET D, s # {}
       PROVE  tot[s] = fun[Taken(s)] + tot[s \ {Taken(s)}]
  <2>. DEFINE x == Taken(s)
              k == Cardinality(s)
  <2>1. x \in s /\ s \ {x} \in SUBSET D
    BY <1>10, TakenIs
  <2>2. k \in Nat /\ k = Cardinality(s \ {x}) + 1 /\ Cardinality(s \ {x}) \in Nat
    BY <1>7, <2>1, OneLess
  <2>3. k \in 1..N /\ k - 1 \in 0..N /\ Cardinality(s \ {x}) = k - 1
    BY <1>1, <1>7, <2>2
  <2>4. f[k] = next(f[k - 1]) /\ f[k - 1] \in V
    BY <1>5, <1>6, <2>3 DEF Follows
  <2>5. f[k][s] = fun[x] + f[k - 1][s \ {x}]
    BY <1>3, <1>10, <2>4
  <2>. QED  BY <2>1, <2>3, <2>5
<1>. HIDE DEF tot
<1>. QED  BY <1>8, <1>9, <1>10 DEF Totals

LEMMA TotalIs ==
  ASSUME NEW D, IsFiniteSet(D), NEW fun, NEW tot, Totals(tot, fun, D),
         NEW S \in SUBSET D
  PROVE  SumFunctionOnSet(fun, S) = tot[S]
<1>. DEFINE Body(f) == [s \in SUBSET S |-> IF s = {} THEN 0 ELSE
                          LET x == CHOOSE y \in s : TRUE IN fun[x] + f[s \ {x}]]
            iter == CHOOSE f : f = Body(f)
<1>1. \A f, s : s \in SUBSET S => Body(f)[s] = IF s = {} THEN 0 ELSE fun[Taken(s)] + f[s \ {Taken(s)}]
  BY DEF Taken
<1>2. \A s \in SUBSET S : s \in SUBSET D /\ s \ {Taken(s)} \in SUBSET S
  OBVIOUS
<1>3. \E f : f = Body(f)
  <2>. DEFINE r == [s \in SUBSET S |-> tot[s]]
  <2>1. \A s \in SUBSET S : r[s] = tot[s]
    OBVIOUS
  <2>2. r = [s \in SUBSET S |-> r[s]] /\ Body(r) = [s \in SUBSET S |-> Body(r)[s]]
    OBVIOUS
  <2>. HIDE DEF r, Body
  <2>3. ASSUME NEW s \in SUBSET S PROVE r[s] = Body(r)[s]
    <3>1. Body(r)[s] = IF s = {} THEN 0 ELSE fun[Taken(s)] + r[s \ {Taken(s)}]
      BY <1>1
    <3>2. r[s] = tot[s] /\ r[s \ {Taken(s)}] = tot[s \ {Taken(s)}] /\ s \in SUBSET D
      BY <1>2, <2>1
    <3>3. CASE s = {}
      BY <3>1, <3>2, <3>3 DEF Totals
    <3>4. CASE s # {}
      <4>1. tot[s] = fun[Taken(s)] + tot[s \ {Taken(s)}]
        BY <3>2, <3>4 DEF Totals
      <4>. QED  BY <3>1, <3>2, <3>4, <4>1
    <3>. QED  BY <3>3, <3>4
  <2>. QED  BY <2>2, <2>3
<1>4. iter = Body(iter)
  BY <1>3
<1>5. SumFunctionOnSet(fun, S) = iter[S]
  BY DEF SumFunctionOnSet, FoldFunctionOnSet, MapThenFoldSet
<1>. HIDE DEF iter
<1>6. \A s \in SUBSET S : iter[s] = IF s = {} THEN 0 ELSE fun[Taken(s)] + iter[s \ {Taken(s)}]
  <2>. HIDE DEF Body
  <2>. QED  BY <1>1, <1>4
<1>. HIDE DEF Body
<1>. DEFINE Bad == {s \in SUBSET S : iter[s] # tot[s]}
            sizes == {Cardinality(s) : s \in Bad}
<1>7. \A s \in SUBSET S : IsFiniteSet(s) /\ Cardinality(s) \in Nat
  BY FS_Subset, FS_CardinalityType
<1>8. Bad = {}
  <2>1. SUFFICES ASSUME Bad # {} PROVE FALSE
    OBVIOUS
  <2>2. sizes \in SUBSET Nat /\ sizes # {}
    BY <1>7, <2>1
  <2>3. PICK s \in Bad : \A t \in Bad : Cardinality(s) <= Cardinality(t)
    <3>. HIDE DEF Bad
    <3>1. PICK n \in sizes : \A m \in sizes : n <= m
      BY <2>2, Least
    <3>. QED  BY <3>1
  <2>4. s \in SUBSET S /\ iter[s] # tot[s]
    BY <2>3
  <2>5. s # {}
    BY <1>6, <2>4 DEF Totals
  <2>6. Taken(s) \in s
    BY <2>5, TakenIs
  <2>7. Cardinality(s \ {Taken(s)}) < Cardinality(s)
    BY <1>7, <2>4, <2>6, OneLess
  <2>8. s \ {Taken(s)} \notin Bad /\ s \ {Taken(s)} \in SUBSET S
    <3>1. s \ {Taken(s)} \in SUBSET S
      BY <2>4
    <3>2. Cardinality(s) \in Nat /\ Cardinality(s \ {Taken(s)}) \in Nat
      BY <1>7, <2>4, <3>1
    <3>. HIDE DEF Bad
    <3>. QED  BY <2>3, <2>7, <3>1, <3>2
  <2>9. iter[s \ {Taken(s)}] = tot[s \ {Taken(s)}]
    BY <2>8
  <2>. QED  BY <1>2, <1>6, <2>4, <2>5, <2>9 DEF Totals
<1>. QED  BY <1>5, <1>8

(* Any element may be the one taken.                                       *)
LEMMA TotalWithout ==
  ASSUME NEW D, IsFiniteSet(D), NEW fun, NEW tot, Totals(tot, fun, D),
         NEW r \in SUBSET D, NEW z \in r
  PROVE  tot[r] = fun[z] + tot[r \ {z}]
<1>. DEFINE Bad == {s \in SUBSET D : \E x \in s : tot[s] # fun[x] + tot[s \ {x}]}
            sizes == {Cardinality(s) : s \in Bad}
<1>7. \A s \in SUBSET D : IsFiniteSet(s) /\ Cardinality(s) \in Nat
  BY FS_Subset, FS_CardinalityType
<1>8. Bad = {}
  <2>1. SUFFICES ASSUME Bad # {} PROVE FALSE
    OBVIOUS
  <2>2. sizes \in SUBSET Nat /\ sizes # {}
    BY <1>7, <2>1
  <2>3. PICK s \in Bad : \A t \in Bad : Cardinality(s) <= Cardinality(t)
    <3>. HIDE DEF Bad
    <3>1. PICK n \in sizes : \A m \in sizes : n <= m
      BY <2>2, Least
    <3>. QED  BY <3>1
  <2>4. PICK x \in s : s \in SUBSET D /\ tot[s] # fun[x] + tot[s \ {x}]
    BY <2>3
  <2>. DEFINE y == Taken(s)
              t == s \ {x}
              u == s \ {y}
              w == (s \ {x}) \ {y}
  <2>5. y \in s /\ tot[s] = fun[y] + tot[u]
    BY <2>4, TakenIs DEF Totals
  <2>6. y # x
    BY <2>4, <2>5
  <2>7. t \in SUBSET D /\ u \in SUBSET D /\ w \in SUBSET D /\ y \in t /\ x \in u
        /\ w = t \ {y} /\ w = u \ {x}
    BY <2>4, <2>5, <2>6
  <2>8. t \notin Bad /\ u \notin Bad
    <3>1. Cardinality(s) = Cardinality(t) + 1 /\ Cardinality(s) = Cardinality(u) + 1
      BY <1>7, <2>4, <2>5, OneLess
    <3>2. Cardinality(s) \in Nat /\ Cardinality(t) \in Nat /\ Cardinality(u) \in Nat
      BY <1>7, <2>4, <2>7
    <3>. HIDE DEF Bad, t, u
    <3>. QED  BY <2>3, <3>1, <3>2
  <2>9. tot[t] = fun[y] + tot[w] /\ tot[u] = fun[x] + tot[w]
    BY <2>7, <2>8
  <2>10. fun[x] \in Nat /\ fun[y] \in Nat /\ tot[w] \in Nat /\ tot[t] \in Nat /\ tot[u] \in Nat
    <3>1. x \in D /\ y \in D
      BY <2>4, <2>5
    <3>. HIDE DEF t, u, w, y
    <3>. QED  BY <2>7, <3>1 DEF Totals
  <2>. HIDE DEF t, u, w, y
  <2>11. tot[s] = fun[x] + tot[t]
    BY <2>5, <2>9, <2>10
  <2>. QED  BY <2>4, <2>11 DEF t
<1>. QED  BY <1>8

(* The sum over S, element by element.                                     *)
LEMMA SumIsOver ==
  ASSUME NEW D, IsFiniteSet(D), NEW fun \in [D -> Nat]
  PROVE  /\ \A S \in SUBSET D : SumFunctionOnSet(fun, S) \in Nat
         /\ SumFunctionOnSet(fun, {}) = 0
         /\ \A S \in SUBSET D : \A x \in S :
              SumFunctionOnSet(fun, S) = fun[x] + SumFunctionOnSet(fun, S \ {x})
<1>1. PICK tot : Totals(tot, fun, D)
  BY TotalsExist
<1>2. \A S \in SUBSET D : SumFunctionOnSet(fun, S) = tot[S] /\ tot[S] \in Nat
  <2>1. SUFFICES ASSUME NEW S \in SUBSET D
                 PROVE  SumFunctionOnSet(fun, S) = tot[S] /\ tot[S] \in Nat
    OBVIOUS
  <2>2. SumFunctionOnSet(fun, S) = tot[S]
    BY <1>1, TotalIs
  <2>. QED  BY <1>1, <2>2 DEF Totals
<1>3. \A S \in SUBSET D : \A x \in S : tot[S] = fun[x] + tot[S \ {x}]
  <2>1. SUFFICES ASSUME NEW S \in SUBSET D, NEW x \in S PROVE tot[S] = fun[x] + tot[S \ {x}]
    OBVIOUS
  <2>. QED  BY <1>1, TotalWithout
<1>4. SumFunctionOnSet(fun, {}) = 0
  BY <1>1, <1>2 DEF Totals
<1>5. \A S \in SUBSET D : \A x \in S : S \ {x} \in SUBSET D
  OBVIOUS
<1>. QED  BY <1>2, <1>3, <1>4, <1>5

Sums(fun, D) ==
  /\ SumFunctionOnSet(fun, {}) = 0 /\ \A s \in SUBSET D : SumFunctionOnSet(fun, s) \in Nat
  /\ \A s \in SUBSET D : \A x \in s :
       SumFunctionOnSet(fun, s) = fun[x] + SumFunctionOnSet(fun, s \ {x})

LEMMA SumsOver ==
  ASSUME NEW D, IsFiniteSet(D), NEW fun \in [D -> Nat]
  PROVE  Sums(fun, D)
  BY SumIsOver DEF Sums

(* A smallest finite set of a kind.                                        *)
LEMMA Smallest ==
  ASSUME NEW D, IsFiniteSet(D), NEW B \in SUBSET SUBSET D, B # {}
  PROVE  \E s \in B : \A x \in s : s \ {x} \notin B
<1>. DEFINE sizes == {Cardinality(s) : s \in B}
<1>1. \A s \in SUBSET D : IsFiniteSet(s) /\ Cardinality(s) \in Nat
  BY FS_Subset, FS_CardinalityType
<1>2. sizes \in SUBSET Nat /\ sizes # {}
  BY <1>1
<1>3. PICK n \in sizes : \A m \in sizes : n <= m
  BY <1>2, Least
<1>4. PICK s \in B : Cardinality(s) = n
  BY <1>3
<1>5. \A x \in s : s \ {x} \notin B
  <2>1. SUFFICES ASSUME NEW x \in s, s \ {x} \in B PROVE FALSE
    OBVIOUS
  <2>2. Cardinality(s) = Cardinality(s \ {x}) + 1 /\ Cardinality(s \ {x}) \in Nat
    BY <1>1, <1>4, OneLess
  <2>3. Cardinality(s) <= Cardinality(s \ {x})
    BY <1>3, <1>4, <2>1
  <2>. QED  BY <2>2, <2>3
<1>. QED  BY <1>5

(* Functions that agree on a set have the same sum over it.                *)
LEMMA SameSum ==
  ASSUME NEW D, IsFiniteSet(D), NEW f \in [D -> Nat], NEW g \in [D -> Nat],
         NEW S \in SUBSET D, \A x \in S : f[x] = g[x]
  PROVE  SumFunctionOnSet(f, S) = SumFunctionOnSet(g, S)
<1>. DEFINE F(s) == SumFunctionOnSet(f, s)
            H(s) == SumFunctionOnSet(g, s)
            B == {s \in SUBSET S : F(s) # H(s)}
<1>1. F({}) = 0 /\ \A s \in SUBSET D : \A x \in s : F(s) = f[x] + F(s \ {x})
  BY SumIsOver
<1>2. H({}) = 0 /\ \A s \in SUBSET D : \A x \in s : H(s) = g[x] + H(s \ {x})
  BY SumIsOver
<1>. HIDE DEF F, H
<1>3. B = {}
  <2>1. SUFFICES ASSUME B # {} PROVE FALSE
    OBVIOUS
  <2>2. B \in SUBSET SUBSET D
    OBVIOUS
  <2>. HIDE DEF B
  <2>3. PICK s \in B : \A x \in s : s \ {x} \notin B
    BY <2>1, <2>2, Smallest
  <2>4. s \in SUBSET S /\ F(s) # H(s) /\ s \in SUBSET D
    BY <2>3 DEF B
  <2>5. PICK x \in s : TRUE
    BY <1>1, <1>2, <2>4
  <2>6. F(s \ {x}) = H(s \ {x})
    BY <2>3, <2>4, <2>5 DEF B
  <2>. QED  BY <1>1, <1>2, <2>4, <2>5, <2>6
<1>4. F(S) = H(S)
  BY <1>3
<1>. QED  BY <1>4 DEF F, H

(* The sums over two sets that share nothing add up.                       *)
LEMMA SumsAdd ==
  ASSUME NEW D, IsFiniteSet(D), NEW f \in [D -> Nat],
         NEW S \in SUBSET D, NEW T \in SUBSET D, S \cap T = {}
  PROVE  SumFunctionOnSet(f, S \cup T) = SumFunctionOnSet(f, S) + SumFunctionOnSet(f, T)
<1>. DEFINE F(s) == SumFunctionOnSet(f, s)
            B == {t \in SUBSET T : F(S \cup t) # F(S) + F(t)}
<1>1. /\ F({}) = 0 /\ \A s \in SUBSET D : F(s) \in Nat
      /\ \A s \in SUBSET D : \A x \in s : F(s) = f[x] + F(s \ {x})
  BY SumIsOver
<1>. HIDE DEF F
<1>2. B = {}
  <2>1. SUFFICES ASSUME B # {} PROVE FALSE
    OBVIOUS
  <2>2. B \in SUBSET SUBSET D
    OBVIOUS
  <2>3. \A t : t \in B <=> t \in SUBSET T /\ F(S \cup t) # F(S) + F(t)
    OBVIOUS
  <2>. HIDE DEF B
  <2>4. PICK t \in B : \A x \in t : t \ {x} \notin B
    BY <2>1, <2>2, Smallest
  <2>5. t \in SUBSET T /\ F(S \cup t) # F(S) + F(t)
    BY <2>3, <2>4
  <2>6. t # {}
    <3>1. S \cup {} = S
      OBVIOUS
    <3>2. F(S) \in Nat
      BY <1>1
    <3>3. CASE t = {}
      <4>1. F(S \cup t) = F(S) /\ F(t) = 0
        BY <1>1, <3>1, <3>3
      <4>. QED  BY <2>5, <3>2, <4>1
    <3>. QED  BY <3>3
  <2>7. PICK x \in t : TRUE
    BY <2>6
  <2>8. F(S \cup (t \ {x})) = F(S) + F(t \ {x})
    BY <2>3, <2>4, <2>5, <2>7
  <2>9. (S \cup t) \ {x} = S \cup (t \ {x}) /\ x \in S \cup t /\ S \cup t \in SUBSET D
        /\ t \in SUBSET D /\ t \ {x} \in SUBSET D /\ x \in D
    BY <2>5, <2>7
  <2>10. F(S \cup t) = f[x] + F(S \cup (t \ {x})) /\ F(t) = f[x] + F(t \ {x})
    BY <1>1, <2>7, <2>9
  <2>11. f[x] \in Nat /\ F(S) \in Nat /\ F(t \ {x}) \in Nat
    BY <1>1, <2>9
  <2>. QED  BY <2>5, <2>8, <2>10, <2>11
<1>3. F(S \cup T) = F(S) + F(T)
  BY <1>2
<1>. QED  BY <1>3 DEF F

-----------------------------------------------------------------------------
(* The rows of the log.                                                    *)

LEMMA RowIsFinite == IsFiniteSet(Row)
<1>. DEFINE V == {"real", "not_real", "handled", "unknown"}
            P == V \X (0..Samples)
            rowOf(p) == [verdict |-> p[1], votes |-> p[2]]
<1>1. Samples \in Nat
  BY CalibrationAssumption
<1>2. IsFiniteSet(V)
  <2>1. V = {"real", "not_real", "handled"} \cup {"unknown"}
    OBVIOUS
  <2>2. IsFiniteSet({"real"}) /\ IsFiniteSet({"not_real"}) /\ IsFiniteSet({"handled"})
        /\ IsFiniteSet({"unknown"})
    BY FS_Singleton
  <2>3. IsFiniteSet({"real"} \cup {"not_real"})
    BY <2>2, FS_Union
  <2>4. IsFiniteSet(({"real"} \cup {"not_real"}) \cup {"handled"})
    BY <2>2, <2>3, FS_Union
  <2>5. IsFiniteSet((({"real"} \cup {"not_real"}) \cup {"handled"}) \cup {"unknown"})
    BY <2>2, <2>4, FS_Union
  <2>6. V = (({"real"} \cup {"not_real"}) \cup {"handled"}) \cup {"unknown"}
    OBVIOUS
  <2>. QED  BY <2>5, <2>6
<1>3. IsFiniteSet(0..Samples)
  BY <1>1, FS_Interval
<1>. HIDE DEF V
<1>4. IsFiniteSet(P)
  BY <1>2, <1>3, FS_Product
<1>5. IsFiniteSet({rowOf(p) : p \in P})
  <2>. DEFINE all == {rowOf(p) : p \in P}
              f == [p \in P |-> rowOf(p)]
  <2>. HIDE DEF P, rowOf
  <2>1. f \in Surjection(P, all)
    BY DEF Surjection
  <2>. HIDE DEF f, all
  <2>2. IsFiniteSet(all)
    BY <1>4, <2>1, FS_Surjection
  <2>. QED  BY <2>2 DEF all
<1>6. Row \subseteq {rowOf(p) : p \in P}
  <2>1. SUFFICES ASSUME NEW r \in Row PROVE \E p \in P : r = rowOf(p)
    OBVIOUS
  <2>2. r.verdict \in V /\ r.votes \in 0..Samples /\ r = [verdict |-> r.verdict, votes |-> r.votes]
    BY DEF Row, V
  <2>3. <<r.verdict, r.votes>> \in P /\ r = rowOf(<<r.verdict, r.votes>>)
    BY <2>2
  <2>. QED  BY <2>3
<1>. HIDE DEF P, rowOf
<1>. QED  BY <1>5, <1>6, FS_Subset

(* One row more of a content makes one row more of the sum.                *)
LEMMA OneRowMore ==
  ASSUME NEW f \in [Row -> Nat], NEW row \in Row
  PROVE  /\ Size(f) \in Nat /\ f[row] <= Size(f)
         /\ [f EXCEPT ![row] = @ + 1] \in [Row -> Nat]
         /\ Size([f EXCEPT ![row] = @ + 1]) = Size(f) + 1
<1>. DEFINE g == [f EXCEPT ![row] = @ + 1]
            rest == Row \ {row}
<1>1. g \in [Row -> Nat] /\ g[row] = f[row] + 1 /\ \A r \in rest : f[r] = g[r]
  OBVIOUS
<1>2. DOMAIN f = Row /\ DOMAIN g = Row /\ rest \in SUBSET Row
  BY <1>1
<1>3. Size(f) = SumFunctionOnSet(f, Row) /\ Size(g) = SumFunctionOnSet(g, Row)
  BY <1>2 DEF Size, SumFunction
<1>. HIDE DEF g, rest
<1>4. SumFunctionOnSet(f, rest) = SumFunctionOnSet(g, rest)
  BY <1>1, <1>2, RowIsFinite, SameSum
<1>5. /\ SumFunctionOnSet(f, Row) = f[row] + SumFunctionOnSet(f, rest)
      /\ SumFunctionOnSet(f, rest) \in Nat /\ SumFunctionOnSet(f, Row) \in Nat
  BY <1>2, RowIsFinite, SumIsOver DEF rest
<1>6. SumFunctionOnSet(g, Row) = g[row] + SumFunctionOnSet(g, rest)
  BY <1>1, <1>2, RowIsFinite, SumIsOver DEF rest
<1>7. f[row] \in Nat
  OBVIOUS
<1>. QED  BY <1>1, <1>3, <1>4, <1>5, <1>6, <1>7 DEF g

LEMMA NoRowsNoSum == Size(NoRows) = 0
<1>1. NoRows \in [Row -> Nat] /\ DOMAIN NoRows = Row /\ \A r \in Row : NoRows[r] = 0
  BY DEF NoRows
<1>. DEFINE B == {s \in SUBSET Row : SumFunctionOnSet(NoRows, s) # 0}
<1>2. /\ SumFunctionOnSet(NoRows, {}) = 0
      /\ \A s \in SUBSET Row : \A x \in s :
           SumFunctionOnSet(NoRows, s) = NoRows[x] + SumFunctionOnSet(NoRows, s \ {x})
  BY <1>1, RowIsFinite, SumIsOver
<1>3. B = {}
  <2>1. SUFFICES ASSUME B # {} PROVE FALSE
    OBVIOUS
  <2>2. B \in SUBSET SUBSET Row /\ \A s : s \in B <=> s \in SUBSET Row /\ SumFunctionOnSet(NoRows, s) # 0
    OBVIOUS
  <2>. HIDE DEF B
  <2>3. PICK s \in B : \A x \in s : s \ {x} \notin B
    BY <2>1, <2>2, RowIsFinite, Smallest
  <2>4. PICK x \in s : TRUE
    BY <1>2, <2>2
  <2>5. SumFunctionOnSet(NoRows, s \ {x}) = 0 /\ NoRows[x] = 0
    BY <1>1, <2>2, <2>3
  <2>. QED  BY <1>2, <2>2, <2>5
<1>4. SumFunctionOnSet(NoRows, Row) = 0
  BY <1>3
<1>. QED  BY <1>1, <1>4 DEF Size, SumFunction

-----------------------------------------------------------------------------
(* The log: a torn line, and at most the line appended to it, is all that  *)
(* is ever lost.                                                           *)

LogInv ==
  /\ LogOK
  /\ given = Rows + tears + malformed
  /\ Malformed <= tears
  /\ tears > 0 => Malformed > 0

LEMMA LogInvInit == LogInit => LogInv
<1>. SUFFICES ASSUME LogInit PROVE LogInv
  OBVIOUS
<1>1. MaxRows \in Nat /\ MaxTears \in Nat
  BY CalibrationAssumption
<1>2. Rows = 0
  BY NoRowsNoSum DEF LogInit, Rows
<1>3. log \in [Row -> 0..MaxRows]
  BY <1>1 DEF LogInit, NoRows
<1>4. /\ given = 0 /\ malformed = 0 /\ tears = 0 /\ torn = FALSE
  BY DEF LogInit
<1>5. LogOK
  <2>1. given \in 0..MaxRows /\ malformed \in 0..tears /\ tears \in 0..MaxTears
    BY <1>1, <1>4
  <2>2. torn \in BOOLEAN
    BY <1>4
  <2>. QED  BY <1>3, <2>1, <2>2 DEF LogOK
<1>6. Malformed = 0
  BY <1>4 DEF Malformed
<1>. QED  BY <1>2, <1>4, <1>5, <1>6 DEF LogInv

LEMMA LogInvNext == LogInv /\ [LogNext]_logVars => LogInv'
<1>. SUFFICES ASSUME LogInv, [LogNext]_logVars PROVE LogInv'
  OBVIOUS
<1>1. MaxRows \in Nat /\ MaxTears \in Nat
  BY CalibrationAssumption
<1>2. /\ log \in [Row -> 0..MaxRows] /\ log \in [Row -> Nat] /\ given \in 0..MaxRows
      /\ malformed \in 0..tears /\ torn \in BOOLEAN /\ tears \in 0..MaxTears
      /\ given = Rows + tears + malformed
      /\ Malformed <= tears /\ (tears > 0 => Malformed > 0)
  BY <1>1 DEF LogInv, LogOK
<1>3. Rows = Size(log) /\ Rows' = Size(log')
  BY DEF Rows
<1>4. Rows \in Nat
  <2>1. \A r \in Row : Size(log) \in Nat
    BY <1>2, OneRowMore
  <2>2. [verdict |-> "real", votes |-> 0] \in Row
    BY CalibrationAssumption DEF Row
  <2>. QED  BY <1>3, <2>1, <2>2
<1>5. ASSUME NEW row \in Row, Record(row) PROVE LogInv'
  <2>1. /\ given < MaxRows /\ given' = given + 1 /\ torn' = FALSE /\ tears' = tears
    BY <1>5 DEF Record
  <2>2. CASE torn /\ malformed' = malformed + 1 /\ UNCHANGED log
    <3>1. Rows' = Rows /\ log' = log
      BY <1>3, <2>2
    <3>2. Malformed = malformed + 1 /\ Malformed' = malformed + 1
      BY <1>2, <2>1, <2>2 DEF Malformed
    <3>3. LogOK'
      <4>1. /\ malformed' \in 0..tears' /\ given' \in 0..MaxRows /\ tears' \in 0..MaxTears
        BY <1>1, <1>2, <2>1, <2>2, <3>2
      <4>. QED  BY <1>2, <2>1, <3>1, <4>1 DEF LogOK
    <3>4. given' = Rows' + tears' + malformed' /\ Malformed' <= tears' /\ (tears' > 0 => Malformed' > 0)
      BY <1>2, <1>4, <2>1, <2>2, <3>1, <3>2
    <3>. QED  BY <3>3, <3>4 DEF LogInv
  <2>3. CASE ~torn /\ log' = [log EXCEPT ![row] = @ + 1] /\ UNCHANGED malformed
    <3>1. Rows' = Rows + 1 /\ log' \in [Row -> Nat]
      BY <1>2, <1>3, <2>3, OneRowMore
    <3>2. Malformed' = Malformed
      BY <2>1, <2>3 DEF Malformed
    <3>3. Rows' <= MaxRows
      BY <1>2, <1>4, <1>1, <2>1, <3>1
    <3>4. log' \in [Row -> 0..MaxRows]
      <4>1. SUFFICES ASSUME NEW r \in Row PROVE log'[r] \in 0..MaxRows
        BY <3>1
      <4>2. log'[r] <= Rows' /\ log'[r] \in Nat
        <5>. DEFINE g == log'
        <5>. HIDE DEF g
        <5>1. g \in [Row -> Nat]
          BY <3>1 DEF g
        <5>2. g[r] <= Size(g) /\ g[r] \in Nat
          BY <5>1, OneRowMore
        <5>. QED  BY <1>3, <5>2 DEF g
      <4>. QED  BY <1>1, <1>4, <3>1, <3>3, <4>2
    <3>5. LogOK'
      <4>1. /\ malformed' \in 0..tears' /\ given' \in 0..MaxRows /\ tears' \in 0..MaxTears
        BY <1>1, <1>2, <2>1, <2>3
      <4>. QED  BY <2>1, <3>4, <4>1 DEF LogOK
    <3>6. given' = Rows' + tears' + malformed' /\ Malformed' <= tears' /\ (tears' > 0 => Malformed' > 0)
      BY <1>2, <1>4, <2>1, <2>3, <3>1, <3>2
    <3>. QED  BY <3>5, <3>6 DEF LogInv
  <2>. QED  BY <1>5, <2>2, <2>3 DEF Record
<1>6. CASE TornRecord
  <2>1. /\ given < MaxRows /\ given' = given + 1 /\ torn' = TRUE /\ log' = log
        /\ tears < MaxTears /\ tears' = tears + 1 /\ malformed' = malformed
    BY <1>6 DEF TornRecord
  <2>2. Rows' = Rows
    BY <1>3, <2>1
  <2>3. Malformed' = malformed + 1
    BY <2>1 DEF Malformed
  <2>4. malformed <= tears
    BY <1>2
  <2>. QED  BY <1>1, <1>2, <1>4, <2>1, <2>2, <2>3, <2>4 DEF LogInv, LogOK
<1>7. CASE UNCHANGED logVars
  <2>1. log' = log /\ given' = given /\ torn' = torn /\ tears' = tears /\ malformed' = malformed
    BY <1>7 DEF logVars
  <2>2. Rows' = Rows /\ Malformed' = Malformed
    BY <1>3, <2>1 DEF Malformed
  <2>. QED  BY <1>2, <2>1, <2>2 DEF LogInv, LogOK
<1>. QED  BY <1>5, <1>6, <1>7 DEF LogNext

LEMMA LogIsCounted == LogSpec => []LogInv
<1>1. LogInit => LogInv
  BY LogInvInit
<1>2. LogInv /\ [LogNext]_logVars => LogInv'
  BY LogInvNext
<1>. QED  BY <1>1, <1>2, PTL DEF LogSpec

(* However many processes append to the verdict log and die part-way (or   *)
(* meet a full disk), a torn line costs itself and at most the row         *)
(* appended to it (calib.go 168-171), and the report of `ettle calibrate`  *)
(* admits to a malformed line exactly when a verdict is missing from it.   *)
THEOREM EveryVerdictIsAccountedFor == LogSpec => []TearsAreCounted
<1>1. LogInv => TearsAreCounted
  <2>. SUFFICES ASSUME LogInv PROVE TearsAreCounted
    OBVIOUS
  <2>1. /\ LogOK /\ malformed \in 0..tears /\ tears \in Nat /\ given \in Nat
        /\ given = Rows + tears + malformed /\ Malformed <= tears /\ (tears > 0 => Malformed > 0)
    BY CalibrationAssumption DEF LogInv, LogOK
  <2>2. Rows \in Nat
    <3>1. [verdict |-> "real", votes |-> 0] \in Row
      BY CalibrationAssumption DEF Row
    <3>2. log \in [Row -> Nat]
      BY CalibrationAssumption, <2>1 DEF LogOK
    <3>. QED  BY <3>1, <3>2, OneRowMore DEF Rows
  <2>3. given - Rows = tears + malformed
    BY <2>1, <2>2
  <2>4. given - Rows \in 0..2 * tears
    BY <2>1, <2>3
  <2>5. Malformed \in Nat
    BY <2>1 DEF Malformed
  <2>6. given > Rows <=> Malformed > 0
    BY <2>1, <2>2, <2>5
  <2>. QED  BY <2>1, <2>4, <2>6 DEF TearsAreCounted
<1>. QED  BY <1>1, LogIsCounted, PTL

-----------------------------------------------------------------------------
(* The bands.                                                              *)

LEMMA BandOf ==
  ASSUME NEW n \in 1..Samples
  PROVE  /\ Band(n) \in 0..4
         /\ \/ n = Samples /\ Band(n) = 4
            \/ Band(n) * Samples <= 5 * n /\ 5 * n < (Band(n) + 1) * Samples
<1>. DEFINE T == {b \in 0..4 : b * Samples <= 5 * n}
<1>1. Samples \in Nat /\ Samples > 0
  BY CalibrationAssumption
<1>2. CASE n = Samples
  BY <1>2 DEF Band
<1>3. CASE n # Samples
  <2>1. Band(n) = Max(T) /\ n < Samples
    BY <1>1, <1>3 DEF Band
  <2>2. 0 \in T
    BY <1>1
  <2>3. \E x \in T : \A y \in T : x >= y
    <3>1. T \in SUBSET (0..4)
      OBVIOUS
    <3>. HIDE DEF T
    <3>. QED  BY <2>2, <3>1
  <2>4. Max(T) \in T /\ \A y \in T : Max(T) >= y
    <3>. HIDE DEF T
    <3>. QED  BY <2>3 DEF Max
  <2>. DEFINE m == Max(T)
  <2>. HIDE DEF m
  <2>5. m \in 0..4 /\ m * Samples <= 5 * n
    BY <2>4 DEF m
  <2>6. CASE m = 4
    <3>1. (m + 1) * Samples = 5 * Samples
      BY <2>6
    <3>. QED  BY <1>1, <2>1, <2>5, <3>1 DEF m
  <2>7. CASE m # 4
    <3>1. m + 1 \in 0..4 /\ m + 1 \notin T
      <4>. HIDE DEF T
      <4>1. m + 1 \in 0..4
        BY <2>5, <2>7
      <4>. QED  BY <2>4, <2>5, <4>1 DEF m
    <3>2. (m + 1) * Samples \in Int /\ ~((m + 1) * Samples <= 5 * n)
      BY <1>1, <3>1
    <3>. QED  BY <2>1, <2>5, <3>2 DEF m
  <2>. QED  BY <2>6, <2>7
<1>. QED  BY <1>2, <1>3

LEMMA FiveTerms ==
  ASSUME NEW g \in [0..4 -> Nat]
  PROVE  SumFunction(g) = g[0] + g[1] + g[2] + g[3] + g[4]
<1>. DEFINE F(s) == SumFunctionOnSet(g, s)
<1>1. DOMAIN g = 0..4
  OBVIOUS
<1>2. /\ F({}) = 0 /\ \A s \in SUBSET (0..4) : F(s) \in Nat
      /\ \A s \in SUBSET (0..4) : \A x \in s : F(s) = g[x] + F(s \ {x})
  <2>. DEFINE D == 0..4
  <2>1. g \in [D -> Nat]
    OBVIOUS
  <2>2. IsFiniteSet(D)
    <3>1. 0 \in Int /\ 4 \in Int
      OBVIOUS
    <3>. QED  BY <3>1, FS_Interval
  <2>. HIDE DEF D
  <2>3. /\ F({}) = 0 /\ \A s \in SUBSET D : F(s) \in Nat
        /\ \A s \in SUBSET D : \A x \in s : F(s) = g[x] + F(s \ {x})
    <3>1. Sums(g, D)
      BY <2>1, <2>2, SumsOver
    <3>. QED  BY <3>1 DEF Sums
  <2>. QED  BY <2>3 DEF D
<1>3. SumFunction(g) = F(0..4)
  BY <1>1 DEF SumFunction
<1>. HIDE DEF F
<1>4. F(0..4) = g[4] + F(0..3)
  <2>1. (0..4) \ {4} = 0..3
    OBVIOUS
  <2>2. F(0..4) = g[4] + F((0..4) \ {4})
    BY <1>2
  <2>. QED  BY <2>1, <2>2
<1>5. F(0..3) = g[3] + F(0..2)
  <2>1. (0..3) \ {3} = 0..2 /\ 0..3 \in SUBSET (0..4) /\ 3 \in 0..3
    OBVIOUS
  <2>2. F(0..3) = g[3] + F((0..3) \ {3})
    BY <1>2, <2>1
  <2>. QED  BY <2>1, <2>2
<1>6. F(0..2) = g[2] + F(0..1)
  <2>1. (0..2) \ {2} = 0..1 /\ 0..2 \in SUBSET (0..4) /\ 2 \in 0..2
    OBVIOUS
  <2>2. F(0..2) = g[2] + F((0..2) \ {2})
    BY <1>2, <2>1
  <2>. QED  BY <2>1, <2>2
<1>7. F(0..1) = g[1] + F({0})
  <2>1. (0..1) \ {1} = {0} /\ 0..1 \in SUBSET (0..4) /\ 1 \in 0..1
    OBVIOUS
  <2>2. F(0..1) = g[1] + F((0..1) \ {1})
    BY <1>2, <2>1
  <2>. QED  BY <2>1, <2>2
<1>8. F({0}) = g[0] + F({})
  <2>1. {0} \ {0} = {} /\ {0} \in SUBSET (0..4) /\ 0 \in {0}
    OBVIOUS
  <2>2. F({0}) = g[0] + F({0} \ {0})
    BY <1>2, <2>1
  <2>. QED  BY <2>1, <2>2
<1>9. g[0] \in Nat /\ g[1] \in Nat /\ g[2] \in Nat /\ g[3] \in Nat /\ g[4] \in Nat
  OBVIOUS
<1>. QED  BY <1>2, <1>3, <1>4, <1>5, <1>6, <1>7, <1>8, <1>9

LEMMA LogOfRows ==
  ASSUME LogOK
  PROVE  log \in [Row -> Nat]
  BY CalibrationAssumption DEF LogOK

LEMMA BandsAreThePartition ==
  ASSUME LogOK, NEW v \in {"real", "not_real", "handled"}
  PROVE  SumFunction([b \in 0..4 |-> Bucket(b)[v]]) = Count(LAMBDA r : r.verdict = v /\ r.votes > 0)
<1>. DEFINE In(b) == {r \in Row : r.verdict = v /\ r.votes > 0 /\ Band(r.votes) = b}
            all == {r \in Row : r.verdict = v /\ r.votes > 0}
            F(s) == SumFunctionOnSet(log, s)
            g == [b \in 0..4 |-> Bucket(b)[v]]
<1>1. log \in [Row -> Nat] /\ IsFiniteSet(Row)
  BY LogOfRows, RowIsFinite
<1>2. \A b \in 0..4 : Bucket(b)[v] = F(In(b))
  BY DEF Bucket, Count
<1>3. Count(LAMBDA r : r.verdict = v /\ r.votes > 0) = F(all)
  BY DEF Count
<1>4. \A s \in SUBSET Row : F(s) \in Nat
  BY <1>1, SumIsOver
<1>5. \A s, t \in SUBSET Row : s \cap t = {} => F(s \cup t) = F(s) + F(t)
  BY <1>1, SumsAdd
<1>. HIDE DEF F
<1>6. \A b : In(b) \in SUBSET Row
  OBVIOUS
<1>7. g \in [0..4 -> Nat] /\ \A b \in 0..4 : g[b] = F(In(b))
  BY <1>2, <1>4, <1>6
<1>8. SumFunction(g) = g[0] + g[1] + g[2] + g[3] + g[4]
  <2>. HIDE DEF g
  <2>. QED  BY <1>7, FiveTerms
<1>9. \A b, c : b # c => In(b) \cap In(c) = {}
  OBVIOUS
<1>10. all = (((In(0) \cup In(1)) \cup In(2)) \cup In(3)) \cup In(4)
  <2>1. \A r \in all : r \in Row /\ r.votes \in 1..Samples
    BY CalibrationAssumption DEF Row
  <2>2. \A r \in all : Band(r.votes) \in 0..4
    BY <2>1, BandOf
  <2>3. \A r \in all : Band(r.votes) \in {0, 1, 2, 3, 4}
    BY <2>2
  <2>. QED  BY <2>3
<1>. HIDE DEF In, g
<1>11. F(In(0) \cup In(1)) = F(In(0)) + F(In(1))
  BY <1>5, <1>6, <1>9
<1>12. F((In(0) \cup In(1)) \cup In(2)) = F(In(0) \cup In(1)) + F(In(2))
  <2>1. (In(0) \cup In(1)) \cap In(2) = {} /\ In(0) \cup In(1) \in SUBSET Row
    BY <1>6, <1>9
  <2>. QED  BY <1>5, <1>6, <2>1
<1>13. F(((In(0) \cup In(1)) \cup In(2)) \cup In(3)) = F((In(0) \cup In(1)) \cup In(2)) + F(In(3))
  <2>1. ((In(0) \cup In(1)) \cup In(2)) \cap In(3) = {} /\ (In(0) \cup In(1)) \cup In(2) \in SUBSET Row
    BY <1>6, <1>9
  <2>. QED  BY <1>5, <1>6, <2>1
<1>14. F((((In(0) \cup In(1)) \cup In(2)) \cup In(3)) \cup In(4))
         = F(((In(0) \cup In(1)) \cup In(2)) \cup In(3)) + F(In(4))
  <2>1. (((In(0) \cup In(1)) \cup In(2)) \cup In(3)) \cap In(4) = {}
        /\ ((In(0) \cup In(1)) \cup In(2)) \cup In(3) \in SUBSET Row
    BY <1>6, <1>9
  <2>. QED  BY <1>5, <1>6, <2>1
<1>15. F(all) = F(In(0)) + F(In(1)) + F(In(2)) + F(In(3)) + F(In(4))
  BY <1>10, <1>11, <1>12, <1>13, <1>14
<1>16. g[0] = F(In(0)) /\ g[1] = F(In(1)) /\ g[2] = F(In(2)) /\ g[3] = F(In(3)) /\ g[4] = F(In(4))
  BY <1>7
<1>17. SumFunction(g) = F(all)
  BY <1>8, <1>15, <1>16
<1>. QED  BY <1>3, <1>17 DEF g

(* Whatever the number of samples and the rows, the reliability table of   *)
(* `ettle calibrate` (calibrate.go) puts each row that carries recurrence  *)
(* into the one band that holds it: a vote of 1.0 is in the last, and the  *)
(* five rows of the table add up to the rows of the verdict.               *)
THEOREM BandsAddUp == LogSpec => []BandsHoldTheRows
<1>1. LogInv => BandsHoldTheRows
  <2>1. SUFFICES ASSUME LogOK PROVE BandsHoldTheRows
    BY DEF LogInv
  <2>2. \A n \in 1..Samples : \/ n = Samples /\ Band(n) = 4
                              \/ Band(n) * Samples <= 5 * n /\ 5 * n < (Band(n) + 1) * Samples
    BY BandOf
  <2>3. ASSUME NEW v \in {"real", "not_real", "handled"}
        PROVE  SumFunction([b \in 0..4 |-> Bucket(b)[v]]) = Count(LAMBDA r : r.verdict = v /\ r.votes > 0)
    BY <2>1, BandsAreThePartition
  <2>. QED  BY <2>2, <2>3 DEF BandsHoldTheRows
<1>. QED  BY <1>1, LogIsCounted, PTL

-----------------------------------------------------------------------------
(* The suggested cut: what a cut asserts is what the rows at or above it   *)
(* do, so it changes only at the recurrences that were observed.           *)

LEMMA SumOfNothing ==
  ASSUME NEW D, IsFiniteSet(D), NEW f \in [D -> Nat], NEW S \in SUBSET D, \A x \in S : f[x] = 0
  PROVE  SumFunctionOnSet(f, S) = 0
<1>. DEFINE B == {s \in SUBSET S : SumFunctionOnSet(f, s) # 0}
<1>1. Sums(f, D)
  BY SumsOver
<1>2. /\ SumFunctionOnSet(f, {}) = 0
      /\ \A s \in SUBSET D : \A x \in s : SumFunctionOnSet(f, s) = f[x] + SumFunctionOnSet(f, s \ {x})
  BY <1>1 DEF Sums
<1>3. B = {}
  <2>1. SUFFICES ASSUME B # {} PROVE FALSE
    OBVIOUS
  <2>2. B \in SUBSET SUBSET D /\ \A s : s \in B <=> s \in SUBSET S /\ SumFunctionOnSet(f, s) # 0
    OBVIOUS
  <2>. HIDE DEF B
  <2>3. PICK s \in B : \A x \in s : s \ {x} \notin B
    BY <2>1, <2>2, Smallest
  <2>4. PICK x \in s : TRUE
    BY <1>2, <2>2
  <2>5. SumFunctionOnSet(f, s \ {x}) = 0 /\ f[x] = 0
    BY <2>2, <2>3
  <2>. QED  BY <1>2, <2>2, <2>5
<1>. QED  BY <1>3

LEMMA SumOfSomething ==
  ASSUME NEW D, IsFiniteSet(D), NEW f \in [D -> Nat], NEW S \in SUBSET D, NEW x \in S,
         SumFunctionOnSet(f, S) = 0
  PROVE  f[x] = 0
<1>1. Sums(f, D)
  BY SumsOver
<1>2. SumFunctionOnSet(f, S) = f[x] + SumFunctionOnSet(f, S \ {x})
      /\ SumFunctionOnSet(f, S \ {x}) \in Nat /\ f[x] \in Nat
  BY <1>1 DEF Sums
<1>. QED  BY <1>2

Arms == {"real", "not_real"}
Arm(v) == {r \in Row : r.votes > 0 /\ r.verdict = v}
AtOrAbove(v, cut) == {r \in Arm(v) : r.votes >= cut}
Between(v, c, d) == {r \in Arm(v) : c <= r.votes /\ r.votes < d}
SumOf(s) == SumFunctionOnSet(log, s)

LEMMA SumOfRows ==
  ASSUME LogOK
  PROVE  /\ \A s \in SUBSET Row : SumOf(s) \in Nat
         /\ SumOf({}) = 0
         /\ \A s, t \in SUBSET Row : s \cap t = {} => SumOf(s \cup t) = SumOf(s) + SumOf(t)
         /\ \A s \in SUBSET Row : SumOf(s) = 0 <=> \A r \in s : log[r] = 0
<1>1. log \in [Row -> Nat] /\ IsFiniteSet(Row)
  BY LogOfRows, RowIsFinite
<1>2. Sums(log, Row)
  BY <1>1, SumsOver
<1>3. /\ \A s \in SUBSET Row : SumOf(s) \in Nat
      /\ SumOf({}) = 0
  BY <1>2 DEF Sums, SumOf
<1>4. ASSUME NEW s \in SUBSET Row, NEW t \in SUBSET Row, s \cap t = {}
      PROVE  SumOf(s \cup t) = SumOf(s) + SumOf(t)
  BY <1>1, <1>4, SumsAdd DEF SumOf
<1>5. ASSUME NEW s \in SUBSET Row, SumOf(s) = 0, NEW r \in s PROVE log[r] = 0
  BY <1>1, <1>5, SumOfSomething DEF SumOf
<1>6. ASSUME NEW s \in SUBSET Row, \A r \in s : log[r] = 0 PROVE SumOf(s) = 0
  BY <1>1, <1>6, SumOfNothing DEF SumOf
<1>. QED  BY <1>3, <1>4, <1>5, <1>6

LEMMA RowVotes ==
  /\ Samples \in Nat /\ FirmVotes \in 0..Samples
  /\ \A r \in Row : r.votes \in 0..Samples
  BY CalibrationAssumption DEF Row

(* What a higher cut gives up is the rows between the two.                 *)
LEMMA BetweenCuts ==
  ASSUME LogOK, NEW v \in Arms, NEW c \in Int, NEW d \in Int, c <= d
  PROVE  SumOf(AtOrAbove(v, c)) = SumOf(AtOrAbove(v, d)) + SumOf(Between(v, c, d))
<1>1. AtOrAbove(v, c) = AtOrAbove(v, d) \cup Between(v, c, d)
  <2>1. \A r \in Arm(v) : r.votes \in Int
    BY RowVotes DEF Arm
  <2>. QED  BY <2>1 DEF AtOrAbove, Between
<1>2. AtOrAbove(v, d) \cap Between(v, c, d) = {}
  <2>1. \A r \in Arm(v) : r.votes \in Int
    BY RowVotes DEF Arm
  <2>. QED  BY <2>1 DEF AtOrAbove, Between
<1>3. AtOrAbove(v, d) \in SUBSET Row /\ Between(v, c, d) \in SUBSET Row
  BY DEF AtOrAbove, Between, Arm
<1>. QED  BY <1>1, <1>2, <1>3, SumOfRows

LEMMA EdgeIs ==
  ASSUME NEW c
  PROVE  Edge(c) = SumOf(AtOrAbove("real", c)) * SumOf(Arm("not_real"))
                   - SumOf(AtOrAbove("not_real", c)) * SumOf(Arm("real"))
<1>1. \A v : {r \in Row : r.votes >= c /\ r.votes > 0 /\ r.verdict = v} = AtOrAbove(v, c)
             /\ {r \in Row : r.votes > 0 /\ r.verdict = v} = Arm(v)
  BY DEF AtOrAbove, Arm
<1>. DEFINE A(v) == {r \in Row : r.votes >= c /\ r.votes > 0 /\ r.verdict = v}
            R(v) == {r \in Row : r.votes > 0 /\ r.verdict = v}
<1>2. Edge(c) = SumOf(A("real")) * SumOf(R("not_real")) - SumOf(A("not_real")) * SumOf(R("real"))
  BY DEF Edge, Count, SumOf
<1>3. A("real") = AtOrAbove("real", c) /\ A("not_real") = AtOrAbove("not_real", c)
      /\ R("real") = Arm("real") /\ R("not_real") = Arm("not_real")
  BY <1>1
<1>. HIDE DEF A, R
<1>. QED  BY <1>2, <1>3

LEMMA CutSplits ==
  ASSUME LogOK, NEW c \in Int
  PROVE  /\ SplitAt(c).tp = SumOf(AtOrAbove("real", c))
         /\ SplitAt(c).fp = SumOf(AtOrAbove("not_real", c))
         /\ SplitAt(c).tp + SplitAt(c).fn = SumOf(Arm("real"))
         /\ SplitAt(c).fp + SplitAt(c).tn = SumOf(Arm("not_real"))
         /\ SplitAt(c) \in [tp : Nat, fp : Nat, fn : Nat, tn : Nat]
<1>. DEFINE Below(v) == {r \in Arm(v) : r.votes < c}
<1>1. \A r \in Row : r.votes \in Int
  BY RowVotes
<1>2. /\ {r \in Row : Labelled(r) /\ r.votes >= c /\ r.verdict = "real"} = AtOrAbove("real", c)
      /\ {r \in Row : Labelled(r) /\ r.votes >= c /\ r.verdict = "not_real"} = AtOrAbove("not_real", c)
      /\ {r \in Row : Labelled(r) /\ r.votes < c /\ r.verdict = "real"} = Below("real")
      /\ {r \in Row : Labelled(r) /\ r.votes < c /\ r.verdict = "not_real"} = Below("not_real")
  BY DEF Labelled, AtOrAbove, Arm
<1>3. SplitAt(c) = [tp |-> SumOf(AtOrAbove("real", c)), fp |-> SumOf(AtOrAbove("not_real", c)),
                    fn |-> SumOf(Below("real")), tn |-> SumOf(Below("not_real"))]
  <2>. HIDE DEF Below
  <2>. QED  BY <1>2 DEF SplitAt, Count, SumOf
<1>4. ASSUME NEW v \in Arms
      PROVE  /\ SumOf(AtOrAbove(v, c)) + SumOf(Below(v)) = SumOf(Arm(v))
             /\ SumOf(AtOrAbove(v, c)) \in Nat /\ SumOf(Below(v)) \in Nat
  <2>1. AtOrAbove(v, c) \cup Below(v) = Arm(v) /\ AtOrAbove(v, c) \cap Below(v) = {}
    BY <1>1 DEF AtOrAbove, Arm
  <2>2. AtOrAbove(v, c) \in SUBSET Row /\ Below(v) \in SUBSET Row
    BY DEF AtOrAbove, Arm
  <2>. HIDE DEF Below
  <2>. QED  BY <2>1, <2>2, SumOfRows
<1>. HIDE DEF Below
<1>5. "real" \in Arms /\ "not_real" \in Arms
  BY DEF Arms
<1>. QED  BY <1>3, <1>4, <1>5

(* Youden's statistic of a cut is its edge.                                *)
LEMMA YoudenIsEdge ==
  ASSUME LogOK, NEW c \in Int
  PROVE  YoudenJ(SplitAt(c)) = Edge(c) /\ Edge(c) \in Int
<1>. DEFINE a == SumOf(AtOrAbove("real", c))
            b == SumOf(AtOrAbove("not_real", c))
            R == SumOf(Arm("real"))
            N == SumOf(Arm("not_real"))
            m == SplitAt(c)
<1>1. /\ m.tp = a /\ m.fp = b /\ m.tp + m.fn = R /\ m.fp + m.tn = N
      /\ m.tp \in Nat /\ m.fp \in Nat /\ m.fn \in Nat /\ m.tn \in Nat
  BY CutSplits
<1>2. Edge(c) = a * N - b * R
  BY EdgeIs
<1>3. YoudenJ(m) = IF m.tp + m.fn = 0 \/ m.tn + m.fp = 0 THEN 0
                   ELSE m.tp * (m.tn + m.fp) + m.tn * (m.tp + m.fn)
                        - (m.tp + m.fn) * (m.tn + m.fp)
  BY DEF YoudenJ
<1>. HIDE DEF a, b, R, N, m
<1>4. a \in Nat /\ b \in Nat /\ R \in Nat /\ N \in Nat /\ m.fn = R - a /\ m.tn = N - b
      /\ a <= R /\ b <= N
  BY <1>1
<1>5. YoudenJ(m) = IF R = 0 \/ N = 0 THEN 0 ELSE a * N + (N - b) * R - R * N
  BY <1>1, <1>3, <1>4
<1>6. CASE R = 0
  <2>1. a = 0 /\ a * N = 0 /\ b * R = 0
    BY <1>4, <1>6
  <2>. QED  BY <1>2, <1>5, <1>6, <2>1 DEF m
<1>7. CASE N = 0
  <2>1. b = 0 /\ a * N = 0 /\ b * R = 0
    BY <1>4, <1>7
  <2>. QED  BY <1>2, <1>5, <1>7, <2>1 DEF m
<1>8. CASE R # 0 /\ N # 0
  <2>1. (N - b) * R = N * R - b * R /\ N * R = R * N
    BY <1>4
  <2>2. a * N \in Int /\ b * R \in Int /\ N * R \in Int
    BY <1>4
  <2>. QED  BY <1>2, <1>5, <1>8, <2>1, <2>2 DEF m
<1>. QED  BY <1>6, <1>7, <1>8

LEMMA MinMaxIs ==
  ASSUME NEW N \in Nat, NEW S \in SUBSET (0..N), S # {}
  PROVE  /\ Min(S) \in S /\ \A y \in S : Min(S) <= y
         /\ Max(S) \in S /\ \A y \in S : y <= Max(S)
<1>1. \E x \in S : \A y \in S : x <= y
  <2>1. S \in SUBSET Nat
    OBVIOUS
  <2>. QED  BY <2>1, Least
<1>2. \E x \in S : \A y \in S : x >= y
  <2>. DEFINE T == {N - x : x \in S}
  <2>1. T \in SUBSET Nat /\ T # {}
    <3>1. \A x \in S : N - x \in Nat
      OBVIOUS
    <3>2. T # {}
      OBVIOUS
    <3>. QED  BY <3>1, <3>2
  <2>2. \A x \in S : N - x \in T /\ x \in 0..N
    OBVIOUS
  <2>3. \A k \in T : \E x \in S : k = N - x
    OBVIOUS
  <2>. HIDE DEF T
  <2>4. PICK k \in T : \A m \in T : k <= m
    BY <2>1, Least
  <2>5. PICK x \in S : k = N - x
    BY <2>3
  <2>6. \A y \in S : N - x <= N - y
    BY <2>2, <2>4, <2>5
  <2>. QED  BY <2>2, <2>6
<1>3. Min(S) \in S /\ \A y \in S : Min(S) <= y
  BY <1>1 DEF Min
<1>4. Max(S) \in S /\ \A y \in S : Max(S) >= y
  BY <1>2 DEF Max
<1>5. \A y \in S : y \in Int
  OBVIOUS
<1>. QED  BY <1>3, <1>4, <1>5

LEMMA CutsAre ==
  /\ Cuts \in SUBSET (0..Samples)
  /\ \A r \in Row : log[r] > 0 /\ Labelled(r) => r.votes \in Cuts
  BY RowVotes DEF Cuts

(* Two cuts with no observed recurrence between them are one cut.          *)
LEMMA SameCut ==
  ASSUME LogOK, NEW c \in Int, NEW d \in Int, c <= d,
         \A x \in Cuts : ~(c <= x /\ x < d)
  PROVE  /\ \A v \in Arms : SumOf(AtOrAbove(v, c)) = SumOf(AtOrAbove(v, d))
         /\ Edge(c) = Edge(d)
<1>1. ASSUME NEW v \in Arms
      PROVE  SumOf(AtOrAbove(v, c)) = SumOf(AtOrAbove(v, d))
  <2>1. \A r \in Between(v, c, d) : r \in Row /\ Labelled(r) /\ r.votes \notin Cuts
    BY DEF Between, Arm, Labelled, Arms
  <2>2. \A r \in Between(v, c, d) : log[r] = 0
    <3>1. SUFFICES ASSUME NEW r \in Between(v, c, d) PROVE log[r] = 0
      OBVIOUS
    <3>2. r \in Row /\ ~(log[r] > 0)
      BY <2>1, CutsAre
    <3>3. log[r] \in Nat
      BY <3>2, LogOfRows
    <3>. QED  BY <3>2, <3>3
  <2>3. Between(v, c, d) \in SUBSET Row /\ AtOrAbove(v, d) \in SUBSET Row
    BY DEF Between, AtOrAbove, Arm
  <2>4. SumOf(Between(v, c, d)) = 0 /\ SumOf(AtOrAbove(v, d)) \in Nat
    BY <2>2, <2>3, SumOfRows
  <2>5. SumOf(AtOrAbove(v, c)) = SumOf(AtOrAbove(v, d)) + SumOf(Between(v, c, d))
    BY BetweenCuts
  <2>. QED  BY <2>4, <2>5
<1>2. "real" \in Arms /\ "not_real" \in Arms
  BY DEF Arms
<1>3. Edge(c) = Edge(d)
  BY <1>1, <1>2, EdgeIs
<1>. QED  BY <1>1, <1>3

LEMMA NextCut ==
  ASSUME LogOK, NEW c \in Int, \E x \in Cuts : x >= c
  PROVE  \E d \in Cuts : d >= c /\ Edge(c) = Edge(d) /\ \A x \in Cuts : x >= c => d <= x
<1>. DEFINE T == {x \in Cuts : x >= c}
<1>1. T \in SUBSET Nat /\ T # {} /\ \A x : x \in T <=> x \in Cuts /\ x >= c
  <2>1. \A x : x \in T <=> x \in Cuts /\ x >= c
    OBVIOUS
  <2>2. Samples \in Nat /\ \A x \in Cuts : x \in 0..Samples
    BY CutsAre, RowVotes
  <2>3. \A x \in Cuts : x \in Nat
    BY <2>2
  <2>. HIDE DEF T
  <2>. QED  BY <2>1, <2>3
<1>. HIDE DEF T
<1>2. PICK d \in T : \A x \in T : d <= x
  BY <1>1, Least
<1>3. d \in Cuts /\ d >= c /\ d \in Nat /\ \A x \in Cuts : x >= c => d <= x
  BY <1>1, <1>2
<1>4. \A x \in Cuts : ~(c <= x /\ x < d)
  <2>1. SUFFICES ASSUME NEW x \in Cuts, c <= x, x < d PROVE FALSE
    OBVIOUS
  <2>2. x \in 0..Samples /\ d <= x
    BY <1>3, <2>1, CutsAre
  <2>. QED  BY <1>3, <2>1, <2>2, RowVotes
<1>5. Edge(c) = Edge(d)
  BY <1>3, <1>4, SameCut
<1>. QED  BY <1>3, <1>5

LEMMA BeyondTheCuts ==
  ASSUME LogOK, NEW c \in Int, ~\E x \in Cuts : x >= c
  PROVE  Edge(c) = 0
<1>1. ASSUME NEW v \in Arms
      PROVE  SumOf(AtOrAbove(v, c)) = 0 /\ SumOf(Arm(v)) \in Nat
  <2>1. \A r \in AtOrAbove(v, c) : r \in Row /\ Labelled(r) /\ r.votes \notin Cuts
    BY DEF AtOrAbove, Arm, Labelled, Arms
  <2>2. \A r \in AtOrAbove(v, c) : log[r] = 0
    <3>1. SUFFICES ASSUME NEW r \in AtOrAbove(v, c) PROVE log[r] = 0
      OBVIOUS
    <3>2. r \in Row /\ ~(log[r] > 0)
      BY <2>1, CutsAre
    <3>3. log[r] \in Nat
      BY <3>2, LogOfRows
    <3>. QED  BY <3>2, <3>3
  <2>3. AtOrAbove(v, c) \in SUBSET Row /\ Arm(v) \in SUBSET Row
    BY DEF AtOrAbove, Arm
  <2>. QED  BY <2>2, <2>3, SumOfRows
<1>2. "real" \in Arms /\ "not_real" \in Arms
  BY DEF Arms
<1>3. Edge(c) = 0 * SumOf(Arm("not_real")) - 0 * SumOf(Arm("real"))
  BY <1>1, <1>2, EdgeIs
<1>. QED  BY <1>1, <1>2, <1>3

LEMMA BelowTheCuts ==
  ASSUME LogOK, NEW c \in Nat, ~\E x \in Cuts : x < c
  PROVE  Edge(c) = 0
<1>1. ASSUME NEW v \in Arms
      PROVE  SumOf(AtOrAbove(v, c)) = SumOf(Arm(v)) /\ SumOf(Arm(v)) \in Nat
  <2>1. AtOrAbove(v, 0) = Arm(v) /\ Arm(v) \in SUBSET Row
    BY RowVotes DEF AtOrAbove, Arm
  <2>2. \A x \in Cuts : ~(0 <= x /\ x < c)
    OBVIOUS
  <2>3. SumOf(AtOrAbove(v, 0)) = SumOf(AtOrAbove(v, c))
    BY <2>2, SameCut
  <2>. QED  BY <2>1, <2>3, SumOfRows
<1>2. "real" \in Arms /\ "not_real" \in Arms
  BY DEF Arms
<1>3. Edge(c) = SumOf(Arm("real")) * SumOf(Arm("not_real")) - SumOf(Arm("not_real")) * SumOf(Arm("real"))
  BY <1>1, <1>2, EdgeIs
<1>. DEFINE R == SumOf(Arm("real"))
            N == SumOf(Arm("not_real"))
<1>4. R \in Nat /\ N \in Nat
  BY <1>1, <1>2
<1>5. Edge(c) = R * N - N * R
  BY <1>3
<1>. HIDE DEF R, N
<1>6. R * N - N * R = 0
  BY <1>4
<1>. QED  BY <1>5, <1>6

LEMMA BestExists ==
  ASSUME LogOK, Cuts # {}
  PROVE  \E c \in Cuts : \A d \in Cuts : Edge(d) <= Edge(c)
<1>. DEFINE Has(s) == \E c \in s : \A d \in s : Edge(d) <= Edge(c)
            B == {s \in SUBSET Cuts : s # {} /\ ~Has(s)}
<1>1. IsFiniteSet(Cuts)
  <2>1. 0 \in Int /\ Samples \in Int
    BY RowVotes
  <2>2. IsFiniteSet(0..Samples)
    BY <2>1, FS_Interval
  <2>. QED  BY <2>2, CutsAre, FS_Subset
<1>2. \A c \in Cuts : Edge(c) \in Int
  BY CutsAre, YoudenIsEdge
<1>3. B = {}
  <2>1. SUFFICES ASSUME B # {} PROVE FALSE
    OBVIOUS
  <2>2. B \in SUBSET SUBSET Cuts /\ \A s : s \in B <=> s \in SUBSET Cuts /\ s # {} /\ ~Has(s)
    OBVIOUS
  <2>. HIDE DEF B
  <2>3. PICK s \in B : \A x \in s : s \ {x} \notin B
    BY <1>1, <2>1, <2>2, Smallest
  <2>4. PICK x \in s : TRUE
    BY <2>2
  <2>5. s \in SUBSET Cuts /\ ~Has(s) /\ Edge(x) \in Int
    BY <1>2, <2>2
  <2>6. CASE s \ {x} = {}
    BY <2>5, <2>6
  <2>7. CASE s \ {x} # {}
    <3>1. Has(s \ {x})
      <4>. HIDE DEF Has
      <4>. QED  BY <2>2, <2>3, <2>7
    <3>2. PICK c \in s \ {x} : \A d \in s \ {x} : Edge(d) <= Edge(c)
      BY <3>1
    <3>3. Edge(c) \in Int /\ \A d \in s : Edge(d) \in Int
      BY <1>2, <2>5
    <3>4. CASE Edge(x) <= Edge(c)
      BY <2>5, <3>2, <3>4
    <3>5. CASE Edge(c) < Edge(x)
      <4>1. \A d \in s : Edge(d) <= Edge(x)
        BY <2>5, <3>2, <3>3, <3>5
      <4>. QED  BY <2>5, <4>1
    <3>. QED  BY <2>5, <3>3, <3>4, <3>5
  <2>. QED  BY <2>6, <2>7
<1>4. Has(Cuts)
  BY <1>3
<1>. QED  BY <1>4

(* What the report suggests, in terms of the edge of a cut.                *)
LEMMA SuggestIs ==
  ASSUME LogOK, Cuts # {}
  PROVE  /\ Suggest.best \in Cuts /\ \A d \in Cuts : Edge(d) <= Edge(Suggest.best)
         /\ Suggest.separates <=> Edge(Suggest.best) > 0
         /\ Suggest.lo \in Cuts /\ Suggest.hi \in Cuts
         /\ \A d \in Cuts : d \in Suggest.lo..Suggest.hi => Edge(d) = Edge(Suggest.best)
         /\ Suggest.sameAsCurrent <=> SplitAt(FirmVotes) = SplitAt(Suggest.best)
<1>. DEFINE score == [c \in Cuts |-> YoudenJ(SplitAt(c))]
            bestJ == Max(Range(score))
            top == {c \in Cuts : score[c] = bestJ}
            best == Min(top)
            tied(c) == \A d \in Cuts : d \in (best..c \cup c..best) => score[d] = bestJ
            ties == {c \in Cuts : tied(c)}
<1>1. /\ Suggest.best = best /\ Suggest.lo = Min(ties) /\ Suggest.hi = Max(ties)
      /\ Suggest.separates = (bestJ > 0)
      /\ Suggest.sameAsCurrent = (SplitAt(FirmVotes) = SplitAt(best))
  BY DEF Suggest
<1>2. Samples \in Nat /\ Cuts \in SUBSET (0..Samples)
  BY CutsAre, RowVotes
<1>3. \A c \in Cuts : c \in Int
  BY <1>2
<1>4. \A c \in Cuts : score[c] = Edge(c) /\ Edge(c) \in Int
  BY <1>3, YoudenIsEdge
<1>5. DOMAIN score = Cuts
  OBVIOUS
<1>. HIDE DEF score
<1>6. PICK p \in Cuts : \A d \in Cuts : Edge(d) <= Edge(p)
  BY BestExists
<1>7. bestJ = Edge(p)
  <2>1. Edge(p) \in Range(score) /\ \A y \in Range(score) : y \in Int /\ Edge(p) >= y
    BY <1>4, <1>5, <1>6 DEF Range
  <2>2. bestJ \in Range(score) /\ \A y \in Range(score) : bestJ >= y
    BY <2>1 DEF Max
  <2>3. bestJ \in Int /\ bestJ >= Edge(p) /\ Edge(p) >= bestJ /\ Edge(p) \in Int
    BY <2>1, <2>2
  <2>. HIDE DEF bestJ
  <2>. QED  BY <2>3
<1>. HIDE DEF bestJ
<1>8. top \in SUBSET (0..Samples) /\ p \in top
  BY <1>2, <1>4, <1>6, <1>7
<1>9. best \in top
  <2>. HIDE DEF top
  <2>. QED  BY <1>2, <1>8, MinMaxIs
<1>10. best \in Cuts /\ Edge(best) = bestJ
  <2>. HIDE DEF best
  <2>. QED  BY <1>4, <1>9
<1>. HIDE DEF best
<1>11. best \in 0..Samples
  BY <1>2, <1>10
<1>12. best \in ties
  <2>1. \A d \in Cuts : d \in (best..best \cup best..best) => d = best
    BY <1>11
  <2>2. score[best] = bestJ
    BY <1>4, <1>10
  <2>. QED  BY <1>10, <2>1, <2>2
<1>13. ties \in SUBSET (0..Samples)
  BY <1>2
<1>14. \A c \in ties : c \in Cuts /\ tied(c)
  OBVIOUS
<1>. HIDE DEF ties
<1>15. Min(ties) \in ties /\ Max(ties) \in ties
  BY <1>2, <1>12, <1>13, MinMaxIs
<1>16. ASSUME NEW d \in Cuts, d \in Min(ties)..Max(ties) PROVE Edge(d) = Edge(best)
  <2>. DEFINE l == Min(ties)
              h == Max(ties)
  <2>1. l \in Cuts /\ h \in Cuts /\ tied(l) /\ tied(h)
    BY <1>14, <1>15
  <2>. HIDE DEF l, h
  <2>2. l \in Int /\ h \in Int /\ best \in Int /\ d \in Int /\ l <= d /\ d <= h
    <3>1. l \in Int /\ h \in Int /\ best \in Int /\ d \in Int
      <4>. HIDE DEF tied
      <4>. QED  BY <1>3, <1>10, <2>1
    <3>2. d \in l..h
      BY <1>16 DEF l, h
    <3>. QED  BY <3>1, <3>2
  <2>3. CASE d <= best
    BY <1>4, <1>10, <2>1, <2>2, <2>3
  <2>4. CASE best <= d
    BY <1>4, <1>10, <2>1, <2>2, <2>4
  <2>. QED  BY <2>2, <2>3, <2>4
<1>. QED  BY <1>1, <1>6, <1>7, <1>10, <1>14, <1>15, <1>16

LEMMA IntervalIsAlike ==
  ASSUME LogOK, Cuts # {}, NEW c \in Suggest.lo..Suggest.hi
  PROVE  Edge(c) = Edge(Suggest.best)
<1>. DEFINE l == Suggest.lo
            h == Suggest.hi
<1>1. l \in Cuts /\ h \in Cuts /\ \A d \in Cuts : d \in l..h => Edge(d) = Edge(Suggest.best)
  BY SuggestIs
<1>. HIDE DEF l, h
<1>2. l \in Int /\ h \in Int /\ \A x \in Cuts : x \in Int
  BY <1>1, CutsAre, RowVotes
<1>3. c \in Int /\ l <= c /\ c <= h
  BY <1>2 DEF l, h
<1>4. PICK d \in Cuts : d >= c /\ Edge(c) = Edge(d) /\ \A x \in Cuts : x >= c => d <= x
  BY <1>1, <1>2, <1>3, NextCut
<1>5. d \in l..h
  BY <1>1, <1>2, <1>3, <1>4
<1>. QED  BY <1>1, <1>4, <1>5

LEMMA NoCutIsBetter ==
  ASSUME LogOK, Cuts # {}, NEW c \in Int
  PROVE  Edge(c) <= Edge(Suggest.best)
<1>1. Suggest.best \in Cuts /\ \A d \in Cuts : Edge(d) <= Edge(Suggest.best)
  BY SuggestIs
<1>2. CASE \E x \in Cuts : x >= c
  BY <1>1, <1>2, NextCut
<1>3. CASE ~\E x \in Cuts : x >= c
  <2>1. Edge(c) = 0
    BY <1>3, BeyondTheCuts
  <2>2. Samples \in Nat /\ \A x \in Cuts : x \in Nat
    BY CutsAre, RowVotes
  <2>3. Cuts \in SUBSET Nat
    BY <2>2
  <2>4. PICK m \in Cuts : \A x \in Cuts : m <= x
    BY <2>3, Least
  <2>5. ~\E x \in Cuts : x < m
    BY <2>2, <2>4
  <2>6. Edge(m) = 0
    BY <2>2, <2>5, BelowTheCuts
  <2>. QED  BY <1>1, <2>1, <2>6
<1>. QED  BY <1>2, <1>3

(* Moving the bar to the cut changes no split exactly when it moves no row.*)
LEMMA SplitsAgree ==
  ASSUME LogOK, NEW c \in Int, NEW d \in Int
  PROVE  SplitAt(c) = SplitAt(d) <=>
           \A r \in Row : log[r] > 0 /\ Labelled(r) => (r.votes >= c <=> r.votes >= d)
<1>1. ASSUME NEW a \in Int, NEW b \in Int, a <= b
      PROVE  SplitAt(a) = SplitAt(b) <=>
               \A r \in Row : log[r] > 0 /\ Labelled(r) => (r.votes >= a <=> r.votes >= b)
  <2>1. \A r \in Row : r.votes \in Int /\ log[r] \in Nat
    BY RowVotes, LogOfRows
  <2>2. ASSUME NEW v \in Arms
        PROVE  /\ SumOf(AtOrAbove(v, a)) = SumOf(AtOrAbove(v, b)) + SumOf(Between(v, a, b))
               /\ SumOf(AtOrAbove(v, b)) \in Nat /\ SumOf(Between(v, a, b)) \in Nat
               /\ SumOf(Between(v, a, b)) = 0 <=> \A r \in Between(v, a, b) : log[r] = 0
    <3>1. AtOrAbove(v, b) \in SUBSET Row /\ Between(v, a, b) \in SUBSET Row
      BY DEF AtOrAbove, Between, Arm
    <3>. QED  BY <1>1, <3>1, BetweenCuts, SumOfRows
  <2>3. ASSUME SplitAt(a) = SplitAt(b), NEW r \in Row, log[r] > 0, Labelled(r)
        PROVE  r.votes >= a <=> r.votes >= b
    <3>1. r.verdict \in Arms
      BY <2>3 DEF Labelled, Arms
    <3>2. SumOf(AtOrAbove(r.verdict, a)) = SumOf(AtOrAbove(r.verdict, b))
      <4>1. \/ r.verdict = "real" \/ r.verdict = "not_real"
        BY <3>1 DEF Arms
      <4>2. CASE r.verdict = "real"
        <5>1. SplitAt(a).tp = SumOf(AtOrAbove("real", a)) /\ SplitAt(b).tp = SumOf(AtOrAbove("real", b))
          BY CutSplits
        <5>. QED  BY <2>3, <4>2, <5>1
      <4>3. CASE r.verdict = "not_real"
        <5>1. SplitAt(a).fp = SumOf(AtOrAbove("not_real", a)) /\ SplitAt(b).fp = SumOf(AtOrAbove("not_real", b))
          BY CutSplits
        <5>. QED  BY <2>3, <4>3, <5>1
      <4>. QED  BY <4>1, <4>2, <4>3
    <3>3. SumOf(Between(r.verdict, a, b)) = 0
      BY <2>2, <3>1, <3>2
    <3>4. r \notin Between(r.verdict, a, b)
      BY <2>2, <2>3, <3>1, <3>3
    <3>5. ~(a <= r.votes /\ r.votes < b)
      BY <2>3, <3>4 DEF Between, Arm, Labelled
    <3>. QED  BY <1>1, <2>1, <3>5
  <2>4. ASSUME \A r \in Row : log[r] > 0 /\ Labelled(r) => (r.votes >= a <=> r.votes >= b)
        PROVE  SplitAt(a) = SplitAt(b)
    <3>1. \A x \in Cuts : ~(a <= x /\ x < b)
      <4>1. SUFFICES ASSUME NEW r \in Row, log[r] > 0, Labelled(r)
                     PROVE  ~(a <= r.votes /\ r.votes < b)
        BY DEF Cuts
      <4>. QED  BY <2>1, <2>4, <4>1
    <3>2. \A v \in Arms : SumOf(AtOrAbove(v, a)) = SumOf(AtOrAbove(v, b))
      BY <1>1, <3>1, SameCut
    <3>3. "real" \in Arms /\ "not_real" \in Arms
      BY DEF Arms
    <3>. DEFINE m == SplitAt(a)
                n == SplitAt(b)
    <3>4. /\ m.tp = n.tp /\ m.fp = n.fp
          /\ m.tp + m.fn = n.tp + n.fn /\ m.fp + m.tn = n.fp + n.tn
          /\ m \in [tp : Nat, fp : Nat, fn : Nat, tn : Nat]
          /\ n \in [tp : Nat, fp : Nat, fn : Nat, tn : Nat]
      BY <3>2, <3>3, CutSplits
    <3>. HIDE DEF m, n
    <3>5. m.fn = n.fn /\ m.tn = n.tn
      BY <3>4
    <3>6. m = n
      BY <3>4, <3>5
    <3>. QED  BY <3>6 DEF m, n
  <2>. QED  BY <2>3, <2>4
<1>2. CASE c <= d
  BY <1>1, <1>2
<1>3. CASE d <= c
  BY <1>1, <1>3
<1>. QED  BY <1>2, <1>3

(* Whatever rows the log holds, the cut `ettle calibrate` suggests for a   *)
(* kind (calib.go 104-108, calibrate.go 122-137) is the best there is,     *)
(* every cut of the interval it prints is as good, it says that no better  *)
(* than chance was found exactly when no cut is better than chance, and it *)
(* says that the bar in force already splits the rows so exactly when      *)
(* moving the bar there would change the side of no row.                   *)
THEOREM SuggestionIsSound == LogSpec => []IntervalSeparatesAlike
<1>1. LogInv => IntervalSeparatesAlike
  <2>1. SUFFICES ASSUME LogOK, Cuts # {}
                 PROVE  /\ \A c \in Suggest.lo..Suggest.hi : Edge(c) = Edge(Suggest.best)
                        /\ \A c \in 0..Samples + 1 : Edge(c) <= Edge(Suggest.best)
                        /\ Suggest.separates <=> \E c \in 0..Samples + 1 : Edge(c) > 0
                        /\ Suggest.sameAsCurrent <=>
                             \A r \in Row : log[r] > 0 /\ Labelled(r) =>
                               (r.votes >= FirmVotes <=> r.votes >= Suggest.best)
    BY DEF LogInv, IntervalSeparatesAlike, Suggests
  <2>2. \A c \in Suggest.lo..Suggest.hi : Edge(c) = Edge(Suggest.best)
    BY <2>1, IntervalIsAlike
  <2>3. \A c \in 0..Samples + 1 : c \in Int /\ Edge(c) <= Edge(Suggest.best)
    BY <2>1, NoCutIsBetter, RowVotes
  <2>4. /\ Suggest.best \in Cuts
        /\ Suggest.separates <=> Edge(Suggest.best) > 0
        /\ Suggest.sameAsCurrent <=> SplitAt(FirmVotes) = SplitAt(Suggest.best)
    BY <2>1, SuggestIs
  <2>5. Suggest.best \in 0..Samples + 1 /\ Suggest.best \in Int /\ FirmVotes \in Int
    <3>1. Suggest.best \in 0..Samples
      BY <2>4, CutsAre
    <3>. QED  BY <3>1, RowVotes
  <2>6. Suggest.separates <=> \E c \in 0..Samples + 1 : Edge(c) > 0
    <3>1. \A c \in 0..Samples + 1 : Edge(c) \in Int
      BY <2>1, <2>3, YoudenIsEdge
    <3>. QED  BY <2>3, <2>4, <2>5, <3>1
  <2>7. Suggest.sameAsCurrent <=>
          \A r \in Row : log[r] > 0 /\ Labelled(r) => (r.votes >= FirmVotes <=> r.votes >= Suggest.best)
    BY <2>1, <2>4, <2>5, SplitsAgree
  <2>. QED  BY <2>2, <2>3, <2>6, <2>7
<1>. QED  BY <1>1, LogIsCounted, PTL
=============================================================================
