----------------------- MODULE DirectedModels_proofs -----------------------
(***************************************************************************)
(* Proofs about the directed models, for any people, slots and contents:   *)
(* what the operators of directed.go return; then what rounds do to the    *)
(* models carried across them (MeshState), for any number of atoms, rounds *)
(* and restatements; then what a session answers from them (Reflect), for  *)
(* any number of envelopes, callers and calls.                             *)
(***************************************************************************)
EXTENDS MeshState, Reflect, FiniteSetTheorems, WellFoundedInduction, TLAPS

-----------------------------------------------------------------------------
(* Least numbers, and functions by recursion on an interval.               *)

LEMMA Least ==
  ASSUME NEW B \in SUBSET Nat, B # {}
  PROVE  \E n \in B : \A m \in B : n <= m
<1>1. PICK n \in B : \A m \in B : <<m, n>> \notin OpToRel(<, Nat)
  BY WFMin, NatLessThanWellFounded, Zenon
<1>2. \A m \in B : ~(m < n)
  BY <1>1 DEF OpToRel
<1>. QED  BY <1>2

LEMMA Greatest ==
  ASSUME NEW N \in Nat, NEW B \in SUBSET (1..N), B # {}
  PROVE  \E n \in B : \A m \in B : m <= n
<1>. DEFINE T == {N - i : i \in B}
<1>1. \A i \in B : i \in Nat /\ i <= N /\ N - i \in Nat
  OBVIOUS
<1>2. T \in SUBSET Nat /\ T # {}
  BY <1>1
<1>. HIDE DEF T
<1>3. PICK k \in T : \A m \in T : k <= m
  BY <1>2, Least
<1>4. PICK n \in B : k = N - n
  BY <1>3 DEF T
<1>5. \A m \in B : N - n <= N - m
  BY <1>3, <1>4 DEF T
<1>. QED  BY <1>1, <1>5

(* f starts with a and goes on as G says up to m.                          *)
Follows(f, a, G, m) == f[0] = a /\ \A n \in 1..m : f[n] = G[n][f[n - 1]]

LEMMA Recursion ==
  ASSUME NEW V, NEW N \in Nat, NEW a \in V, NEW G \in [1..N -> [V -> V]]
  PROVE  \E f \in [0..N -> V] : Follows(f, a, G, N)
<1>. DEFINE Upto(m) == \E f \in [0..m -> V] : Follows(f, a, G, m)
            Bad == {m \in Nat : m <= N /\ ~Upto(m)}
<1>1. Upto(0)
  <2>1. PICK f \in [0..0 -> V] : f = [n \in 0..0 |-> a]
    OBVIOUS
  <2>2. f[0] = a /\ 1..0 = {}
    BY <2>1
  <2>. QED  BY <2>2 DEF Follows
<1>2. ASSUME NEW m \in Nat, m < N, Upto(m)
      PROVE  Upto(m + 1)
  <2>1. PICK f \in [0..m -> V] : Follows(f, a, G, m)
    BY <1>2
  <2>2. f[m] \in V
    BY <1>2, <2>1
  <2>3. m + 1 \in 1..N
    BY <1>2
  <2>4. G[m + 1][f[m]] \in V
    BY <2>2, <2>3
  <2>. DEFINE b == G[m + 1][f[m]]
              g == [n \in 0..(m + 1) |-> IF n <= m THEN f[n] ELSE b]
  <2>. HIDE DEF b
  <2>5. g \in [0..(m + 1) -> V]
    BY <2>1, <2>4 DEF b
  <2>6. \A n \in 0..m : g[n] = f[n]
    BY <1>2
  <2>7. g[m + 1] = b
    BY <1>2
  <2>. HIDE DEF g
  <2>8. g[0] = a
    BY <1>2, <2>1, <2>6 DEF Follows
  <2>9. ASSUME NEW n \in 1..(m + 1)
        PROVE  g[n] = G[n][g[n-1]]
    <3>1. n - 1 \in 0..m
      BY <1>2
    <3>2. CASE n = m + 1
      BY <2>6, <2>7, <3>1, <3>2, <1>2 DEF b
    <3>3. CASE n # m + 1
      <4>1. n \in 1..m /\ n \in 0..m
        BY <3>3, <1>2
      <4>. QED  BY <2>1, <2>6, <3>1, <4>1 DEF Follows
    <3>. QED  BY <3>2, <3>3
  <2>. QED  BY <2>5, <2>8, <2>9 DEF Follows
<1>. HIDE DEF Upto
<1>3. Bad = {}
  <2>1. SUFFICES ASSUME Bad # {} PROVE FALSE
    OBVIOUS
  <2>2. PICK m \in Bad : \A n \in Bad : m <= n
    BY <2>1, Least
  <2>3. m # 0 /\ m - 1 \in Nat /\ m - 1 < N /\ m - 1 \notin Bad
    BY <1>1, <2>2
  <2>4. Upto(m - 1)
    BY <2>2, <2>3
  <2>5. Upto((m - 1) + 1)
    BY <1>2, <2>3, <2>4
  <2>. QED  BY <2>2, <2>5
<1>4. Upto(N)
  BY <1>3
<1>. QED  BY <1>4 DEF Upto

-----------------------------------------------------------------------------
(* Keep.                                                                   *)

(* t lists the entries of s at the places of I up to n, in their order:    *)
(* e says which place each entry of t is from.                             *)
ListsBy(e, t, s, I, n) ==
  /\ e \in [1..Len(t) -> I \cap 1..n]
  /\ \A j, k \in 1..Len(t) : j < k => e[j] < e[k]
  /\ \A i \in I \cap 1..n : \E k \in 1..Len(t) : e[k] = i
  /\ \A k \in 1..Len(t) : t[k] = s[e[k]]
Lists(t, s, I, n) == \E e : ListsBy(e, t, s, I, n)

LEMMA ListsAppend ==
  ASSUME NEW S, NEW s \in Seq(S), NEW t \in Seq(S), NEW I, NEW n \in 1..Len(s),
         Lists(t, s, I, n - 1)
  PROVE  IF n \in I THEN Append(t, s[n]) \in Seq(S) /\ Lists(Append(t, s[n]), s, I, n)
                    ELSE Lists(t, s, I, n)
<1>1. PICK e : ListsBy(e, t, s, I, n - 1)
  BY DEF Lists
<1>2. n \in Nat /\ n \in 1..n /\ n - 1 \in Nat /\ Len(t) \in Nat /\ s[n] \in S
      /\ \A i \in 1..(n - 1) : i \in 1..n /\ i < n
  OBVIOUS
<1>3. \A k \in 1..Len(t) : e[k] \in I /\ e[k] \in 1..(n - 1)
  BY <1>1 DEF ListsBy
<1>4. CASE n \in I
  <2>. DEFINE L == Len(t)
              u == Append(t, s[n])
              d == [k \in 1..(L + 1) |-> IF k <= L THEN e[k] ELSE n]
  <2>1. u \in Seq(S) /\ Len(u) = L + 1 /\ u[L + 1] = s[n] /\ \A k \in 1..L : u[k] = t[k]
    BY <1>2
  <2>2. d[L + 1] = n /\ \A k \in 1..L : d[k] = e[k]
    BY <1>2
  <2>3. \A k \in 1..(L + 1) : k = L + 1 \/ k \in 1..L
    BY <1>2
  <2>4. DOMAIN d = 1..(L + 1) /\ d = [k \in 1..(L + 1) |-> d[k]]
    OBVIOUS
  <2>. HIDE DEF u, d
  <2>5. d \in [1..(L + 1) -> I \cap 1..n]
    BY <1>2, <1>3, <1>4, <2>2, <2>3, <2>4
  <2>6. \A j, k \in 1..(L + 1) : j < k => d[j] < d[k]
    <3>1. SUFFICES ASSUME NEW j \in 1..(L + 1), NEW k \in 1..(L + 1), j < k PROVE d[j] < d[k]
      OBVIOUS
    <3>2. j \in 1..L
      BY <1>2, <3>1
    <3>3. CASE k = L + 1
      BY <1>2, <1>3, <2>2, <3>2, <3>3
    <3>4. CASE k \in 1..L
      BY <1>1, <2>2, <3>1, <3>2, <3>4 DEF ListsBy
    <3>. QED  BY <2>3, <3>3, <3>4
  <2>7. \A i \in I \cap 1..n : \E k \in 1..(L + 1) : d[k] = i
    <3>1. SUFFICES ASSUME NEW i \in I \cap 1..n PROVE \E k \in 1..(L + 1) : d[k] = i
      OBVIOUS
    <3>2. CASE i = n
      BY <1>2, <2>2, <3>2
    <3>3. CASE i # n
      <4>1. i \in I \cap 1..(n - 1)
        BY <3>1, <3>3
      <4>2. PICK k \in 1..L : e[k] = i
        BY <1>1, <4>1 DEF ListsBy
      <4>. QED  BY <1>2, <2>2, <4>2
    <3>. QED  BY <3>2, <3>3
  <2>8. \A k \in 1..(L + 1) : u[k] = s[d[k]]
    BY <1>1, <2>1, <2>2, <2>3 DEF ListsBy
  <2>9. ListsBy(d, u, s, I, n)
    BY <2>1, <2>5, <2>6, <2>7, <2>8 DEF ListsBy
  <2>. QED  BY <1>4, <2>1, <2>9 DEF Lists, u
<1>5. CASE n \notin I
  <2>1. I \cap 1..n = I \cap 1..(n - 1)
    BY <1>5
  <2>2. ListsBy(e, t, s, I, n)
    BY <1>1, <2>1 DEF ListsBy
  <2>. QED  BY <1>5, <2>2 DEF Lists
<1>. QED  BY <1>4, <1>5

(* What Keep returns: the entries at the places of I, in their order.      *)
LEMMA KeepLists ==
  ASSUME NEW S, NEW s \in Seq(S), NEW I
  PROVE  Keep(s, I) \in Seq(S) /\ Lists(Keep(s, I), s, I, Len(s))
<1>. DEFINE N == Len(s)
            Body(f) == [n \in 0..N |-> IF n = 0 THEN <<>>
                          ELSE IF n \in I THEN Append(f[n - 1], s[n]) ELSE f[n - 1]]
            kept == CHOOSE f : f = Body(f)
<1>1. N \in Nat /\ \A n \in 1..N : s[n] \in S
  OBVIOUS
<1>2. \E f : f = Body(f)
  <2>. DEFINE G == [n \in 1..N |-> [t \in Seq(S) |-> IF n \in I THEN Append(t, s[n]) ELSE t]]
  <2>1. G \in [1..N -> [Seq(S) -> Seq(S)]]
    BY <1>1
  <2>2. <<>> \in Seq(S)
    OBVIOUS
  <2>3. \A n \in 1..N, t \in Seq(S) : G[n][t] = IF n \in I THEN Append(t, s[n]) ELSE t
    OBVIOUS
  <2>. HIDE DEF G
  <2>4. PICK f \in [0..N -> Seq(S)] : Follows(f, <<>>, G, N)
    BY <1>1, <2>1, <2>2, Recursion
  <2>5. \A n \in 0..N : f[n] = Body(f)[n]
    <3>1. SUFFICES ASSUME NEW n \in 0..N PROVE f[n] = Body(f)[n]
      OBVIOUS
    <3>2. CASE n = 0
      BY <2>4, <3>2 DEF Follows
    <3>3. CASE n # 0
      <4>1. n \in 1..N /\ n - 1 \in 0..N
        BY <1>1, <3>3
      <4>2. f[n] = G[n][f[n - 1]] /\ f[n - 1] \in Seq(S)
        BY <2>4, <4>1 DEF Follows
      <4>. QED  BY <2>3, <3>3, <4>1, <4>2
    <3>. QED  BY <3>2, <3>3
  <2>6. f = [n \in 0..N |-> f[n]] /\ Body(f) = [n \in 0..N |-> Body(f)[n]]
    BY <2>4
  <2>. HIDE DEF Body
  <2>7. f = Body(f)
    BY <2>5, <2>6
  <2>. QED  BY <2>7
<1>3. kept = Body(kept)
  BY <1>2
<1>. DEFINE Good(n) == kept[n] \in Seq(S) /\ Lists(kept[n], s, I, n)
            Bad == {n \in Nat : n <= N /\ ~Good(n)}
<1>. HIDE DEF kept
<1>4. Good(0)
  <2>1. kept[0] = <<>>
    BY <1>1, <1>3
  <2>2. ListsBy(<<>>, <<>>, s, I, 0)
    BY DEF ListsBy
  <2>. QED  BY <2>1, <2>2 DEF Lists
<1>5. ASSUME NEW n \in 1..N, Good(n - 1)
      PROVE  Good(n)
  <2>1. n \in 0..N /\ n # 0
    BY <1>1
  <2>2. kept[n] = Body(kept)[n]
    BY <1>3
  <2>3. kept[n] = IF n \in I THEN Append(kept[n - 1], s[n]) ELSE kept[n - 1]
    BY <2>1, <2>2
  <2>. QED  BY <1>5, <2>3, ListsAppend
<1>. HIDE DEF Good
<1>6. Bad = {}
  <2>1. SUFFICES ASSUME Bad # {} PROVE FALSE
    OBVIOUS
  <2>2. PICK m \in Bad : \A n \in Bad : m <= n
    BY <2>1, Least
  <2>3. m # 0 /\ m \in 1..N /\ m - 1 \in Nat /\ m - 1 <= N /\ m - 1 \notin Bad
    BY <1>1, <1>4, <2>2
  <2>. QED  BY <1>5, <2>2, <2>3
<1>7. Good(N)
  BY <1>1, <1>6
<1>8. Keep(s, I) = kept[N]
  BY DEF Keep, kept
<1>. QED  BY <1>7, <1>8 DEF Good

LEMMA SaidOf ==
  ASSUME NEW S, NEW s \in Seq(S)
  PROVE  /\ DOMAIN s = 1..Len(s) /\ Len(s) \in Nat
         /\ \A i \in 1..Len(s) : s[i] \in S /\ s[i] \in Said(s)
         /\ \A a \in Said(s) : a \in S /\ \E i \in 1..Len(s) : a = s[i]
  BY DEF Said

(* One entry per slot.                                                     *)
OncePer(s, I) ==
  \A i, j \in I \cap (1..Len(s)) : beliefKey(s[i]) = beliefKey(s[j]) => i = j
Distinct(s) == OncePer(s, 1..Len(s))

LEMMA KeepSaid ==
  ASSUME NEW S, NEW s \in Seq(S), NEW I
  PROVE  /\ Keep(s, I) \in Seq(S)
         /\ Said(Keep(s, I)) = {s[i] : i \in I \cap (1..Len(s))}
         /\ OncePer(s, I) => Distinct(Keep(s, I))
<1>. DEFINE t == Keep(s, I)
<1>1. t \in Seq(S) /\ Lists(t, s, I, Len(s))
  BY KeepLists
<1>. HIDE DEF t
<1>2. PICK e : ListsBy(e, t, s, I, Len(s))
  BY <1>1 DEF Lists
<1>3. \A k \in 1..Len(t) : e[k] \in I \cap (1..Len(s)) /\ t[k] = s[e[k]]
  BY <1>2 DEF ListsBy
<1>4. Said(t) \subseteq {s[i] : i \in I \cap (1..Len(s))}
  BY <1>1, <1>3, SaidOf
<1>5. \A i \in I \cap (1..Len(s)) : s[i] \in Said(t)
  <2>1. SUFFICES ASSUME NEW i \in I \cap (1..Len(s)) PROVE s[i] \in Said(t)
    OBVIOUS
  <2>2. PICK k \in 1..Len(t) : e[k] = i
    BY <1>2 DEF ListsBy
  <2>. QED  BY <1>1, <1>3, <2>2, SaidOf
<1>6. ASSUME OncePer(s, I)
      PROVE  Distinct(t)
  <2>1. SUFFICES ASSUME NEW j \in 1..Len(t), NEW k \in 1..Len(t),
                        beliefKey(t[j]) = beliefKey(t[k])
                 PROVE  j = k
    BY DEF Distinct, OncePer
  <2>2. e[j] = e[k]
    BY <1>3, <1>6, <2>1 DEF OncePer
  <2>3. j \in Nat /\ k \in Nat /\ e[j] \in Nat
    BY <1>1, <1>3
  <2>4. ~(j < k) /\ ~(k < j)
    BY <1>2, <2>2, <2>3 DEF ListsBy
  <2>. QED  BY <2>3, <2>4
<1>. QED  BY <1>1, <1>4, <1>5, <1>6 DEF t

-----------------------------------------------------------------------------
(* Latest, Canonical, EmitDelta and absorb.                                *)

LEMMA HeldOf ==
  ASSUME NEW s \in Seq(Atom)
  PROVE  /\ \A i \in 1..Len(s) : beliefKey(s[i]) \in Held(s)
         /\ \A k \in Held(s) : k \in Slots /\ \E i \in 1..Len(s) : k = beliefKey(s[i])
         /\ \A a \in Said(s) : beliefKey(a) \in Held(s)
<1>1. \A a \in Atom : beliefKey(a) \in Slots
  BY DEF Atom, Slots, beliefKey
<1>. QED  BY <1>1, SaidOf DEF Held

LEMMA LatestIs ==
  ASSUME NEW s \in Seq(Atom), NEW k \in Held(s)
  PROVE  /\ Latest(s, k) \in Said(s) /\ Latest(s, k) \in Atom
         /\ beliefKey(Latest(s, k)) = k
         /\ Distinct(s) => \A i \in 1..Len(s) : beliefKey(s[i]) = k => s[i] = Latest(s, k)
<1>. DEFINE at == {i \in DOMAIN s : beliefKey(s[i]) = k}
<1>1. DOMAIN s = 1..Len(s) /\ Len(s) \in Nat
  OBVIOUS
<1>2. at \in SUBSET (1..Len(s)) /\ at # {}
  BY <1>1, HeldOf
<1>3. \E i \in at : \A j \in at : j <= i
  BY <1>1, <1>2, Greatest
<1>. HIDE DEF at
<1>4. PICK i \in at : i = CHOOSE n \in at : \A j \in at : j <= n
  BY <1>3
<1>5. Latest(s, k) = s[i]
  BY <1>4 DEF Latest, at
<1>6. i \in 1..Len(s) /\ beliefKey(s[i]) = k
  BY <1>1 DEF at
<1>. QED  BY <1>5, <1>6, SaidOf DEF Distinct, OncePer

(* In a sequence with one entry per slot, Latest finds the entry.          *)
LEMMA LatestOf ==
  ASSUME NEW s \in Seq(Atom), Distinct(s), NEW a \in Said(s)
  PROVE  beliefKey(a) \in Held(s) /\ Latest(s, beliefKey(a)) = a
  BY HeldOf, SaidOf, LatestIs

(* Every slot is first seen somewhere, and only there.                     *)
LEMMA FirstSeen ==
  ASSUME NEW s \in Seq(Atom)
  PROVE  /\ OncePer(s, Firsts(s))
         /\ \A k \in Held(s) : \E i \in Firsts(s) : beliefKey(s[i]) = k
<1>1. DOMAIN s = 1..Len(s) /\ Len(s) \in Nat
  OBVIOUS
<1>2. ASSUME NEW i \in Firsts(s), NEW j \in Firsts(s), beliefKey(s[i]) = beliefKey(s[j])
      PROVE  i = j
  <2>1. i \in Nat /\ j \in Nat /\ 1 <= i /\ 1 <= j
    BY <1>1 DEF Firsts
  <2>2. ~(i < j) /\ ~(j < i)
    BY <1>2, <2>1 DEF Firsts
  <2>. QED  BY <2>1, <2>2
<1>3. ASSUME NEW k \in Held(s)
      PROVE  \E i \in Firsts(s) : beliefKey(s[i]) = k
  <2>. DEFINE at == {i \in 1..Len(s) : beliefKey(s[i]) = k}
  <2>1. at \in SUBSET Nat /\ at # {}
    BY <1>1, HeldOf
  <2>2. PICK i \in at : \A j \in at : i <= j
    BY <2>1, Least
  <2>3. \A j \in 1..(i - 1) : j \in 1..Len(s) /\ j \notin at
    BY <1>1, <2>2
  <2>. QED  BY <1>1, <2>2, <2>3 DEF Firsts
<1>. QED  BY <1>2, <1>3 DEF OncePer

(* Canonical holds the same slots, once each, with the last word on each.  *)
LEMMA CanonicalIs ==
  ASSUME NEW s \in Seq(Atom)
  PROVE  /\ Canonical(s) \in Seq(Atom)
         /\ Distinct(Canonical(s))
         /\ Held(Canonical(s)) = Held(s)
         /\ \A k \in Held(s) : Latest(Canonical(s), k) = Latest(s, k)
<1>. DEFINE d == [i \in DOMAIN s |-> Latest(s, beliefKey(s[i]))]
            c == Keep(d, Firsts(s))
<1>1. Canonical(s) = c
  BY DEF Canonical
<1>2. DOMAIN s = 1..Len(s) /\ Len(s) \in Nat
  OBVIOUS
<1>3. \A i \in 1..Len(s) : d[i] \in Atom /\ beliefKey(d[i]) = beliefKey(s[i])
  BY <1>2, HeldOf, LatestIs
<1>4. d \in Seq(Atom) /\ Len(d) = Len(s)
  BY <1>2, <1>3
<1>5. \A i \in 1..Len(s) : d[i] = Latest(s, beliefKey(s[i]))
  BY <1>2
<1>6. Firsts(s) \subseteq 1..Len(s)
  BY <1>2 DEF Firsts
<1>. HIDE DEF d
<1>7. OncePer(d, Firsts(s))
  BY <1>3, <1>4, FirstSeen DEF OncePer
<1>8. c \in Seq(Atom) /\ Said(c) = {d[i] : i \in Firsts(s) \cap (1..Len(d))} /\ Distinct(c)
  BY <1>4, <1>7, KeepSaid
<1>. HIDE DEF c
<1>9. \A a \in Said(c) : beliefKey(a) \in Held(s) /\ a = Latest(s, beliefKey(a))
  BY <1>3, <1>4, <1>5, <1>6, <1>8, HeldOf
<1>10. \A k \in Held(s) : k \in Held(c) /\ Latest(c, k) = Latest(s, k)
  <2>1. SUFFICES ASSUME NEW k \in Held(s) PROVE k \in Held(c) /\ Latest(c, k) = Latest(s, k)
    OBVIOUS
  <2>2. PICK i \in Firsts(s) : beliefKey(s[i]) = k
    BY FirstSeen
  <2>3. d[i] \in Said(c) /\ beliefKey(d[i]) = k /\ d[i] = Latest(s, k)
    BY <1>3, <1>4, <1>5, <1>6, <1>8, <2>2
  <2>. QED  BY <1>8, <2>3, LatestOf
<1>11. Held(c) \subseteq Held(s)
  BY <1>9 DEF Held
<1>. QED  BY <1>1, <1>8, <1>10, <1>11

(* What cur says that m does not know, or knows otherwise.                 *)
News(m, cur) ==
  {k \in Held(cur) : ~(k \in Held(m) /\ Latest(m, k).content = Latest(cur, k).content)}

(* Keeping places of a sequence with one entry per slot.                   *)
LEMMA KeepDistinct ==
  ASSUME NEW s \in Seq(Atom), Distinct(s), NEW I \in SUBSET (1..Len(s))
  PROVE  /\ Keep(s, I) \in Seq(Atom)
         /\ Distinct(Keep(s, I))
         /\ Held(Keep(s, I)) = {beliefKey(s[i]) : i \in I}
         /\ \A k \in Held(Keep(s, I)) : k \in Held(s) /\ Latest(Keep(s, I), k) = Latest(s, k)
<1>. DEFINE t == Keep(s, I)
<1>1. OncePer(s, I)
  BY DEF Distinct, OncePer
<1>2. t \in Seq(Atom) /\ Said(t) = {s[i] : i \in I} /\ Distinct(t)
  BY <1>1, KeepSaid
<1>. HIDE DEF t
<1>3. Held(t) = {beliefKey(s[i]) : i \in I}
  BY <1>2 DEF Held
<1>4. \A k \in Held(t) : k \in Held(s) /\ Latest(t, k) = Latest(s, k)
  <2>1. SUFFICES ASSUME NEW k \in Held(t) PROVE k \in Held(s) /\ Latest(t, k) = Latest(s, k)
    OBVIOUS
  <2>2. PICK i \in I : k = beliefKey(s[i])
    BY <1>3
  <2>3. s[i] \in Said(t) /\ s[i] \in Said(s)
    BY <1>2, SaidOf
  <2>4. Latest(t, k) = s[i]
    BY <1>2, <2>2, <2>3, LatestOf
  <2>5. k \in Held(s) /\ Latest(s, k) = s[i]
    BY <2>2, <2>3, LatestOf
  <2>. QED  BY <2>4, <2>5
<1>. QED  BY <1>2, <1>3, <1>4 DEF t

(* EmitDelta sends the news, once, as last said.                           *)
LEMMA EmitDeltaIs ==
  ASSUME NEW m \in Seq(Atom), NEW cur \in Seq(Atom)
  PROVE  LET e == EmitDelta(m, cur)
         IN /\ e \in Seq(Atom)
            /\ Distinct(e)
            /\ Held(e) = News(m, cur)
            /\ \A k \in Held(e) : Latest(e, k) = Latest(cur, k)
<1>. DEFINE known == Said(Canonical(m))
            now == Canonical(cur)
            New(a) == ~\E p \in known : beliefKey(p) = beliefKey(a) /\ sameBelief(p, a)
            I == {i \in DOMAIN now : New(now[i])}
            e == Keep(now, I)
<1>1. EmitDelta(m, cur) = e
  BY DEF EmitDelta
<1>2. now \in Seq(Atom) /\ Distinct(now) /\ Held(now) = Held(cur)
      /\ \A k \in Held(cur) : Latest(now, k) = Latest(cur, k)
  BY CanonicalIs
<1>3. \A p \in known : beliefKey(p) \in Held(m) /\ p = Latest(m, beliefKey(p))
  <2>1. SUFFICES ASSUME NEW p \in known
                 PROVE  beliefKey(p) \in Held(m) /\ p = Latest(m, beliefKey(p))
    OBVIOUS
  <2>. QED  BY CanonicalIs, LatestOf
<1>4. \A k \in Held(m) : Latest(m, k) \in known /\ beliefKey(Latest(m, k)) = k
  <2>1. SUFFICES ASSUME NEW k \in Held(m)
                 PROVE  Latest(m, k) \in known /\ beliefKey(Latest(m, k)) = k
    OBVIOUS
  <2>. QED  BY CanonicalIs, LatestIs
<1>. HIDE DEF known
<1>5. \A a : New(a) <=>
        ~(beliefKey(a) \in Held(m) /\ Latest(m, beliefKey(a)).content = a.content)
  BY <1>3, <1>4 DEF sameBelief
<1>. HIDE DEF New, now
<1>6. I \in SUBSET (1..Len(now)) /\ DOMAIN now = 1..Len(now)
  BY <1>2
<1>7. e \in Seq(Atom) /\ Distinct(e) /\ Held(e) = {beliefKey(now[i]) : i \in I}
      /\ \A k \in Held(e) : k \in Held(now) /\ Latest(e, k) = Latest(now, k)
  <2>. HIDE DEF I
  <2>. QED  BY <1>2, <1>6, KeepDistinct
<1>8. \A i \in 1..Len(now) : beliefKey(now[i]) \in Held(cur)
                             /\ now[i] = Latest(cur, beliefKey(now[i]))
  <2>1. SUFFICES ASSUME NEW i \in 1..Len(now)
                 PROVE  beliefKey(now[i]) \in Held(cur) /\ now[i] = Latest(cur, beliefKey(now[i]))
    OBVIOUS
  <2>2. now[i] \in Said(now)
    BY <1>2, SaidOf
  <2>. QED  BY <1>2, <2>2, LatestOf
<1>9. {beliefKey(now[i]) : i \in I} = News(m, cur)
  <2>1. ASSUME NEW i \in I PROVE beliefKey(now[i]) \in News(m, cur)
    BY <1>5, <1>6, <1>8 DEF News
  <2>2. ASSUME NEW k \in News(m, cur) PROVE \E i \in I : k = beliefKey(now[i])
    <3>1. k \in Held(now)
      BY <1>2 DEF News
    <3>2. PICK i \in 1..Len(now) : k = beliefKey(now[i])
      BY <1>2, <3>1, HeldOf
    <3>3. New(now[i])
      BY <1>5, <1>8, <3>2 DEF News
    <3>. QED  BY <1>6, <3>2, <3>3
  <2>. QED  BY <2>1, <2>2
<1>. HIDE DEF e
<1>10. Held(e) = News(m, cur)
  BY <1>7, <1>9
<1>11. \A k \in Held(e) : Latest(e, k) = Latest(cur, k)
  BY <1>2, <1>7
<1>. QED  BY <1>1, <1>7, <1>10, <1>11

(* absorb keeps one belief per slot: what the delta says, else what was    *)
(* held.                                                                   *)
LEMMA AbsorbIs ==
  ASSUME NEW m \in Seq(Atom), NEW d \in Seq(Atom), Distinct(m), Distinct(d)
  PROVE  LET r == absorb(m, d)
         IN /\ r \in Seq(Atom)
            /\ Distinct(r)
            /\ Held(r) = Held(m) \cup Held(d)
            /\ \A k \in Held(r) : Latest(r, k) = IF k \in Held(d) THEN Latest(d, k) ELSE Latest(m, k)
<1>. DEFINE u == [i \in DOMAIN m |-> IF beliefKey(m[i]) \in Held(d)
                                     THEN Latest(d, beliefKey(m[i])) ELSE m[i]]
            I == {i \in DOMAIN d : beliefKey(d[i]) \notin Held(m)}
            v == Keep(d, I)
            r == u \o v
            Best(k) == IF k \in Held(d) THEN Latest(d, k) ELSE Latest(m, k)
<1>1. absorb(m, d) = r
  BY DEF absorb
<1>2. DOMAIN m = 1..Len(m) /\ Len(m) \in Nat /\ DOMAIN d = 1..Len(d)
  OBVIOUS
<1>3. \A i \in 1..Len(m) : u[i] = Best(beliefKey(m[i])) /\ u[i] \in Atom
                           /\ beliefKey(u[i]) = beliefKey(m[i])
  <2>1. SUFFICES ASSUME NEW i \in 1..Len(m)
                 PROVE  u[i] = Best(beliefKey(m[i])) /\ u[i] \in Atom
                        /\ beliefKey(u[i]) = beliefKey(m[i])
    OBVIOUS
  <2>2. m[i] \in Said(m) /\ m[i] \in Atom
    BY <1>2, SaidOf
  <2>3. m[i] = Latest(m, beliefKey(m[i]))
    BY <2>2, LatestOf
  <2>. QED  BY <1>2, <2>2, <2>3, LatestIs
<1>4. u \in Seq(Atom) /\ Len(u) = Len(m)
  BY <1>2, <1>3
<1>. HIDE DEF u
<1>5. v \in Seq(Atom) /\ Distinct(v) /\ Held(v) = {beliefKey(d[i]) : i \in I}
      /\ \A k \in Held(v) : k \in Held(d) /\ Latest(v, k) = Latest(d, k)
  <2>1. I \in SUBSET (1..Len(d))
    BY <1>2
  <2>. HIDE DEF I
  <2>. QED  BY <2>1, KeepDistinct
<1>6. Held(v) = Held(d) \ Held(m)
  BY <1>2, <1>5, HeldOf
<1>. HIDE DEF v, I
<1>7. r \in Seq(Atom) /\ Len(r) = Len(m) + Len(v) /\ Len(v) \in Nat
  BY <1>4, <1>5
<1>8. /\ \A i \in 1..Len(m) : r[i] = u[i]
      /\ \A i \in 1..Len(v) : r[Len(m) + i] = v[i]
      /\ \A i \in 1..Len(r) : i \in 1..Len(m) \/ (i - Len(m) \in 1..Len(v) /\ r[i] = v[i - Len(m)])
  BY <1>2, <1>4, <1>5, <1>7
<1>. HIDE DEF r
<1>9. \A i \in 1..Len(v) : beliefKey(v[i]) \in Held(v) /\ v[i] = Best(beliefKey(v[i]))
  <2>1. SUFFICES ASSUME NEW i \in 1..Len(v)
                 PROVE  beliefKey(v[i]) \in Held(v) /\ v[i] = Best(beliefKey(v[i]))
    OBVIOUS
  <2>2. v[i] \in Said(v)
    BY <1>5, SaidOf
  <2>. QED  BY <1>5, <2>2, LatestOf
<1>10. \A i \in 1..Len(m) : beliefKey(r[i]) \in Held(m) /\ beliefKey(r[i]) = beliefKey(m[i])
                            /\ r[i] = Best(beliefKey(r[i]))
  BY <1>3, <1>8, HeldOf
<1>11. \A i \in 1..Len(r) : r[i] = Best(beliefKey(r[i]))
                            /\ beliefKey(r[i]) \in Held(m) \cup Held(d)
  BY <1>6, <1>8, <1>9, <1>10
<1>12. Distinct(r)
  <2>1. SUFFICES ASSUME NEW i \in 1..Len(r), NEW j \in 1..Len(r),
                        beliefKey(r[i]) = beliefKey(r[j])
                 PROVE  i = j
    BY DEF Distinct, OncePer
  <2>2. CASE i \in 1..Len(m) /\ j \in 1..Len(m)
    BY <1>10, <2>1, <2>2 DEF Distinct, OncePer
  <2>3. CASE i \notin 1..Len(m) /\ j \notin 1..Len(m)
    <3>1. i - Len(m) \in 1..Len(v) /\ j - Len(m) \in 1..Len(v)
          /\ beliefKey(v[i - Len(m)]) = beliefKey(v[j - Len(m)])
      BY <1>8, <2>1, <2>3
    <3>2. i - Len(m) = j - Len(m)
      BY <1>5, <3>1 DEF Distinct, OncePer
    <3>. QED  BY <1>2, <1>7, <3>2
  <2>4. CASE i \in 1..Len(m) /\ j \notin 1..Len(m)
    BY <1>6, <1>8, <1>9, <1>10, <2>1, <2>4
  <2>5. CASE i \notin 1..Len(m) /\ j \in 1..Len(m)
    BY <1>6, <1>8, <1>9, <1>10, <2>1, <2>5
  <2>. QED  BY <2>2, <2>3, <2>4, <2>5
<1>13. Held(r) \subseteq Held(m) \cup Held(d)
  BY <1>7, <1>11, HeldOf
<1>14. Held(m) \subseteq Held(r)
  <2>1. SUFFICES ASSUME NEW k \in Held(m) PROVE k \in Held(r)
    OBVIOUS
  <2>2. PICK i \in 1..Len(m) : k = beliefKey(m[i])
    BY HeldOf
  <2>3. i \in 1..Len(r) /\ beliefKey(r[i]) = k
    BY <1>2, <1>7, <1>10, <2>2
  <2>. QED  BY <1>7, <2>3, HeldOf
<1>15. Held(v) \subseteq Held(r)
  <2>1. SUFFICES ASSUME NEW k \in Held(v) PROVE k \in Held(r)
    OBVIOUS
  <2>2. PICK i \in 1..Len(v) : k = beliefKey(v[i])
    BY <1>5, HeldOf
  <2>3. Len(m) + i \in 1..Len(r) /\ beliefKey(r[Len(m) + i]) = k
    BY <1>2, <1>7, <1>8, <2>2
  <2>. QED  BY <1>7, <2>3, HeldOf
<1>16. \A k \in Held(r) : Latest(r, k) = Best(k)
  <2>1. SUFFICES ASSUME NEW k \in Held(r) PROVE Latest(r, k) = Best(k)
    OBVIOUS
  <2>2. Latest(r, k) \in Said(r) /\ beliefKey(Latest(r, k)) = k
    BY <1>7, LatestIs
  <2>. QED  BY <1>7, <1>11, <2>2, SaidOf
<1>. QED  BY <1>1, <1>6, <1>7, <1>12, <1>13, <1>14, <1>15, <1>16

(* One entry per slot: as many entries as slots.                           *)
LEMMA DistinctCounts ==
  ASSUME NEW s \in Seq(Atom), Distinct(s)
  PROVE  Cardinality(Held(s)) = Len(s)
<1>. DEFINE f == [i \in 1..Len(s) |-> beliefKey(s[i])]
<1>1. Len(s) \in Nat /\ IsFiniteSet(1..Len(s)) /\ Cardinality(1..Len(s)) = Len(s)
  <2>1. Len(s) \in Nat
    OBVIOUS
  <2>2. Cardinality(1..Len(s)) = IF 1 > Len(s) THEN 0 ELSE Len(s) - 1 + 1
    BY <2>1, FS_Interval
  <2>. QED  BY <2>1, <2>2, FS_Interval
<1>2. f \in Injection(1..Len(s), Held(s))
  BY HeldOf DEF Injection, IsInjective, Distinct, OncePer
<1>3. f \in Surjection(1..Len(s), Held(s))
  BY HeldOf DEF Surjection
<1>4. f \in Bijection(1..Len(s), Held(s))
  BY <1>2, <1>3 DEF Bijection
<1>5. Cardinality(Held(s)) = Cardinality(1..Len(s))
  BY <1>1, <1>4, FS_Bijection DEF ExistsBijection
<1>. QED  BY <1>1, <1>5

(* The stages of a merge: every fresh atom supersedes what it restates.    *)
Stages(out, prev, next) ==
  /\ out \in [0..Len(next) -> Seq(Atom)]
  /\ out[0] = Canonical(prev)
  /\ \A n \in 1..Len(next) : out[n] = Supersede(out[n - 1], next[n])

LEMMA SupersedeTyped ==
  ASSUME NEW s \in Seq(Atom), NEW a \in Atom
  PROVE  Supersede(s, a) \in Seq(Atom)
<1>1. Keep(s, DOMAIN s \ nearestSlot(s, a)) \in Seq(Atom)
  BY KeepLists
<1>. QED  BY <1>1 DEF Supersede

LEMMA MergeStages ==
  ASSUME NEW prev \in Seq(Atom), NEW next \in Seq(Atom)
  PROVE  \E out : Stages(out, prev, next) /\ MergeSelf(prev, next) = Canonical(out[Len(next)])
<1>. DEFINE N == Len(next)
            Body(f) == [n \in 0..N |-> IF n = 0 THEN Canonical(prev)
                                       ELSE Supersede(f[n - 1], next[n])]
            out == CHOOSE f : f = Body(f)
<1>1. N \in Nat /\ \A n \in 1..N : next[n] \in Atom
  OBVIOUS
<1>2. Canonical(prev) \in Seq(Atom)
  BY CanonicalIs
<1>3. \E f : f = Body(f)
  <2>. DEFINE G == [n \in 1..N |-> [t \in Seq(Atom) |-> Supersede(t, next[n])]]
  <2>1. G \in [1..N -> [Seq(Atom) -> Seq(Atom)]]
    BY <1>1, SupersedeTyped
  <2>2. \A n \in 1..N, t \in Seq(Atom) : G[n][t] = Supersede(t, next[n])
    OBVIOUS
  <2>. HIDE DEF G
  <2>3. PICK f \in [0..N -> Seq(Atom)] : Follows(f, Canonical(prev), G, N)
    BY <1>1, <1>2, <2>1, Recursion
  <2>4. \A n \in 0..N : f[n] = Body(f)[n]
    <3>1. SUFFICES ASSUME NEW n \in 0..N PROVE f[n] = Body(f)[n]
      OBVIOUS
    <3>2. CASE n = 0
      BY <2>3, <3>2 DEF Follows
    <3>3. CASE n # 0
      <4>1. n \in 1..N /\ n - 1 \in 0..N
        BY <1>1, <3>3
      <4>2. f[n] = G[n][f[n - 1]] /\ f[n - 1] \in Seq(Atom)
        BY <2>3, <4>1 DEF Follows
      <4>. QED  BY <2>2, <3>3, <4>1, <4>2
    <3>. QED  BY <3>2, <3>3
  <2>5. f = [n \in 0..N |-> f[n]] /\ Body(f) = [n \in 0..N |-> Body(f)[n]]
    BY <2>3
  <2>. HIDE DEF Body
  <2>. QED  BY <2>4, <2>5
<1>4. out = Body(out)
  BY <1>3
<1>. HIDE DEF out
<1>5. \A n \in 0..N : out[n] = Body(out)[n]
  BY <1>4
<1>6. out[0] = Canonical(prev) /\ \A n \in 1..N : out[n] = Supersede(out[n - 1], next[n])
  <2>1. out[0] = Canonical(prev)
    BY <1>1, <1>5
  <2>2. ASSUME NEW n \in 1..N PROVE out[n] = Supersede(out[n - 1], next[n])
    <3>1. n \in 0..N /\ n # 0
      BY <1>1
    <3>. QED  BY <1>5, <3>1
  <2>. QED  BY <2>1, <2>2
<1>7. \A n \in 0..N : out[n] \in Seq(Atom)
  <2>. DEFINE Bad == {n \in Nat : n <= N /\ out[n] \notin Seq(Atom)}
  <2>1. SUFFICES ASSUME Bad # {} PROVE FALSE
    BY <1>1
  <2>2. PICK n \in Bad : \A m \in Bad : n <= m
    BY <2>1, Least
  <2>3. n # 0 /\ n \in 1..N /\ n - 1 \in Nat /\ n - 1 <= N /\ n - 1 \notin Bad
    BY <1>1, <1>2, <1>6, <2>2
  <2>. QED  BY <1>1, <1>6, <2>2, <2>3, SupersedeTyped
<1>8. out \in [0..N -> Seq(Atom)]
  <2>1. out = [n \in 0..N |-> Body(out)[n]]
    BY <1>4
  <2>2. DOMAIN out = 0..N
    BY <2>1
  <2>3. out = [n \in 0..N |-> out[n]]
    BY <1>5, <2>1, <2>2
  <2>. QED  BY <1>7, <2>3
<1>9. MergeSelf(prev, next) = Canonical(out[N])
  BY DEF MergeSelf, out
<1>. QED  BY <1>6, <1>8, <1>9 DEF Stages

LEMMA MergeTyped ==
  ASSUME NEW prev \in Seq(Atom), NEW next \in Seq(Atom)
  PROVE  MergeSelf(prev, next) \in Seq(Atom)
<1>1. PICK out : Stages(out, prev, next) /\ MergeSelf(prev, next) = Canonical(out[Len(next)])
  BY MergeStages
<1>2. out[Len(next)] \in Seq(Atom)
  BY <1>1 DEF Stages
<1>. QED  BY <1>1, <1>2, CanonicalIs

-----------------------------------------------------------------------------
(* Models across rounds.                                                   *)

(* What a subject's last words amount to, for somebody present.            *)
Tell(s, k, was) == IF \E i \in DOMAIN self[s] : beliefKey(self[s][i]) = k
                   THEN Latest(self[s], k).content ELSE was

OneBeliefPerSlot == \A o, s \in People : Distinct(models[o][s])
ToldIsHeld ==
  \A o, s \in People, k \in Slots :
    told[o][s][k] = IF k \in Held(models[o][s])
                    THEN Latest(models[o][s], k).content ELSE Unsaid
ModelsInv == TypeOK /\ OneBeliefPerSlot /\ ToldIsHeld

LEMMA BatchesAreSeqs == \A b \in Batches : b \in Seq(Atom)
  BY DEF Batches

LEMMA EmptyHolds == Distinct(<<>>) /\ Held(<<>>) = {} /\ <<>> \in Seq(Atom)
  BY DEF Distinct, OncePer, Held, Said

(* What a round leaves in a model it told something.                       *)
LEMMA RoundAbsorbs ==
  ASSUME NEW m \in Seq(Atom), NEW cur \in Seq(Atom), Distinct(m)
  PROVE  LET r == absorb(m, EmitDelta(m, cur))
         IN /\ r \in Seq(Atom)
            /\ Distinct(r)
            /\ Held(r) = Held(m) \cup Held(cur)
            /\ \A k \in Held(cur) : Latest(r, k).content = Latest(cur, k).content
            /\ \A k \in Held(m) \ Held(cur) : Latest(r, k) = Latest(m, k)
<1>. DEFINE e == EmitDelta(m, cur)
            r == absorb(m, e)
<1>1. e \in Seq(Atom) /\ Distinct(e) /\ Held(e) = News(m, cur)
      /\ \A k \in Held(e) : Latest(e, k) = Latest(cur, k)
  BY EmitDeltaIs
<1>. HIDE DEF e
<1>2. /\ r \in Seq(Atom)
      /\ Distinct(r)
      /\ Held(r) = Held(m) \cup Held(e)
      /\ \A k \in Held(r) : Latest(r, k) = IF k \in Held(e) THEN Latest(e, k) ELSE Latest(m, k)
  BY <1>1, AbsorbIs
<1>. HIDE DEF r
<1>3. Held(r) = Held(m) \cup Held(cur)
  BY <1>1, <1>2 DEF News
<1>4. \A k \in Held(cur) : Latest(r, k).content = Latest(cur, k).content
  BY <1>1, <1>2, <1>3 DEF News
<1>5. \A k \in Held(m) \ Held(cur) : Latest(r, k) = Latest(m, k)
  BY <1>1, <1>2 DEF News
<1>. QED  BY <1>2, <1>3, <1>4, <1>5 DEF r, e

LEMMA AdvanceTells ==
  ASSUME ModelsInv, NEW P \in SUBSET People, Advance(P), NEW o \in People, NEW s \in People
  PROVE  /\ models'[o][s] = IF Meet(P, o, s) THEN absorb(models[o][s], EmitDelta(models[o][s], self[s]))
                                             ELSE models[o][s]
         /\ models'[o][s] \in Seq(Atom)
         /\ Distinct(models'[o][s])
         /\ \A k \in Slots :
              /\ told'[o][s][k] \in Contents \cup {Unsaid}
              /\ told'[o][s][k] = IF k \in Held(models'[o][s])
                                  THEN Latest(models'[o][s], k).content ELSE Unsaid
<1>. DEFINE m == models[o][s]
            n == models'[o][s]
            cur == self[s]
<1>1. m \in Seq(Atom) /\ cur \in Seq(Atom) /\ Distinct(m)
  BY DEF ModelsInv, TypeOK, OneBeliefPerSlot
<1>2. n = IF Meet(P, o, s) THEN absorb(m, EmitDelta(m, cur)) ELSE m
  BY DEF Advance
<1>3. \A k \in Slots : told[o][s][k] \in Contents \cup {Unsaid}
                       /\ told[o][s][k] = IF k \in Held(m) THEN Latest(m, k).content ELSE Unsaid
  BY DEF ModelsInv, TypeOK, ToldIsHeld
<1>4. \A k \in Slots : told'[o][s][k] = IF Meet(P, o, s) THEN Tell(s, k, told[o][s][k])
                                                         ELSE told[o][s][k]
  BY DEF Advance, Tell
<1>5. \A k \in Slots : \A was : Tell(s, k, was) = IF k \in Held(cur) THEN Latest(cur, k).content ELSE was
  <2>1. DOMAIN cur = 1..Len(cur)
    BY <1>1
  <2>2. \A k \in Slots : (\E i \in DOMAIN cur : beliefKey(cur[i]) = k) <=> k \in Held(cur)
    <3>. HIDE DEF cur
    <3>. QED  BY <1>1, <2>1, HeldOf
  <2>. QED  BY <2>2 DEF Tell
<1>6. \A k \in Held(cur) : Latest(cur, k).content \in Contents
  BY <1>1, LatestIs DEF Atom
<1>. HIDE DEF m, n, cur
<1>7. CASE Meet(P, o, s)
  <2>1. n = absorb(m, EmitDelta(m, cur))
    BY <1>2, <1>7
  <2>2. /\ n \in Seq(Atom)
        /\ Distinct(n)
        /\ Held(n) = Held(m) \cup Held(cur)
        /\ \A k \in Held(cur) : Latest(n, k).content = Latest(cur, k).content
        /\ \A k \in Held(m) \ Held(cur) : Latest(n, k) = Latest(m, k)
    BY <1>1, <2>1, RoundAbsorbs
  <2>3. ASSUME NEW k \in Slots
        PROVE  /\ told'[o][s][k] \in Contents \cup {Unsaid}
               /\ told'[o][s][k] = IF k \in Held(n) THEN Latest(n, k).content ELSE Unsaid
    <3>1. told'[o][s][k] = IF k \in Held(cur) THEN Latest(cur, k).content ELSE told[o][s][k]
      BY <1>4, <1>5, <1>7
    <3>2. CASE k \in Held(cur)
      BY <1>6, <2>2, <3>1, <3>2
    <3>3. CASE k \notin Held(cur)
      BY <1>3, <2>2, <3>1, <3>3
    <3>. QED  BY <3>2, <3>3
  <2>. QED  BY <1>2, <2>2, <2>3 DEF m, n, cur
<1>8. CASE ~Meet(P, o, s)
  BY <1>1, <1>2, <1>3, <1>4, <1>8 DEF m, n, cur
<1>. QED  BY <1>7, <1>8

LEMMA ModelsInit == Init => ModelsInv
<1>. SUFFICES ASSUME Init PROVE ModelsInv
  OBVIOUS
<1>. USE MeshAssumption, EmptyHolds DEF Init
<1>1. \A o, s \in People : models[o][s] = <<>>
  OBVIOUS
<1>2. \A o, s \in People, k \in Slots : told[o][s][k] = Unsaid
  OBVIOUS
<1>3. TypeOK
  BY DEF TypeOK
<1>4. OneBeliefPerSlot
  BY <1>1 DEF OneBeliefPerSlot
<1>5. ToldIsHeld
  BY <1>1, <1>2 DEF ToldIsHeld
<1>. QED  BY <1>3, <1>4, <1>5 DEF ModelsInv

LEMMA ModelsNext == ModelsInv /\ [Next]_vars => ModelsInv'
<1>. SUFFICES ASSUME ModelsInv, [Next]_vars PROVE ModelsInv'
  OBVIOUS
<1>. USE MeshAssumption
<1>1. ASSUME NEW p \in People, NEW atoms \in Batches, Emit(p, atoms) \/ Capture(p, atoms)
      PROVE  ModelsInv'
  <2>1. UNCHANGED <<models, round, told>>
    BY <1>1 DEF Emit, Capture, Restates
  <2>2. self[p] \in Seq(Atom) /\ atoms \in Seq(Atom)
    BY BatchesAreSeqs DEF ModelsInv, TypeOK
  <2>3. self' \in [People -> Seq(Atom)]
    <3>1. MergeSelf(self[p], atoms) \in Seq(Atom)
      BY <2>2, MergeTyped
    <3>. QED  BY <1>1, <2>2, <3>1 DEF Emit, Capture, Restates, ModelsInv, TypeOK
  <2>4. merge' = NoMerge \/ merge' \in Seq(Atom) \X Batches
    BY <1>1, <2>2 DEF Emit, Capture
  <2>5. restates' \in 0..MaxRestates
    BY <1>1 DEF Emit, Capture, Restates, ModelsInv, TypeOK
  <2>6. TypeOK'
    BY <2>1, <2>3, <2>4, <2>5 DEF ModelsInv, TypeOK
  <2>. QED  BY <2>1, <2>6 DEF ModelsInv, OneBeliefPerSlot, ToldIsHeld
<1>2. ASSUME NEW P \in SUBSET People, Advance(P)
      PROVE  ModelsInv'
  <2>1. models' \in [People -> [People -> Seq(Atom)]]
    <3>1. \A o \in People : DOMAIN models'[o] = People /\ models'[o] = [s \in People |-> models'[o][s]]
      BY <1>2 DEF Advance
    <3>2. \A o, s \in People : models'[o][s] \in Seq(Atom)
      BY <1>2, AdvanceTells
    <3>3. \A o \in People : models'[o] \in [People -> Seq(Atom)]
      BY <3>1, <3>2
    <3>4. models' = [o \in People |-> models'[o]]
      BY <1>2 DEF Advance
    <3>. QED  BY <3>3, <3>4
  <2>2. \A p \in People : models'[p][p] = <<>>
    BY <1>2 DEF Advance, Meet, ModelsInv, TypeOK
  <2>3. told' \in [People -> [People -> [Slots -> Contents \cup {Unsaid}]]]
    <3>1. \A o, s \in People : told'[o][s] = [k \in Slots |-> told'[o][s][k]]
      BY <1>2 DEF Advance, ModelsInv, TypeOK
    <3>2. \A o, s \in People : \A k \in Slots : told'[o][s][k] \in Contents \cup {Unsaid}
      BY <1>2, AdvanceTells
    <3>3. \A o, s \in People : told'[o][s] \in [Slots -> Contents \cup {Unsaid}]
      BY <3>1, <3>2
    <3>4. \A o \in People : told'[o] = [s \in People |-> told'[o][s]]
      BY <1>2 DEF Advance
    <3>5. told' = [o \in People |-> told'[o]]
      BY <1>2 DEF Advance
    <3>6. \A o \in People : told'[o] \in [People -> [Slots -> Contents \cup {Unsaid}]]
      BY <3>3, <3>4
    <3>. QED  BY <3>5, <3>6
  <2>4. TypeOK'
    BY <1>2, <2>1, <2>2, <2>3 DEF Advance, ModelsInv, TypeOK
  <2>5. OneBeliefPerSlot'
    BY <1>2, AdvanceTells DEF OneBeliefPerSlot
  <2>6. ToldIsHeld'
    BY <1>2, AdvanceTells DEF ToldIsHeld
  <2>. QED  BY <2>4, <2>5, <2>6 DEF ModelsInv
<1>3. ASSUME UNCHANGED vars
      PROVE  ModelsInv'
  BY <1>3 DEF vars, ModelsInv, TypeOK, OneBeliefPerSlot, ToldIsHeld
<1>. QED  BY <1>1, <1>2, <1>3 DEF Next

LEMMA ModelsAlways == Spec => []ModelsInv
  BY ModelsInit, ModelsNext, PTL DEF Spec

(* An observer's model of a teammate holds one belief per slot, and it is  *)
(* the last thing the teammate said of that slot in a round both took part *)
(* in (directed.go: Advance, absorb, EmitDelta, canonical), whatever is    *)
(* repeated within a self-model, whoever sits rounds out and whatever      *)
(* captures merge in between.                                              *)
THEOREM ModelsAreWhatWasTold == Spec => []ModelIsWhatWasTold
<1>1. ModelsInv => ModelIsWhatWasTold
  <2>1. SUFFICES ASSUME ModelsInv, NEW o \in People, NEW s \in People
                 PROVE  Cardinality(Held(models[o][s])) = Len(models[o][s])
    BY DEF ModelIsWhatWasTold, ModelsInv, ToldIsHeld
  <2>2. models[o][s] \in Seq(Atom) /\ Distinct(models[o][s])
    BY <2>1 DEF ModelsInv, TypeOK, OneBeliefPerSlot
  <2>. QED  BY <2>2, DistinctCounts
<1>. QED  BY <1>1, ModelsAlways, PTL

(* The two readings of surprise agree (directed.go: EmitDelta and          *)
(* StaleBeliefs), for any model and any self-model: what would be sent is  *)
(* what the model is stale about, and what it does not know.               *)
LEMMA SidesAgree ==
  ASSUME NEW m \in Seq(Atom), NEW cur \in Seq(Atom)
  PROVE  Held(EmitDelta(m, cur)) =
           {beliefKey(d.believed) : d \in {x \in StaleBeliefs(m, cur) : x.kind = "drifted"}}
             \cup (Held(cur) \ Held(m))
<1>. DEFINE cm == Canonical(m)
            cc == Canonical(cur)
            Drifting == {x \in StaleBeliefs(m, cur) : x.kind = "drifted"}
            Changed == {b \in Said(cm) : \E c \in Said(cc) :
                          beliefKey(c) = beliefKey(b) /\ ~sameBelief(c, b)}
            K == {beliefKey(d.believed) : d \in Drifting}
<1>1. /\ cm \in Seq(Atom) /\ Distinct(cm) /\ Held(cm) = Held(m)
      /\ \A k \in Held(m) : Latest(cm, k) = Latest(m, k)
      /\ cc \in Seq(Atom) /\ Distinct(cc) /\ Held(cc) = Held(cur)
      /\ \A k \in Held(cur) : Latest(cc, k) = Latest(cur, k)
  BY CanonicalIs
<1>2. K = {beliefKey(b) : b \in Changed}
  <2>1. \A x \in Drifting : x.believed \in Changed
    BY DEF StaleBeliefs, StaleAmong
  <2>2. \A b \in Changed : [believed |-> b, kind |-> "drifted"] \in Drifting
    BY DEF StaleBeliefs, StaleAmong
  <2>3. \A b \in Changed : beliefKey(b) \in K
    <3>1. SUFFICES ASSUME NEW b \in Changed PROVE beliefKey(b) \in K
      OBVIOUS
    <3>2. [believed |-> b, kind |-> "drifted"].believed = b
      OBVIOUS
    <3>. HIDE DEF Drifting, Changed
    <3>. QED  BY <2>2, <3>2
  <2>. HIDE DEF Drifting, Changed
  <2>. QED  BY <2>1, <2>3
<1>. HIDE DEF cm, cc, K
<1>3. {beliefKey(b) : b \in Changed} =
        {k \in Held(m) \cap Held(cur) : Latest(m, k).content # Latest(cur, k).content}
  <2>1. ASSUME NEW b \in Changed
        PROVE  beliefKey(b) \in Held(m) \cap Held(cur)
               /\ Latest(m, beliefKey(b)).content # Latest(cur, beliefKey(b)).content
    <3>1. PICK c \in Said(cc) : beliefKey(c) = beliefKey(b) /\ ~sameBelief(c, b)
      OBVIOUS
    <3>2. b = Latest(m, beliefKey(b)) /\ beliefKey(b) \in Held(m)
      BY <1>1, LatestOf
    <3>3. c = Latest(cur, beliefKey(b)) /\ beliefKey(b) \in Held(cur)
      BY <1>1, <3>1, LatestOf
    <3>. QED  BY <3>1, <3>2, <3>3 DEF sameBelief
  <2>2. ASSUME NEW k \in Held(m) \cap Held(cur), Latest(m, k).content # Latest(cur, k).content
        PROVE  \E b \in Changed : k = beliefKey(b)
    <3>1. Latest(cm, k) \in Said(cm) /\ beliefKey(Latest(cm, k)) = k
      BY <1>1, LatestIs
    <3>2. Latest(cc, k) \in Said(cc) /\ beliefKey(Latest(cc, k)) = k
      BY <1>1, LatestIs
    <3>3. ~sameBelief(Latest(cc, k), Latest(cm, k))
      BY <1>1, <2>2 DEF sameBelief
    <3>. QED  BY <3>1, <3>2, <3>3
  <2>. QED  BY <2>1, <2>2
<1>4. Held(EmitDelta(m, cur)) = News(m, cur)
  BY EmitDeltaIs
<1>5. News(m, cur) = K \cup (Held(cur) \ Held(m))
  BY <1>2, <1>3 DEF News
<1>. QED  BY <1>4, <1>5 DEF K

(* In every state, what a subject would send an observer covers exactly    *)
(* the slots whose belief the observer holds has drifted and the slots the *)
(* observer holds nothing of (directed.go, "the same measure read from the *)
(* two sides").                                                            *)
THEOREM SurpriseSidesAgree == Spec => []BothSidesAgree
<1>1. ModelsInv => BothSidesAgree
  <2>1. SUFFICES ASSUME ModelsInv, NEW o \in People, NEW s \in People
                 PROVE  LET m == models[o][s]
                        IN Held(EmitDelta(m, self[s])) =
                             {beliefKey(d.believed) :
                                d \in {x \in StaleBeliefs(m, self[s]) : x.kind = "drifted"}}
                               \cup (Held(self[s]) \ Held(m))
    BY DEF BothSidesAgree
  <2>2. models[o][s] \in Seq(Atom) /\ self[s] \in Seq(Atom)
    BY <2>1 DEF ModelsInv, TypeOK
  <2>. QED  BY <2>2, SidesAgree
<1>. QED  BY <1>1, ModelsAlways, PTL

LEMMA NothingHeld ==
  ASSUME NEW s \in Seq(Atom), Held(s) = {}
  PROVE  s = <<>>
<1>1. Len(s) \in Nat /\ 1..Len(s) = {}
  BY HeldOf
<1>2. Len(s) > 0 => 1 \in 1..Len(s)
  BY <1>1
<1>3. Len(s) = 0
  BY <1>1, <1>2
<1>. QED  BY <1>3

(* A round settles: when it ends nobody present has anything left to send  *)
(* to anybody present (directed.go: Advance; the emit rule never repeats   *)
(* itself into "a phantom, unending emission").                            *)
THEOREM EveryRoundSettles == Spec => RoundSettles
<1>. DEFINE Settled(P, o, s) == EmitDelta(models'[o][s], self[s]) = <<>>
<1>1. ASSUME ModelsInv, NEW P \in SUBSET People, Advance(P),
             NEW o \in P, NEW s \in P, o # s
      PROVE  Settled(P, o, s)
  <2>. DEFINE m == models[o][s]
              n == models'[o][s]
              cur == self[s]
              e == EmitDelta(n, cur)
  <2>1. m \in Seq(Atom) /\ cur \in Seq(Atom) /\ Distinct(m)
    BY <1>1 DEF ModelsInv, TypeOK, OneBeliefPerSlot
  <2>2. n = absorb(m, EmitDelta(m, cur))
    BY <1>1, AdvanceTells DEF Meet
  <2>. HIDE DEF m, n, cur
  <2>3. /\ n \in Seq(Atom)
        /\ Held(n) = Held(m) \cup Held(cur)
        /\ \A k \in Held(cur) : Latest(n, k).content = Latest(cur, k).content
    BY <2>1, <2>2, RoundAbsorbs
  <2>4. News(n, cur) = {}
    BY <2>3 DEF News
  <2>5. e \in Seq(Atom) /\ Held(e) = News(n, cur)
    BY <2>1, <2>3, EmitDeltaIs
  <2>. HIDE DEF e
  <2>6. e = <<>>
    BY <2>4, <2>5, NothingHeld
  <2>. QED  BY <2>6 DEF e, n, cur
<1>2. ModelsInv =>
        [\A P \in SUBSET People : Advance(P) =>
           \A o, s \in P : o # s => EmitDelta(models'[o][s], self[s]) = <<>>]_vars
  BY <1>1
<1>. QED  BY <1>2, ModelsAlways, PTL DEF RoundSettles

-----------------------------------------------------------------------------
(* What a capture's merge may lose.                                        *)

LEMMA CountsAreNat ==
  ASSUME NEW x \in Subjects, NEW y \in Subjects
  PROVE  Common(x, y) \in Nat /\ Union(x, y) \in Nat
<1>1. IsFiniteSet(tokens[x]) /\ IsFiniteSet(tokens[y])
  BY TokensAssumption
<1>2. IsFiniteSet(tokens[x] \cap tokens[y]) /\ IsFiniteSet(tokens[x] \cup tokens[y])
  BY <1>1, FS_Intersection, FS_Union
<1>. QED  BY <1>2, FS_CardinalityType DEF Common, Union

LEMMA Ratios ==
  ASSUME NEW A \in Nat, NEW B \in Nat, NEW C \in Nat, NEW D \in Nat,
         D <= 2 * C, A = 0 \/ 2 * A <= B
  PROVE  A * D <= C * B
<1>1. CASE A = 0
  <2>1. A * D = 0 /\ C * B \in Nat
    BY <1>1
  <2>. QED  BY <2>1
<1>2. CASE 2 * A <= B
  <2>1. A * D <= A * (2 * C)
    BY SMT
  <2>2. A * (2 * C) = (2 * A) * C
    BY SMT
  <2>3. (2 * A) * C <= B * C
    BY <1>2, SMT
  <2>4. B * C = C * B
    BY SMT
  <2>5. A * D \in Nat /\ A * (2 * C) \in Nat /\ (2 * A) * C \in Nat /\ B * C \in Nat
    BY SMT
  <2>. HIDE DEF Nat
  <2>. QED  BY <2>1, <2>2, <2>3, <2>4, <2>5
<1>. QED  BY <1>1, <1>2

(* A subject not alike is no closer than one that is.                      *)
LEMMA UnlikeIsNoCloser ==
  ASSUME NEW x \in Subjects, NEW y \in Subjects, NEW z \in Subjects, ~Alike(x, y), Alike(x, z)
  PROVE  NoCloser(x, y, z)
<1>1. /\ Common(x, y) \in Nat /\ Union(x, y) \in Nat
      /\ Common(x, z) \in Nat /\ Union(x, z) \in Nat
  BY CountsAreNat
<1>2. Union(x, z) <= 2 * Common(x, z)
  BY <1>1 DEF Alike
<1>3. Common(x, y) = 0 \/ 2 * Common(x, y) <= Union(x, y)
  BY <1>1 DEF Alike
<1>. QED  BY <1>1, <1>2, <1>3, Ratios DEF NoCloser

(* What a fresh atom supersedes: at most one belief, like it, its own slot *)
(* if that is held, and no held belief of its type is closer.              *)
LEMMA SlotIs ==
  ASSUME NEW s \in Seq(Atom), NEW a \in Atom, Distinct(s)
  PROVE  /\ \A i \in nearestSlot(s, a) : i \in 1..Len(s) /\ Like(a, s[i])
         /\ \A i, j \in nearestSlot(s, a) : i = j
         /\ \A i \in 1..Len(s) : beliefKey(s[i]) = beliefKey(a) => i \in nearestSlot(s, a)
         /\ \A i \in nearestSlot(s, a), q \in 1..Len(s) :
              beliefKey(s[i]) # beliefKey(a) =>
                /\ beliefKey(s[q]) # beliefKey(a)
                /\ s[q].typ = a.typ => NoCloser(a.subject, s[q].subject, s[i].subject)
<1>. DEFINE own == {i \in DOMAIN s : beliefKey(s[i]) = beliefKey(a)}
            near == {i \in DOMAIN s : s[i].typ = a.typ /\ Alike(a.subject, s[i].subject)}
            Beats(i, j) == /\ NoCloser(a.subject, s[j].subject, s[i].subject)
                           /\ NoCloser(a.subject, s[i].subject, s[j].subject) => j <= i
            best == {i \in near : \A j \in near : Beats(i, j)}
<1>1. nearestSlot(s, a) = IF own # {} THEN own ELSE best
  BY DEF nearestSlot
<1>2. DOMAIN s = 1..Len(s) /\ Len(s) \in Nat /\ \A i \in 1..Len(s) : s[i] \in Atom
  OBVIOUS
<1>3. a.subject \in Subjects /\ \A i \in 1..Len(s) : s[i].subject \in Subjects
  BY <1>2 DEF Atom
<1>4. CASE own # {}
  <2>1. nearestSlot(s, a) = own
    BY <1>1, <1>4
  <2>2. \A i \in own : i \in 1..Len(s) /\ beliefKey(s[i]) = beliefKey(a)
    BY <1>2
  <2>3. \A i \in own : Like(a, s[i])
    BY <2>2 DEF Like, beliefKey
  <2>4. \A i, j \in own : i = j
    BY <2>2 DEF Distinct, OncePer
  <2>5. \A i \in 1..Len(s) : beliefKey(s[i]) = beliefKey(a) => i \in own
    BY <1>2
  <2>. QED  BY <2>1, <2>2, <2>3, <2>4, <2>5
<1>5. CASE own = {}
  <2>1. nearestSlot(s, a) = best
    BY <1>1, <1>5
  <2>2. \A i \in best : i \in 1..Len(s) /\ s[i].typ = a.typ /\ Alike(a.subject, s[i].subject)
    BY <1>2
  <2>3. \A i \in best : Like(a, s[i])
    BY <2>2 DEF Like
  <2>4. \A i, j \in best : i = j
    <3>1. SUFFICES ASSUME NEW i \in best, NEW j \in best PROVE i = j
      OBVIOUS
    <3>2. Beats(i, j) /\ Beats(j, i)
      OBVIOUS
    <3>3. j <= i /\ i <= j
      BY <3>2
    <3>. QED  BY <1>2, <3>3
  <2>5. \A i \in 1..Len(s) : beliefKey(s[i]) # beliefKey(a)
    BY <1>2, <1>5
  <2>6. ASSUME NEW i \in best, NEW q \in 1..Len(s), s[q].typ = a.typ
        PROVE  NoCloser(a.subject, s[q].subject, s[i].subject)
    <3>1. CASE q \in near
      BY <2>6, <3>1
    <3>2. CASE q \notin near
      <4>1. ~Alike(a.subject, s[q].subject)
        BY <1>2, <2>6, <3>2
      <4>. HIDE DEF best
      <4>. QED  BY <1>3, <2>2, <4>1, UnlikeIsNoCloser
    <3>. QED  BY <3>1, <3>2
  <2>. HIDE DEF best
  <2>. QED  BY <2>1, <2>2, <2>3, <2>4, <2>5, <2>6
<1>. QED  BY <1>4, <1>5

(* t is s without the place in slot, in order, and a at the end: e says    *)
(* where the L that stay are from.                                         *)
Moves(e, L, t, s, a) ==
  /\ L \in Nat /\ Len(t) = L + 1 /\ t[L + 1] = a
  /\ \A k \in 1..L : /\ e[k] \in 1..Len(s) /\ t[k] = s[e[k]]
                     /\ beliefKey(s[e[k]]) # beliefKey(a)
  /\ \A j, k \in 1..L : j < k => e[j] < e[k]
  /\ \A i \in 1..Len(s) : (\E k \in 1..L : e[k] = i) \/ i \in nearestSlot(s, a)

LEMMA SupersedeMoves ==
  ASSUME NEW s \in Seq(Atom), NEW a \in Atom, Distinct(s)
  PROVE  \E e, L : Moves(e, L, Supersede(s, a), s, a)
<1>. DEFINE I == DOMAIN s \ nearestSlot(s, a)
            u == Keep(s, I)
            L == Len(u)
            t == Supersede(s, a)
<1>1. t = Append(u, a)
  BY DEF Supersede
<1>2. u \in Seq(Atom) /\ Lists(u, s, I, Len(s)) /\ DOMAIN s = 1..Len(s)
  BY KeepLists
<1>. HIDE DEF u
<1>3. PICK e : ListsBy(e, u, s, I, Len(s))
  BY <1>2 DEF Lists
<1>4. L \in Nat /\ Len(t) = L + 1 /\ t[L + 1] = a /\ \A k \in 1..L : t[k] = u[k]
  BY <1>1, <1>2
<1>. HIDE DEF t, L
<1>5. \A k \in 1..L : e[k] \in I \cap (1..Len(s)) /\ u[k] = s[e[k]]
  BY <1>3 DEF ListsBy, L
<1>6. \A k \in 1..L : beliefKey(s[e[k]]) # beliefKey(a)
  BY <1>5, SlotIs
<1>7. \A j, k \in 1..L : j < k => e[j] < e[k]
  BY <1>3 DEF ListsBy, L
<1>8. \A i \in 1..Len(s) : (\E k \in 1..L : e[k] = i) \/ i \in nearestSlot(s, a)
  BY <1>2, <1>3 DEF ListsBy, L
<1>9. Moves(e, L, t, s, a)
  BY <1>4, <1>5, <1>6, <1>7, <1>8 DEF Moves
<1>. QED  BY <1>9 DEF t

(* Keeping every place keeps everything.                                   *)
LEMMA KeepAll ==
  ASSUME NEW S, NEW s \in Seq(S)
  PROVE  Keep(s, 1..Len(s)) = s
<1>. DEFINE I == 1..Len(s)
            t == Keep(s, I)
<1>1. t \in Seq(S) /\ Lists(t, s, I, Len(s)) /\ Len(s) \in Nat
  BY KeepLists
<1>. HIDE DEF t
<1>2. PICK e : ListsBy(e, t, s, I, Len(s))
  BY <1>1 DEF Lists
<1>3. Len(t) \in Nat /\ \A k \in 1..Len(t) : e[k] \in 1..Len(s) /\ e[k] \in Nat /\ t[k] = s[e[k]]
  BY <1>1, <1>2 DEF ListsBy
<1>4. \A j, k \in 1..Len(t) : j < k => e[j] < e[k]
  BY <1>2 DEF ListsBy
<1>5. \A i \in 1..Len(s) : \E k \in 1..Len(t) : e[k] = i
  BY <1>2 DEF ListsBy
<1>6. \A k \in 1..Len(t) : e[k] = k
  <2>. DEFINE Bad == {k \in Nat : k \in 1..Len(t) /\ e[k] # k}
  <2>1. SUFFICES ASSUME Bad # {} PROVE FALSE
    BY <1>3
  <2>2. PICK k \in Bad : \A j \in Bad : k <= j
    BY <2>1, Least
  <2>3. k \in 1..Len(t) /\ e[k] # k /\ \A j \in 1..Len(t) : j < k => e[j] = j
    BY <2>2
  <2>. HIDE DEF Bad
  <2>4. k <= e[k]
    <3>1. CASE k = 1
      BY <1>3, <2>3, <3>1
    <3>2. CASE k # 1
      <4>1. k - 1 \in 1..Len(t) /\ k - 1 < k
        BY <1>3, <2>3, <3>2
      <4>2. e[k - 1] = k - 1 /\ e[k - 1] < e[k]
        BY <1>4, <2>3, <4>1
      <4>. QED  BY <1>3, <2>3, <4>2
    <3>. QED  BY <3>1, <3>2
  <2>5. k \in 1..Len(s) /\ k < e[k]
    BY <1>1, <1>3, <2>3, <2>4
  <2>6. PICK j \in 1..Len(t) : e[j] = k
    BY <1>5, <2>5
  <2>7. CASE j < k
    BY <1>3, <2>3, <2>6, <2>7
  <2>8. CASE k < j
    BY <1>3, <1>4, <2>3, <2>5, <2>6, <2>8
  <2>9. CASE j = k
    BY <2>3, <2>6, <2>9
  <2>. QED  BY <1>3, <2>3, <2>7, <2>8, <2>9
<1>7. Len(t) = Len(s)
  <2>1. Len(t) # 0 => Len(t) \in 1..Len(t)
    BY <1>3
  <2>2. Len(s) # 0 => Len(s) \in 1..Len(s)
    BY <1>1
  <2>3. Len(t) <= Len(s)
    BY <1>1, <1>3, <1>6, <2>1
  <2>4. Len(s) <= Len(t)
    BY <1>1, <1>3, <1>5, <1>6, <2>2
  <2>. QED  BY <1>1, <1>3, <2>3, <2>4
<1>8. \A k \in 1..Len(t) : t[k] = s[k]
  BY <1>3, <1>6
<1>9. t = s
  BY <1>1, <1>7, <1>8
<1>. QED  BY <1>9 DEF t

LEMMA CanonicalFixed ==
  ASSUME NEW s \in Seq(Atom), Distinct(s)
  PROVE  Canonical(s) = s
<1>. DEFINE d == [i \in DOMAIN s |-> Latest(s, beliefKey(s[i]))]
<1>1. DOMAIN s = 1..Len(s) /\ Len(s) \in Nat /\ s = [i \in DOMAIN s |-> s[i]]
  OBVIOUS
<1>2. \A i \in 1..Len(s) : Latest(s, beliefKey(s[i])) = s[i]
  BY SaidOf, LatestOf
<1>3. d = s
  BY <1>1, <1>2
<1>4. Firsts(s) = 1..Len(s)
  <2>1. ASSUME NEW i \in 1..Len(s), NEW j \in 1..(i - 1)
        PROVE  beliefKey(s[j]) # beliefKey(s[i])
    <3>1. j \in 1..Len(s) /\ j # i
      BY <1>1
    <3>. QED  BY <3>1 DEF Distinct, OncePer
  <2>. QED  BY <1>1, <2>1 DEF Firsts
<1>5. Canonical(s) = Keep(d, Firsts(s))
  BY DEF Canonical
<1>. QED  BY <1>3, <1>4, <1>5, KeepAll

(* a comes before b in s.                                                  *)
Before(s, a, b) == \E i, j \in 1..Len(s) : i < j /\ s[i] = a /\ s[j] = b
Fresh(next, n) == {next[i] : i \in 1..n}

(* A merge of next into the published atoms c, n atoms in: o so far.       *)
Stage(c, next, n, o) ==
  /\ o \in Seq(Atom)
  /\ Distinct(o)
  /\ Said(o) \subseteq Said(c) \cup Fresh(next, n)
  /\ \A i, j \in 1..Len(o) : i < j =>
       /\ o[i] \in Fresh(next, n) => o[j] \in Fresh(next, n)
       /\ o[j] \notin Fresh(next, n) => Before(c, o[i], o[j])
  /\ n > 0 => Len(o) > 0 /\ o[Len(o)] = next[n]
  /\ \A i \in 1..n :
       (\A j \in (i + 1)..n : ~Like(next[j], next[i])) => next[i] \in Said(o)
  /\ \A b \in Said(c) \ Said(o) : \E i \in 1..n : Like(next[i], b)
  /\ IsFiniteSet(Said(c) \ Said(o)) /\ Cardinality(Said(c) \ Said(o)) <= n

LEMMA StageZero ==
  ASSUME NEW c \in Seq(Atom), Distinct(c), NEW next \in Seq(Atom)
  PROVE  Stage(c, next, 0, c)
<1>1. Fresh(next, 0) = {}
  BY DEF Fresh
<1>2. Said(c) \ Said(c) = {}
  OBVIOUS
<1>3. IsFiniteSet({}) /\ Cardinality({}) = 0
  BY FS_EmptySet
<1>4. \A i, j \in 1..Len(c) : i < j => Before(c, c[i], c[j])
  BY DEF Before
<1>5. 1..0 = {} /\ ~(0 > 0)
  OBVIOUS
<1>6. IsFiniteSet(Said(c) \ Said(c)) /\ Cardinality(Said(c) \ Said(c)) = 0
  BY <1>2, <1>3, Zenon
<1>. QED  BY <1>1, <1>2, <1>4, <1>5, <1>6 DEF Stage

LEMMA StageNext ==
  ASSUME NEW c \in Seq(Atom), NEW next \in Seq(Atom), NEW n \in 1..Len(next),
         NEW s, Stage(c, next, n - 1, s)
  PROVE  Stage(c, next, n, Supersede(s, next[n]))
<1>. DEFINE a == next[n]
            t == Supersede(s, a)
            Was == Fresh(next, n - 1)
            Now == Fresh(next, n)
<1>1. n \in Nat /\ n - 1 \in Nat /\ n > 0 /\ a \in Atom
  OBVIOUS
<1>2. /\ s \in Seq(Atom)
      /\ Distinct(s)
      /\ Said(s) \subseteq Said(c) \cup Was
      /\ \A i, j \in 1..Len(s) : i < j =>
           /\ s[i] \in Was => s[j] \in Was
           /\ s[j] \notin Was => Before(c, s[i], s[j])
  BY DEF Stage
<1>3. /\ \A i \in 1..(n - 1) :
           (\A j \in (i + 1)..(n - 1) : ~Like(next[j], next[i])) => next[i] \in Said(s)
      /\ \A b \in Said(c) \ Said(s) : \E i \in 1..(n - 1) : Like(next[i], b)
      /\ IsFiniteSet(Said(c) \ Said(s)) /\ Cardinality(Said(c) \ Said(s)) <= n - 1
  BY DEF Stage
<1>4. Now = Was \cup {a}
  <2>1. \A i \in 1..n : i = n \/ i \in 1..(n - 1)
    BY <1>1
  <2>2. \A i \in 1..(n - 1) : i \in 1..n
    BY <1>1
  <2>. QED  BY <1>1, <2>1, <2>2 DEF Fresh
<1>5. t \in Seq(Atom)
  BY <1>1, <1>2, SupersedeTyped
<1>. HIDE DEF a, Was, Now
<1>6. PICK e, L : Moves(e, L, t, s, a)
  BY <1>1, <1>2, SupersedeMoves
<1>. HIDE DEF t
<1>7. /\ L \in Nat /\ Len(t) = L + 1 /\ t[L + 1] = a
      /\ \A k \in 1..L : e[k] \in 1..Len(s) /\ t[k] = s[e[k]] /\ beliefKey(t[k]) # beliefKey(a)
      /\ \A j, k \in 1..L : j < k => e[j] < e[k]
      /\ \A k \in 1..Len(t) : k = L + 1 \/ k \in 1..L
      /\ L + 1 \in 1..Len(t) /\ \A k \in 1..L : k \in 1..Len(t)
  BY <1>6 DEF Moves
<1>8. \A i \in 1..Len(s) : s[i] \in Said(t) \/ i \in nearestSlot(s, a)
  <2>1. SUFFICES ASSUME NEW i \in 1..Len(s), i \notin nearestSlot(s, a) PROVE s[i] \in Said(t)
    OBVIOUS
  <2>2. PICK k \in 1..L : e[k] = i
    BY <1>6, <2>1 DEF Moves
  <2>. QED  BY <1>5, <1>7, <2>2, SaidOf
<1>9. Distinct(t)
  <2>1. SUFFICES ASSUME NEW j \in 1..Len(t), NEW k \in 1..Len(t),
                        beliefKey(t[j]) = beliefKey(t[k])
                 PROVE  j = k
    BY DEF Distinct, OncePer
  <2>2. CASE j \in 1..L /\ k \in 1..L
    <3>1. e[j] = e[k] /\ e[j] \in Nat
      BY <1>2, <1>7, <2>1, <2>2 DEF Distinct, OncePer
    <3>2. ~(j < k) /\ ~(k < j)
      BY <1>7, <2>2, <3>1
    <3>. QED  BY <1>7, <3>2
  <2>3. CASE j = L + 1 \/ k = L + 1
    BY <1>7, <2>1, <2>3
  <2>. QED  BY <1>7, <2>2, <2>3
<1>10. Said(t) \subseteq Said(c) \cup Now
  <2>1. \A k \in 1..L : t[k] \in Said(s)
    BY <1>2, <1>7, SaidOf
  <2>2. \A x \in Said(t) : x = a \/ x \in Said(s)
    BY <1>5, <1>7, <2>1, SaidOf
  <2>. QED  BY <1>2, <1>4, <2>2
<1>11. ASSUME NEW i \in 1..Len(t), NEW j \in 1..Len(t), i < j
       PROVE  /\ t[i] \in Now => t[j] \in Now
              /\ t[j] \notin Now => Before(c, t[i], t[j])
  <2>1. i \in 1..L
    BY <1>7, <1>11
  <2>2. CASE j = L + 1
    BY <1>4, <1>7, <2>2
  <2>3. CASE j \in 1..L
    <3>1. e[i] \in 1..Len(s) /\ e[j] \in 1..Len(s) /\ e[i] < e[j]
          /\ t[i] = s[e[i]] /\ t[j] = s[e[j]] /\ t[i] # a
      BY <1>7, <1>11, <2>1, <2>3
    <3>. QED  BY <1>2, <1>4, <3>1
  <2>. QED  BY <1>7, <2>2, <2>3
<1>12. Len(t) > 0 /\ t[Len(t)] = a
  BY <1>7
<1>13. ASSUME NEW i \in 1..n, \A j \in (i + 1)..n : ~Like(next[j], next[i])
       PROVE  next[i] \in Said(t)
  <2>1. CASE i = n
    BY <1>5, <1>7, <2>1, SaidOf DEF a
  <2>2. CASE i # n
    <3>1. i \in 1..(n - 1) /\ \A j \in (i + 1)..(n - 1) : j \in (i + 1)..n
      BY <1>1, <2>2
    <3>2. n \in (i + 1)..n
      BY <1>1, <2>2
    <3>3. next[i] \in Said(s) /\ ~Like(a, next[i])
      BY <1>3, <1>13, <3>1, <3>2 DEF a
    <3>4. PICK p \in 1..Len(s) : next[i] = s[p]
      BY <1>2, <3>3, SaidOf
    <3>5. p \notin nearestSlot(s, a)
      BY <1>1, <1>2, <3>3, <3>4, SlotIs
    <3>. QED  BY <1>8, <3>4, <3>5
  <2>. QED  BY <2>1, <2>2
<1>14. ASSUME NEW b \in Said(s) \ Said(t)
       PROVE  \E i \in nearestSlot(s, a) : b = s[i] /\ Like(a, b)
  <2>1. PICK i \in 1..Len(s) : b = s[i]
    BY <1>2, SaidOf
  <2>2. i \in nearestSlot(s, a)
    BY <1>8, <1>14, <2>1
  <2>. QED  BY <1>1, <1>2, <2>1, <2>2, SlotIs
<1>15. ASSUME NEW b \in Said(c) \ Said(t)
       PROVE  \E i \in 1..n : Like(next[i], b)
  <2>1. CASE b \in Said(s)
    <3>1. Like(a, b)
      BY <1>14, <1>15, <2>1
    <3>. QED  BY <1>1, <3>1 DEF a
  <2>2. CASE b \notin Said(s)
    <3>1. PICK i \in 1..(n - 1) : Like(next[i], b)
      BY <1>3, <1>15, <2>2
    <3>. QED  BY <1>1, <3>1
  <2>. QED  BY <2>1, <2>2
<1>16. IsFiniteSet(Said(c) \ Said(t)) /\ Cardinality(Said(c) \ Said(t)) <= n
  <2>. DEFINE Lost == Said(c) \ Said(s)
              Losing == Said(c) \ Said(t)
  <2>1. IsFiniteSet(Lost) /\ Cardinality(Lost) \in Nat /\ Cardinality(Lost) <= n - 1
    BY <1>3, FS_CardinalityType
  <2>2. CASE nearestSlot(s, a) = {}
    <3>1. Losing \subseteq Lost
      BY <1>14, <2>2
    <3>2. IsFiniteSet(Losing) /\ Cardinality(Losing) <= Cardinality(Lost) /\ Cardinality(Losing) \in Nat
      BY <2>1, <3>1, FS_Subset, FS_CardinalityType
    <3>. QED  BY <1>1, <2>1, <3>2
  <2>3. CASE nearestSlot(s, a) # {}
    <3>1. PICK p : p \in nearestSlot(s, a)
      BY <2>3
    <3>2. \A i \in nearestSlot(s, a) : i = p
      BY <1>1, <1>2, <3>1, SlotIs
    <3>3. Losing \subseteq Lost \cup {s[p]}
      BY <1>14, <3>2
    <3>4. IsFiniteSet(Lost \cup {s[p]}) /\ Cardinality(Lost \cup {s[p]}) \in Nat
          /\ Cardinality(Lost \cup {s[p]}) <= Cardinality(Lost) + 1
      <4>. HIDE DEF Lost
      <4>1. IsFiniteSet(Lost \cup {s[p]})
            /\ Cardinality(Lost \cup {s[p]}) =
                 IF s[p] \in Lost THEN Cardinality(Lost) ELSE Cardinality(Lost) + 1
        BY <2>1, FS_AddElement
      <4>. QED  BY <2>1, <4>1
    <3>5. IsFiniteSet(Losing) /\ Cardinality(Losing) <= Cardinality(Lost \cup {s[p]})
          /\ Cardinality(Losing) \in Nat
      BY <3>3, <3>4, FS_Subset, FS_CardinalityType
    <3>. HIDE DEF Lost, Losing
    <3>6. Cardinality(Losing) <= n
      BY <1>1, <2>1, <3>4, <3>5
    <3>. QED  BY <3>5, <3>6 DEF Losing
  <2>. QED  BY <2>2, <2>3
<1>17. Stage(c, next, n, t)
  BY <1>5, <1>9, <1>10, <1>11, <1>12, <1>13, <1>15, <1>16 DEF Stage, a, Now
<1>. QED  BY <1>17 DEF t, a

LEMMA MergeIsStaged ==
  ASSUME NEW prev \in Seq(Atom), NEW next \in Seq(Atom)
  PROVE  /\ Stage(Canonical(prev), next, Len(next), MergeSelf(prev, next))
         /\ Len(next) = 1 => MergeSelf(prev, next) = Supersede(Canonical(prev), next[1])
<1>. DEFINE c == Canonical(prev)
            N == Len(next)
<1>1. c \in Seq(Atom) /\ Distinct(c) /\ N \in Nat
  BY CanonicalIs
<1>2. PICK out : Stages(out, prev, next) /\ MergeSelf(prev, next) = Canonical(out[N])
  BY MergeStages
<1>. HIDE DEF c
<1>3. out[0] = c /\ \A n \in 1..N : out[n] = Supersede(out[n - 1], next[n])
  BY <1>2 DEF Stages, c
<1>. DEFINE Bad == {n \in Nat : n <= N /\ ~Stage(c, next, n, out[n])}
<1>4. Bad = {}
  <2>1. SUFFICES ASSUME Bad # {} PROVE FALSE
    OBVIOUS
  <2>2. PICK n \in Bad : \A m \in Bad : n <= m
    BY <2>1, Least
  <2>3. n # 0
    BY <1>1, <1>3, <2>2, StageZero
  <2>4. n \in 1..N /\ n - 1 \in Nat /\ n - 1 <= N /\ n - 1 \notin Bad
    BY <1>1, <2>2, <2>3
  <2>5. Stage(c, next, n - 1, out[n - 1])
    BY <2>4
  <2>. HIDE DEF Bad
  <2>6. Stage(c, next, n, Supersede(out[n - 1], next[n]))
    BY <1>1, <2>4, <2>5, StageNext
  <2>7. Stage(c, next, n, out[n])
    BY <1>3, <2>4, <2>6
  <2>. QED  BY <2>2, <2>7 DEF Bad
<1>5. Stage(c, next, N, out[N])
  BY <1>1, <1>4
<1>6. MergeSelf(prev, next) = out[N]
  BY <1>2, <1>5, CanonicalFixed DEF Stage
<1>7. N = 1 => out[N] = Supersede(c, next[1])
  BY <1>3
<1>. QED  BY <1>5, <1>6, <1>7 DEF c

LEMMA PlaceOf ==
  ASSUME NEW s \in Seq(Atom), Distinct(s), NEW p \in 1..Len(s)
  PROVE  (CHOOSE i \in DOMAIN s : s[i] = s[p]) = p
<1>1. DOMAIN s = 1..Len(s)
  OBVIOUS
<1>2. \A i \in 1..Len(s) : s[i] = s[p] => i = p
  BY DEF Distinct, OncePer
<1>. QED  BY <1>1, <1>2

(* Whatever was published and whatever a capture's turns say (directed.go: *)
(* MergeSelf, nearestSlot): a fresh atom gives way only to a later fresh   *)
(* one like it, a published one only to a fresh one like it, each fresh    *)
(* atom supersedes at most one, no kept belief being closer, and what is   *)
(* left runs from the longest untouched to the last restated.              *)
THEOREM MergeKeepsTheRest == Spec => []MergeLosesOnlyRestated
<1>1. ASSUME NEW prev \in Seq(Atom), NEW next \in Seq(Atom)
      PROVE  LET c == Canonical(prev)
                 out == MergeSelf(prev, next)
                 Lost == Said(c) \ Said(out)
                 At(atoms, a) == CHOOSE i \in DOMAIN atoms : atoms[i] = a
             IN /\ next # <<>> => out[Len(out)] = next[Len(next)]
                /\ \A i, j \in DOMAIN out : i < j =>
                     /\ out[i] \in Said(next) => out[j] \in Said(next)
                     /\ out[j] \notin Said(next) => At(c, out[i]) < At(c, out[j])
                /\ \A i \in DOMAIN next :
                     (\A j \in i+1..Len(next) : ~Like(next[j], next[i])) => next[i] \in Said(out)
                /\ \A b \in Lost : \E i \in DOMAIN next : Like(next[i], b)
                /\ Cardinality(Lost) <= Len(next)
                /\ Len(next) = 1 => \A b \in Lost, d \in Said(c) \ Lost :
                     beliefKey(b) = beliefKey(next[1]) \/
                       (beliefKey(d) # beliefKey(next[1]) /\
                          (d.typ = next[1].typ => NoCloser(next[1].subject, d.subject, b.subject)))
  <2>. DEFINE c == Canonical(prev)
              out == MergeSelf(prev, next)
              N == Len(next)
              Lost == Said(c) \ Said(out)
              At(atoms, a) == CHOOSE i \in DOMAIN atoms : atoms[i] = a
  <2>1. c \in Seq(Atom) /\ Distinct(c)
    BY CanonicalIs
  <2>2. Stage(c, next, N, out) /\ (N = 1 => out = Supersede(c, next[1]))
    BY MergeIsStaged
  <2>. HIDE DEF c, out
  <2>3. N \in Nat /\ DOMAIN next = 1..N /\ Fresh(next, N) = Said(next) /\ (next # <<>> => N > 0)
    BY DEF Fresh, Said
  <2>4. out \in Seq(Atom) /\ DOMAIN out = 1..Len(out)
    BY <2>2 DEF Stage
  <2>5. next # <<>> => out[Len(out)] = next[N]
    BY <2>2, <2>3 DEF Stage
  <2>6. ASSUME NEW i \in 1..Len(out), NEW j \in 1..Len(out), i < j
        PROVE  /\ out[i] \in Said(next) => out[j] \in Said(next)
               /\ out[j] \notin Said(next) => At(c, out[i]) < At(c, out[j])
    <3>1. /\ out[i] \in Said(next) => out[j] \in Said(next)
          /\ out[j] \notin Said(next) => Before(c, out[i], out[j])
      BY <2>2, <2>3, <2>6 DEF Stage
    <3>2. ASSUME Before(c, out[i], out[j])
          PROVE  At(c, out[i]) < At(c, out[j])
      <4>1. PICK p \in 1..Len(c), q \in 1..Len(c) : p < q /\ c[p] = out[i] /\ c[q] = out[j]
        BY <3>2 DEF Before
      <4>2. At(c, c[p]) = p /\ At(c, c[q]) = q
        BY <2>1, PlaceOf
      <4>. QED  BY <4>1, <4>2
    <3>. QED  BY <3>1, <3>2
  <2>7. \A i \in 1..N :
          (\A j \in i+1..N : ~Like(next[j], next[i])) => next[i] \in Said(out)
    BY <2>2 DEF Stage
  <2>8. /\ \A b \in Lost : \E i \in 1..N : Like(next[i], b)
        /\ Cardinality(Lost) <= N
    BY <2>2 DEF Stage
  <2>9. ASSUME N = 1, NEW b \in Lost, NEW d \in Said(c), beliefKey(b) # beliefKey(next[1])
        PROVE  /\ beliefKey(d) # beliefKey(next[1])
               /\ d.typ = next[1].typ => NoCloser(next[1].subject, d.subject, b.subject)
    <3>. DEFINE a == next[1]
    <3>1. a \in Atom
      <4>1. 1 \in 1..Len(next)
        BY <2>9
      <4>. QED  BY <4>1
    <3>. HIDE DEF a
    <3>2. PICK e, L : Moves(e, L, out, c, a)
      BY <2>1, <2>2, <2>9, <3>1, SupersedeMoves DEF a
    <3>3. PICK i \in 1..Len(c) : b = c[i]
      BY <2>1, <2>9, SaidOf
    <3>4. PICK q \in 1..Len(c) : d = c[q]
      BY <2>1, SaidOf
    <3>5. i \in nearestSlot(c, a)
      <4>1. SUFFICES ASSUME NEW k \in 1..L, e[k] = i PROVE FALSE
        BY <3>2 DEF Moves
      <4>2. out[k] = b /\ k \in 1..Len(out)
        BY <3>2, <3>3, <4>1 DEF Moves
      <4>. QED  BY <2>4, <2>9, <4>2, SaidOf
    <3>. QED  BY <2>1, <2>9, <3>1, <3>3, <3>4, <3>5, SlotIs DEF a
  <2>. QED  BY <2>3, <2>4, <2>5, <2>6, <2>7, <2>8, <2>9 DEF c, out
<1>2. ModelsInv => MergeLosesOnlyRestated
  <2>1. SUFFICES ASSUME ModelsInv, merge # NoMerge PROVE MergeLosesOnlyRestated
    BY DEF MergeLosesOnlyRestated, RestatedComeLast
  <2>2. merge[1] \in Seq(Atom) /\ merge[2] \in Seq(Atom)
    BY <2>1, BatchesAreSeqs DEF ModelsInv, TypeOK
  <2>. DEFINE prev == merge[1]
              next == merge[2]
  <2>. HIDE DEF prev, next
  <2>. QED  BY <1>1, <2>2 DEF MergeLosesOnlyRestated, RestatedComeLast, prev, next
<1>. QED  BY <1>2, ModelsAlways, PTL

-----------------------------------------------------------------------------
(* The session's reads (Reflect).                                          *)

(* A call that has read and not answered read no less than the first read, *)
(* and somebody has read before anything is remembered.                    *)
ReadsSinceFirst ==
  /\ \A c \in Callers : read[c] # Unread => first # Unread /\ first <= read[c]
  /\ base # Unread => first # Unread
  /\ base = Unread /\ (\A c \in Callers : read[c] = Unread) => first = Unread

(* Calls that do not cross come one at a time, and the one that finds no   *)
(* baseline is the one that read first.                                    *)
OneAtATime ==
  ~crossed =>
    /\ \A c, d \in Callers : read[c] # Unread /\ read[d] # Unread => c = d
    /\ base = Unread => \A c \in Callers : read[c] # Unread => read[c] = first
    /\ base # Unread => base = first

SessionInv == SessionOK /\ ReadsSinceFirst /\ OneAtATime

LEMMA SessionStarts == SessionInit => SessionInv
<1>. SUFFICES ASSUME SessionInit PROVE SessionInv
  OBVIOUS
<1>1. Unread \in Nat /\ Len(bus) = 0 /\ bus \in Seq(Envelope)
  BY ReflectAssumption DEF Unread, SessionInit
<1>2. \A c \in Callers : read[c] = Unread
  BY DEF SessionInit
<1>3. SessionOK
  <2>1. answer.tool = "none"
    BY DEF SessionInit, Unanswered
  <2>2. read \in [Callers -> 0..Len(bus) \cup {Unread}]
    BY DEF SessionInit
  <2>3. first <= base /\ calls \in 0..MaxCalls /\ Len(bus) <= MaxEmits
    BY <1>1, ReflectAssumption DEF SessionInit
  <2>. QED  BY <1>1, <2>1, <2>2, <2>3 DEF SessionInit, SessionOK
<1>. QED  BY <1>2, <1>3 DEF SessionInit, SessionInv, ReadsSinceFirst, OneAtATime

LEMMA SessionSteps == SessionInv /\ [SessionNext]_sessionVars => SessionInv'
<1>. SUFFICES ASSUME SessionInv, [SessionNext]_sessionVars PROVE SessionInv'
  OBVIOUS
<1>. USE ReflectAssumption
<1>0. /\ bus \in Seq(Envelope) /\ Len(bus) \in Nat /\ Len(bus) < Unread /\ Unread \in Nat
      /\ base \in 0..Len(bus) \cup {Unread} /\ first \in 0..Len(bus) \cup {Unread}
      /\ read \in [Callers -> 0..Len(bus) \cup {Unread}]
  BY DEF SessionInv, SessionOK, Unread
<1>1. ASSUME NEW e \in Envelope, Publish(e)
      PROVE  SessionInv'
  <2>1. bus' \in Seq(Envelope) /\ Len(bus') = Len(bus) + 1 /\ Len(bus') <= MaxEmits
    BY <1>0, <1>1 DEF Publish
  <2>2. 0..Len(bus) \subseteq 0..Len(bus')
    BY <1>0, <2>1
  <2>3. SessionOK'
    BY <1>0, <1>1, <2>1, <2>2 DEF Publish, SessionInv, SessionOK, Unanswered
  <2>. QED  BY <1>1, <2>3 DEF Publish, SessionInv, ReadsSinceFirst, OneAtATime, Unread
<1>2. ASSUME NEW c \in Callers, Collect(c)
      PROVE  SessionInv'
  <2>1. /\ read[c] = Unread /\ UNCHANGED <<bus, base>> /\ answer' = Unanswered
        /\ read' = [read EXCEPT ![c] = Len(bus)]
        /\ first' = IF first = Unread THEN Len(bus) ELSE first
        /\ crossed' = (crossed \/ \E d \in Callers : read[d] # Unread)
    BY <1>2 DEF Collect, Start
  <2>2. /\ read'[c] = Len(bus) /\ \A d \in Callers : d # c => read'[d] = read[d]
        /\ read' \in [Callers -> 0..Len(bus) \cup {Unread}]
    BY <1>0, <2>1
  <2>3. calls' \in 0..MaxCalls
    BY <1>2 DEF Collect, Start, SessionInv, SessionOK
  <2>4. first' # Unread /\ first' <= Len(bus) /\ first' \in 0..Len(bus)
    BY <1>0, <2>1
  <2>5. Unread' = Unread
    BY DEF Unread
  <2>6. first' <= base'
    BY <1>0, <2>1, <2>4 DEF SessionInv, SessionOK, ReadsSinceFirst
  <2>7. SessionOK'
    BY <2>1, <2>2, <2>3, <2>4, <2>5, <2>6 DEF SessionInv, SessionOK, Unanswered
  <2>8. ReadsSinceFirst'
    BY <1>0, <2>1, <2>2, <2>4, <2>5 DEF SessionInv, SessionOK, ReadsSinceFirst
  <2>9. OneAtATime'
    BY <1>0, <2>1, <2>2, <2>4, <2>5 DEF SessionInv, OneAtATime, ReadsSinceFirst
  <2>. QED  BY <2>7, <2>8, <2>9 DEF SessionInv
<1>3. ASSUME NEW c \in Callers, Answer(c)
      PROVE  SessionInv'
  <2>1. /\ read[c] # Unread /\ UNCHANGED <<bus, first, crossed, calls>>
        /\ base' = IF base = Unread THEN read[c] ELSE base
        /\ read' = [read EXCEPT ![c] = Unread]
    BY <1>3 DEF Answer, Remembered
  <2>2. /\ read'[c] = Unread /\ \A d \in Callers : d # c => read'[d] = read[d]
        /\ read' \in [Callers -> 0..Len(bus) \cup {Unread}]
    BY <1>0, <2>1
  <2>3. answer'.tool \in {"none", "mirror", "drift"}
    BY <1>3 DEF Answer, Mirror, Drift, Unanswered
  <2>5. Unread' = Unread
    BY DEF Unread
  <2>6. base' # Unread /\ base' \in 0..Len(bus) /\ first' <= base' /\ first # Unread
    BY <1>0, <2>1 DEF SessionInv, SessionOK, ReadsSinceFirst
  <2>7. SessionOK'
    BY <2>1, <2>2, <2>3, <2>5, <2>6 DEF SessionInv, SessionOK
  <2>8. ReadsSinceFirst'
    BY <2>1, <2>2, <2>5, <2>6 DEF SessionInv, ReadsSinceFirst
  <2>9. OneAtATime'
    BY <1>0, <2>1, <2>2, <2>5, <2>6 DEF SessionInv, OneAtATime, ReadsSinceFirst
  <2>. QED  BY <2>7, <2>8, <2>9 DEF SessionInv
<1>4. ASSUME NEW c \in Callers, CollectFails(c)
      PROVE  SessionInv'
  <2>1. /\ UNCHANGED <<bus, base, read, first, crossed>> /\ answer' = Unanswered
        /\ calls' \in 0..MaxCalls
    BY <1>4 DEF CollectFails, Start, SessionInv, SessionOK
  <2>. QED
    BY <2>1 DEF SessionInv, SessionOK, ReadsSinceFirst, OneAtATime, Unread, Unanswered
<1>5. CASE UNCHANGED sessionVars
  BY <1>5 DEF sessionVars, SessionInv, SessionOK, ReadsSinceFirst, OneAtATime, Unread
<1>. QED  BY <1>1, <1>2, <1>3, <1>4, <1>5 DEF SessionNext

LEMMA SessionAlways == SessionSpec => []SessionInv
<1>1. SessionInit => SessionInv
  BY SessionStarts
<1>2. SessionInv /\ [SessionNext]_sessionVars => SessionInv'
  BY SessionSteps
<1>. QED  BY <1>1, <1>2, PTL DEF SessionSpec

(* While calls do not cross, the baseline is the session's first read and  *)
(* stays it (reflect.go:43-46), for any number of callers and calls; the   *)
(* session's state is well formed.                                         *)
THEOREM BaselineStays == SessionSpec => []BaselineIsFirstRead
<1>1. SessionInv => BaselineIsFirstRead
  BY DEF SessionInv, OneAtATime, BaselineIsFirstRead
<1>. QED  BY <1>1, SessionAlways, PTL

-----------------------------------------------------------------------------
(* What the tools answer.                                                  *)

(* While the bus stays, so does everything read off it.                    *)
LEMMA SameBus ==
  ASSUME bus' = bus
  PROVE  /\ \A p, n : Snapshot(p, n)' = Snapshot(p, n) /\ LastSaid(p, n)' = LastSaid(p, n)
         /\ \A n : selfModels(n)' = selfModels(n)
         /\ \A o, s, b : ModelOf(o, s, b)' = ModelOf(o, s, b)
<1>1. \A p, n : Snapshot(p, n)' = Snapshot(p, n)
  BY DEF Snapshot, Of
<1>2. \A n : selfModels(n)' = selfModels(n)
  BY <1>1 DEF selfModels
<1>3. \A o, s, b : ModelOf(o, s, b)' = ModelOf(o, s, b)
  BY <1>1, <1>2 DEF ModelOf
<1>4. \A p, n : LastSaid(p, n)' = LastSaid(p, n)
  BY <1>1 DEF LastSaid
<1>. QED  BY <1>1, <1>2, <1>3, <1>4

(* What a person has published is a sequence of atoms.                     *)
LEMMA SnapshotTyped ==
  ASSUME bus \in Seq(Envelope), NEW p, NEW n \in 0..Len(bus)
  PROVE  Snapshot(p, n) \in Seq(Atom)
<1>1. CASE Of(p, n) = {}
  BY <1>1 DEF Snapshot
<1>2. CASE Of(p, n) # {}
  <2>1. Of(p, n) \in SUBSET (1..n) /\ n \in Nat /\ Len(bus) \in Nat
    BY DEF Of
  <2>2. \E i \in Of(p, n) : \A j \in Of(p, n) : j <= i
    BY <1>2, <2>1, Greatest
  <2>3. PICK i \in Of(p, n) : i = CHOOSE k \in Of(p, n) : \A j \in Of(p, n) : j <= k
    BY <2>2
  <2>4. i \in 1..Len(bus)
    BY <2>1
  <2>5. bus[i] \in Envelope
    BY <2>4
  <2>6. bus[i].atoms \in Batches
    BY <2>5 DEF Envelope
  <2>7. Snapshot(p, n) = bus[i].atoms
    BY <1>2, <2>3 DEF Snapshot
  <2>. QED  BY <2>6, <2>7, BatchesAreSeqs
<1>. QED  BY <1>1, <1>2

(* What a model seeded with the atoms m holds: everything last said there, *)
(* and nothing else.                                                       *)
Words(m) == {Latest(m, k) : k \in Held(m)}
Seeded(cur) == absorb(<<>>, EmitDelta(<<>>, cur))

LEMMA WordsOf ==
  ASSUME NEW s \in Seq(Atom), Distinct(s)
  PROVE  Said(s) = Words(s)
<1>1. \A a \in Said(s) : a \in Words(s)
  BY LatestOf DEF Words
<1>2. \A a \in Words(s) : a \in Said(s)
  BY LatestIs DEF Words
<1>. QED  BY <1>1, <1>2

LEMMA CanonicalWords ==
  ASSUME NEW s \in Seq(Atom)
  PROVE  Said(Canonical(s)) = Words(s)
<1>1. /\ Canonical(s) \in Seq(Atom) /\ Distinct(Canonical(s)) /\ Held(Canonical(s)) = Held(s)
      /\ \A k \in Held(s) : Latest(Canonical(s), k) = Latest(s, k)
  BY CanonicalIs
<1>2. Said(Canonical(s)) = Words(Canonical(s))
  BY <1>1, WordsOf
<1>. QED  BY <1>1, <1>2 DEF Words

LEMMA SeededSays ==
  ASSUME NEW cur \in Seq(Atom)
  PROVE  /\ Seeded(cur) \in Seq(Atom)
         /\ Distinct(Seeded(cur))
         /\ Held(Seeded(cur)) = Held(cur)
         /\ \A k \in Held(cur) : Latest(Seeded(cur), k) = Latest(cur, k)
         /\ Said(Seeded(cur)) = Words(cur)
         /\ Said(Canonical(Seeded(cur))) = Words(cur)
<1>. DEFINE e == EmitDelta(<<>>, cur)
            r == absorb(<<>>, e)
<1>1. e \in Seq(Atom) /\ Distinct(e) /\ Held(e) = News(<<>>, cur)
      /\ \A k \in Held(e) : Latest(e, k) = Latest(cur, k)
  BY EmptyHolds, EmitDeltaIs
<1>2. Held(e) = Held(cur)
  BY <1>1, EmptyHolds DEF News
<1>. HIDE DEF e
<1>3. /\ r \in Seq(Atom)
      /\ Distinct(r)
      /\ Held(r) = {} \cup Held(e)
      /\ \A k \in Held(r) : Latest(r, k) = IF k \in Held(e) THEN Latest(e, k) ELSE Latest(<<>>, k)
  BY <1>1, EmptyHolds, AbsorbIs
<1>4. Seeded(cur) = r
  BY DEF Seeded, e
<1>. HIDE DEF r
<1>5. Held(r) = Held(cur) /\ \A k \in Held(cur) : Latest(r, k) = Latest(cur, k)
  BY <1>1, <1>2, <1>3
<1>6. Words(r) = Words(cur)
  BY <1>5 DEF Words
<1>. QED  BY <1>3, <1>4, <1>5, <1>6, WordsOf, CanonicalWords


LEMMA SameAtom ==
  ASSUME NEW a \in Atom, NEW c \in Atom, beliefKey(a) = beliefKey(c), a.content = c.content
  PROVE  a = c
<1>1. a.typ = c.typ /\ a.subject = c.subject
  BY DEF beliefKey
<1>2. /\ a = [typ |-> a.typ, subject |-> a.subject, content |-> a.content]
      /\ c = [typ |-> c.typ, subject |-> c.subject, content |-> c.content]
  BY DEF Atom
<1>. QED  BY <1>1, <1>2

(* What the stale-belief detector finds among the beliefs m: each belief   *)
(* whose subject no longer says it, with the one way it is stale.          *)
LEMMA StaleIs ==
  ASSUME NEW m \in Seq(Atom), NEW cur \in Seq(Atom)
  PROVE  \A d : d \in StaleBeliefs(m, cur) <=>
           \E x \in Words(m) :
             \/ beliefKey(x) \notin Held(cur) /\ d = [believed |-> x, kind |-> "dropped"]
             \/ /\ beliefKey(x) \in Held(cur) /\ x \notin Words(cur)
                /\ d = [believed |-> x, kind |-> "drifted"]
<1>1. /\ Canonical(cur) \in Seq(Atom) /\ Held(Canonical(cur)) = Held(cur)
      /\ Said(Canonical(cur)) = Words(cur) /\ Said(Canonical(m)) = Words(m)
  BY CanonicalIs, CanonicalWords
<1>2. StaleBeliefs(m, cur) =
             {[believed |-> b, kind |-> "dropped"] :
                 b \in {x \in Words(m) : beliefKey(x) \notin Held(cur)}}
        \cup {[believed |-> b, kind |-> "drifted"] :
                 b \in {x \in Words(m) : \E c \in Words(cur) :
                           beliefKey(c) = beliefKey(x) /\ ~sameBelief(c, x)}}
  BY <1>1 DEF StaleBeliefs, StaleAmong
<1>3. ASSUME NEW x \in Words(m)
      PROVE  (\E c \in Words(cur) : beliefKey(c) = beliefKey(x) /\ ~sameBelief(c, x))
               <=> beliefKey(x) \in Held(cur) /\ x \notin Words(cur)
  <2>1. x \in Atom
    BY <1>3, LatestIs DEF Words
  <2>2. \A c \in Words(cur) : c \in Atom /\ beliefKey(c) \in Held(cur)
                              /\ c = Latest(cur, beliefKey(c))
    BY LatestIs DEF Words
  <2>3. \A c \in Words(cur) : beliefKey(c) = beliefKey(x) /\ sameBelief(c, x) => c = x
    BY <2>1, <2>2, SameAtom DEF sameBelief
  <2>4. ASSUME NEW c \in Words(cur), beliefKey(c) = beliefKey(x), ~sameBelief(c, x)
        PROVE  beliefKey(x) \in Held(cur) /\ x \notin Words(cur)
    <3>1. x \in Words(cur) => x = c
      BY <2>2, <2>4
    <3>. QED  BY <2>2, <2>4, <3>1 DEF sameBelief
  <2>5. ASSUME beliefKey(x) \in Held(cur), x \notin Words(cur)
        PROVE  \E c \in Words(cur) : beliefKey(c) = beliefKey(x) /\ ~sameBelief(c, x)
    <3>1. Latest(cur, beliefKey(x)) \in Words(cur)
          /\ beliefKey(Latest(cur, beliefKey(x))) = beliefKey(x)
      BY <2>5, LatestIs DEF Words
    <3>. QED  BY <2>3, <2>5, <3>1
  <2>. QED  BY <2>4, <2>5
<1>. QED  BY <1>2, <1>3

(* What MirrorSaysWhatChanged says of one answer.                          *)
MirrorRight(a) ==
  /\ {x[1] : x \in a.says} \in {{}, LastSaid(a.me, a.base)}
  /\ a.asPublished =>
       \A x \in a.says :
         x[2] = IF x[1] \in LastSaid(a.me, a.at) THEN "current"
                ELSE IF beliefKey(x[1]) \in Held(Snapshot(a.me, a.at)) THEN "drifted"
                ELSE "dropped"

LEMMA MirrorIsRight ==
  ASSUME bus \in Seq(Envelope), NEW me \in People, NEW exact \in BOOLEAN,
         NEW b \in 0..Len(bus), NEW n \in 0..Len(bus)
  PROVE  MirrorRight(Mirror(me, exact, b, n))
<1>. DEFINE was == Snapshot(me, b)
            now == Snapshot(me, n)
            current == IF exact THEN now ELSE <<>>
            observers == {o \in selfModels(n) \ {me} : ModelOf(o, me, b) # <<>>}
            believed == UNION {Said(Canonical(ModelOf(o, me, b))) : o \in observers}
            stale == UNION {StaleBeliefs(ModelOf(o, me, b), current) : o \in observers}
            Mark(x) == IF \E d \in stale : d.believed = x
                       THEN (CHOOSE d \in stale : d.believed = x).kind ELSE "current"
            a == Mirror(me, exact, b, n)
<1>1. was \in Seq(Atom) /\ now \in Seq(Atom) /\ current \in Seq(Atom)
  BY SnapshotTyped, EmptyHolds
<1>2. \A o \in observers : ModelOf(o, me, b) = Seeded(was)
  BY DEF ModelOf, Seeded
<1>3. /\ a.me = me /\ a.asPublished = exact /\ a.base = b /\ a.at = n
      /\ a.says = {<<x, Mark(x)>> : x \in believed}
  BY DEF Mirror
<1>. HIDE DEF a, observers
<1>4. Said(Canonical(Seeded(was))) = Words(was) /\ Words(Seeded(was)) = Words(was)
      /\ Seeded(was) \in Seq(Atom)
  <2>. HIDE DEF was
  <2>. QED  BY <1>1, SeededSays DEF Words
<1>5. believed = {} \/ (observers # {} /\ believed = Words(was))
  BY <1>2, <1>4
<1>6. observers # {} => stale = StaleBeliefs(Seeded(was), current)
  BY <1>2
<1>7. LastSaid(me, b) = Words(was) /\ LastSaid(me, n) = Words(now)
  BY DEF LastSaid, Words
<1>. HIDE DEF believed, stale
<1>8. {x[1] : x \in a.says} = believed
  <2>. HIDE DEF Mark
  <2>1. \A x \in a.says : x[1] \in believed
    BY <1>3
  <2>2. ASSUME NEW y \in believed PROVE \E x \in a.says : x[1] = y
    <3>1. <<y, Mark(y)>> \in a.says
      BY <1>3
    <3>. QED  BY <3>1
  <2>. QED  BY <2>1, <2>2
<1>9. ASSUME exact, NEW x \in believed
      PROVE  Mark(x) = IF x \in Words(now) THEN "current"
                       ELSE IF beliefKey(x) \in Held(now) THEN "drifted" ELSE "dropped"
  <2>1. x \in Words(was) /\ current = now /\ stale = StaleBeliefs(Seeded(was), now)
    BY <1>5, <1>6, <1>9
  <2>2. \A d : d \in stale <=>
           \E y \in Words(was) :
             \/ beliefKey(y) \notin Held(now) /\ d = [believed |-> y, kind |-> "dropped"]
             \/ /\ beliefKey(y) \in Held(now) /\ y \notin Words(now)
                /\ d = [believed |-> y, kind |-> "drifted"]
    <3>. HIDE DEF was, now
    <3>. QED  BY <1>1, <1>4, <2>1, StaleIs
  <2>3. x \in Words(now) => beliefKey(x) \in Held(now)
    <3>. HIDE DEF now
    <3>. QED  BY <1>1, LatestIs DEF Words
  <2>. HIDE DEF was, now
  <2>4. CASE x \in Words(now)
    <3>1. ~\E d \in stale : d.believed = x
      BY <2>2, <2>3, <2>4
    <3>. QED  BY <2>4, <3>1
  <2>5. CASE x \notin Words(now)
    <3>. DEFINE kind == IF beliefKey(x) \in Held(now) THEN "drifted" ELSE "dropped"
    <3>1. [believed |-> x, kind |-> kind] \in stale
      BY <2>1, <2>2, <2>5
    <3>2. \A d \in stale : d.believed = x => d.kind = kind
      BY <2>2
    <3>. HIDE DEF kind
    <3>3. Mark(x) = kind
      BY <3>1, <3>2
    <3>. QED  BY <2>5, <3>3 DEF kind
  <2>. QED  BY <2>4, <2>5
<1>10. \A x \in a.says : x[1] \in believed /\ x[2] = Mark(x[1])
  <2>. HIDE DEF Mark
  <2>. QED  BY <1>3
<1>. HIDE DEF Mark
<1>11. MirrorRight(a)
  BY <1>3, <1>5, <1>7, <1>8, <1>9, <1>10 DEF MirrorRight
<1>. QED  BY <1>11 DEF a

(* What DriftRoutesTheSurprise says of one answer and one subject.         *)
DriftRight(a, s) ==
  LET Knows(o) == Said(ModelOf(o, s, a.base))
      Routed == IF s \in DOMAIN a.deltas THEN a.deltas[s].routed ELSE {}
  IN /\ \A o \in selfModels(a.at) \ ({s} \cup Routed) : LastSaid(s, a.at) \subseteq Knows(o)
     /\ s \in DOMAIN a.deltas =>
          /\ a.deltas[s].atoms \subseteq LastSaid(s, a.at)
          /\ \A o \in Routed : LastSaid(s, a.at) \subseteq Knows(o) \cup a.deltas[s].atoms
          /\ \A x \in a.deltas[s].atoms : \E o \in Routed : x \notin Knows(o)

(* A delta, what was known and what is said now: nothing said now is lost, *)
(* and nothing sent was known.                                             *)
LEMMA DeltaCovers ==
  ASSUME NEW m \in Seq(Atom), Distinct(m), NEW cur \in Seq(Atom)
  PROVE  LET e == EmitDelta(m, cur)
         IN /\ Said(e) \subseteq Words(cur)
            /\ Words(cur) \subseteq Said(m) \cup Said(e)
            /\ \A x \in Said(e) : x \notin Said(m)
            /\ e = <<>> => Words(cur) \subseteq Said(m)
<1>. DEFINE e == EmitDelta(m, cur)
<1>1. e \in Seq(Atom) /\ Distinct(e) /\ Held(e) = News(m, cur)
      /\ \A k \in Held(e) : Latest(e, k) = Latest(cur, k)
  BY EmitDeltaIs
<1>. HIDE DEF e
<1>2. Said(e) = Words(e) /\ Said(m) = Words(m)
  BY <1>1, WordsOf
<1>3. \A k \in News(m, cur) : k \in Held(cur)
  BY DEF News
<1>4. Said(e) = {Latest(cur, k) : k \in News(m, cur)}
  BY <1>1, <1>2 DEF Words
<1>5. Said(e) \subseteq Words(cur)
  BY <1>3, <1>4 DEF Words
<1>6. \A k \in Held(cur) : k \notin News(m, cur) => Latest(cur, k) \in Said(m)
  <2>1. SUFFICES ASSUME NEW k \in Held(cur), k \notin News(m, cur)
                 PROVE  Latest(cur, k) \in Said(m)
    OBVIOUS
  <2>2. k \in Held(m) /\ Latest(m, k).content = Latest(cur, k).content
    BY <2>1 DEF News
  <2>3. Latest(m, k) \in Atom /\ Latest(cur, k) \in Atom /\ Latest(m, k) \in Said(m)
        /\ beliefKey(Latest(m, k)) = k /\ beliefKey(Latest(cur, k)) = k
    BY <2>1, <2>2, LatestIs
  <2>. QED  BY <2>2, <2>3, SameAtom
<1>7. Words(cur) \subseteq Said(m) \cup Said(e)
  BY <1>4, <1>6 DEF Words
<1>8. ASSUME NEW k \in News(m, cur) PROVE Latest(cur, k) \notin Said(m)
  <2>1. SUFFICES ASSUME Latest(cur, k) \in Said(m) PROVE FALSE
    OBVIOUS
  <2>2. beliefKey(Latest(cur, k)) = k
    BY <1>3, LatestIs
  <2>3. k \in Held(m) /\ Latest(m, k) = Latest(cur, k)
    BY <2>1, <2>2, LatestOf
  <2>. QED  BY <2>3 DEF News
<1>9. e = <<>> => Said(e) = {}
  BY DEF Said
<1>. QED  BY <1>4, <1>5, <1>7, <1>8, <1>9 DEF e

LEMMA ModelTyped ==
  ASSUME bus \in Seq(Envelope), NEW o, NEW s, NEW b \in 0..Len(bus)
  PROVE  ModelOf(o, s, b) \in Seq(Atom) /\ Distinct(ModelOf(o, s, b))
<1>1. Snapshot(s, b) \in Seq(Atom)
  BY SnapshotTyped
<1>2. Seeded(Snapshot(s, b)) \in Seq(Atom) /\ Distinct(Seeded(Snapshot(s, b)))
  BY <1>1, SeededSays
<1>. QED  BY <1>2, EmptyHolds DEF ModelOf, Seeded

LEMMA DriftIsRight ==
  ASSUME bus \in Seq(Envelope), NEW b \in 0..Len(bus), NEW n \in 0..Len(bus),
         NEW s \in selfModels(n)
  PROVE  DriftRight(Drift(b, n), s)
<1>. DEFINE a == Drift(b, n)
            stale(x) == {o \in selfModels(n) \ {x} : Surprise(o, x, b, n) # <<>>}
            sent == UNION {Said(Surprise(o, s, b, n)) : o \in stale(s)}
            Routed == IF s \in DOMAIN a.deltas THEN a.deltas[s].routed ELSE {}
            now == Snapshot(s, n)
<1>1. /\ a.base = b /\ a.at = n
      /\ s \in DOMAIN a.deltas <=> stale(s) # {}
      /\ s \in DOMAIN a.deltas => a.deltas[s].routed = stale(s) /\ a.deltas[s].atoms = sent
  BY DEF Drift
<1>. HIDE DEF a
<1>2. now \in Seq(Atom)
  BY SnapshotTyped
<1>3. LastSaid(s, n) = Words(now)
  BY DEF LastSaid, Words
<1>4. \A o : /\ Said(Surprise(o, s, b, n)) \subseteq Words(now)
             /\ Words(now) \subseteq Said(ModelOf(o, s, b)) \cup Said(Surprise(o, s, b, n))
             /\ \A x \in Said(Surprise(o, s, b, n)) : x \notin Said(ModelOf(o, s, b))
             /\ Surprise(o, s, b, n) = <<>> => Words(now) \subseteq Said(ModelOf(o, s, b))
  <2>1. SUFFICES ASSUME NEW o
                 PROVE  /\ Said(Surprise(o, s, b, n)) \subseteq Words(now)
                        /\ Words(now) \subseteq Said(ModelOf(o, s, b)) \cup Said(Surprise(o, s, b, n))
                        /\ \A x \in Said(Surprise(o, s, b, n)) : x \notin Said(ModelOf(o, s, b))
                        /\ Surprise(o, s, b, n) = <<>> => Words(now) \subseteq Said(ModelOf(o, s, b))
    OBVIOUS
  <2>2. ModelOf(o, s, b) \in Seq(Atom) /\ Distinct(ModelOf(o, s, b))
    BY ModelTyped
  <2>. HIDE DEF now
  <2>3. Surprise(o, s, b, n) = EmitDelta(ModelOf(o, s, b), now)
    BY DEF Surprise, now
  <2>. QED  BY <1>2, <2>2, <2>3, DeltaCovers
<1>5. Routed = stale(s)
  BY <1>1
<1>. HIDE DEF now
<1>6. \A o \in selfModels(n) \ ({s} \cup Routed) : Words(now) \subseteq Said(ModelOf(o, s, b))
  BY <1>4, <1>5
<1>7. sent \subseteq Words(now)
  BY <1>4
<1>8. \A o \in stale(s) : Words(now) \subseteq Said(ModelOf(o, s, b)) \cup sent
  BY <1>4
<1>9. \A x \in sent : \E o \in stale(s) : x \notin Said(ModelOf(o, s, b))
  BY <1>4
<1>. HIDE DEF sent, stale
<1>10. DriftRight(a, s)
  BY <1>1, <1>3, <1>5, <1>6, <1>7, <1>8, <1>9 DEF DriftRight
<1>. QED  BY <1>10 DEF a

(* An answer holds of the bus it was read off, and goes when the bus does. *)
AnswersInv == SessionInv /\ MirrorSaysWhatChanged /\ DriftRoutesTheSurprise

LEMMA UnansweredIsRight ==
  ASSUME answer = Unanswered
  PROVE  MirrorSaysWhatChanged /\ DriftRoutesTheSurprise
  BY DEF Answers, Unanswered, MirrorSaysWhatChanged, DriftRoutesTheSurprise

LEMMA SameRight ==
  ASSUME bus' = bus
  PROVE  /\ \A a : MirrorRight(a) => MirrorRight(a)'
         /\ \A a, s : DriftRight(a, s) => DriftRight(a, s)'
         /\ \A n : selfModels(n)' = selfModels(n)
<1>1. /\ \A p, n : Snapshot(p, n)' = Snapshot(p, n) /\ LastSaid(p, n)' = LastSaid(p, n)
      /\ \A n : selfModels(n)' = selfModels(n)
      /\ \A o, s, b : ModelOf(o, s, b)' = ModelOf(o, s, b)
  BY SameBus
<1>2. ASSUME NEW a, MirrorRight(a) PROVE MirrorRight(a)'
  BY <1>1, <1>2 DEF MirrorRight
<1>3. ASSUME NEW a, NEW s, DriftRight(a, s) PROVE DriftRight(a, s)'
  BY <1>1, <1>3 DEF DriftRight
<1>. QED  BY <1>1, <1>2, <1>3

LEMMA AnswersRead ==
  /\ MirrorSaysWhatChanged <=> \A a \in Answers("mirror") : MirrorRight(a)
  /\ DriftRoutesTheSurprise <=>
       \A a \in Answers("drift") : \A s \in selfModels(a.at) : DriftRight(a, s)
<1>1. MirrorSaysWhatChanged <=> \A a \in Answers("mirror") : MirrorRight(a)
  BY DEF MirrorSaysWhatChanged, MirrorRight
<1>2. DriftRoutesTheSurprise <=>
        \A a \in Answers("drift") : \A s \in selfModels(a.at) : DriftRight(a, s)
  BY DEF DriftRoutesTheSurprise, DriftRight
<1>. QED  BY <1>1, <1>2

LEMMA AnswersStep == AnswersInv /\ [SessionNext]_sessionVars => AnswersInv'
<1>. SUFFICES ASSUME AnswersInv, [SessionNext]_sessionVars PROVE AnswersInv'
  OBVIOUS
<1>0. SessionInv' /\ SessionInv /\ bus \in Seq(Envelope) /\ Len(bus) < Unread
  BY SessionSteps, ReflectAssumption DEF AnswersInv, SessionInv, SessionOK, Unread
<1>1. ASSUME answer' = Unanswered
      PROVE  (MirrorSaysWhatChanged /\ DriftRoutesTheSurprise)'
  BY <1>1 DEF Answers, Unanswered, MirrorSaysWhatChanged, DriftRoutesTheSurprise
<1>2. ASSUME bus' = bus,
             \A a : a = answer' => /\ a.tool = "mirror" => MirrorRight(a)
                                   /\ a.tool = "drift" => \A s \in selfModels(a.at) : DriftRight(a, s)
      PROVE  (MirrorSaysWhatChanged /\ DriftRoutesTheSurprise)'
  <2>1. \A a \in Answers("mirror")' : MirrorRight(a)'
    BY <1>2, SameRight DEF Answers
  <2>2. \A a \in Answers("drift")' : \A s \in selfModels(a.at)' : DriftRight(a, s)'
    BY <1>2, SameRight DEF Answers
  <2>3. MirrorSaysWhatChanged'
    BY <2>1 DEF MirrorSaysWhatChanged, MirrorRight
  <2>4. DriftRoutesTheSurprise'
    BY <2>2 DEF DriftRoutesTheSurprise, DriftRight
  <2>. QED  BY <2>3, <2>4
<1>3. ASSUME NEW c \in Callers, Answer(c)
      PROVE  (MirrorSaysWhatChanged /\ DriftRoutesTheSurprise)'
  <2>. DEFINE b == Remembered(c)
              n == read[c]
  <2>1. bus' = bus /\ n # Unread /\ b \in 0..Len(bus) /\ n \in 0..Len(bus)
    BY <1>0, <1>3 DEF Answer, Remembered, SessionInv, SessionOK
  <2>2. \/ \E me \in People, exact \in BOOLEAN : answer' = Mirror(me, exact, b, n)
        \/ answer' = Drift(b, n)
        \/ answer' = Unanswered
    BY <1>3 DEF Answer
  <2>. HIDE DEF b, n
  <2>3. ASSUME NEW me \in People, NEW exact \in BOOLEAN, answer' = Mirror(me, exact, b, n)
        PROVE  (MirrorSaysWhatChanged /\ DriftRoutesTheSurprise)'
    <3>1. MirrorRight(Mirror(me, exact, b, n))
      BY <1>0, <2>1, MirrorIsRight
    <3>2. Mirror(me, exact, b, n).tool = "mirror"
      BY DEF Mirror
    <3>. QED  BY <1>2, <2>1, <2>3, <3>1, <3>2
  <2>4. ASSUME answer' = Drift(b, n)
        PROVE  (MirrorSaysWhatChanged /\ DriftRoutesTheSurprise)'
    <3>1. Drift(b, n).tool = "drift" /\ Drift(b, n).at = n
      BY DEF Drift
    <3>2. \A s \in selfModels(n) : DriftRight(Drift(b, n), s)
      BY <1>0, <2>1, DriftIsRight
    <3>. QED  BY <1>2, <2>1, <2>4, <3>1, <3>2
  <2>. QED  BY <1>1, <2>2, <2>3, <2>4
<1>4. ASSUME UNCHANGED sessionVars
      PROVE  (MirrorSaysWhatChanged /\ DriftRoutesTheSurprise)'
  <2>1. bus' = bus /\ answer' = answer
    BY <1>4 DEF sessionVars
  <2>2. /\ \A a \in Answers("mirror") : MirrorRight(a)
        /\ \A a \in Answers("drift") : \A s \in selfModels(a.at) : DriftRight(a, s)
    BY AnswersRead DEF AnswersInv
  <2>. QED  BY <1>2, <2>1, <2>2 DEF Answers
<1>5. (MirrorSaysWhatChanged /\ DriftRoutesTheSurprise)'
  <2>1. ASSUME NEW e \in Envelope, Publish(e) PROVE answer' = Unanswered
    BY <2>1 DEF Publish
  <2>2. ASSUME NEW c \in Callers, Collect(c) \/ CollectFails(c) PROVE answer' = Unanswered
    BY <2>2 DEF Collect, CollectFails, Start
  <2>. QED  BY <1>1, <1>3, <1>4, <2>1, <2>2 DEF SessionNext
<1>. QED  BY <1>0, <1>5 DEF AnswersInv

LEMMA AnswersAlways == SessionSpec => []AnswersInv
<1>1. SessionInit => AnswersInv
  BY SessionStarts, UnansweredIsRight DEF SessionInit, AnswersInv
<1>2. AnswersInv /\ [SessionNext]_sessionVars => AnswersInv'
  BY AnswersStep
<1>. QED  BY <1>1, <1>2, PTL DEF SessionSpec

(* The mirror's beliefs are exactly what the person last said in the       *)
(* baseline, or none when nobody holds them; each is unmarked, drifted or  *)
(* dropped as the person says the same, says otherwise or no longer speaks *)
(* of it (reflect.go:89-95, 134-177): for any people, envelopes and calls, *)
(* which may cross.                                                        *)
THEOREM MirrorMarksWhatChanged == SessionSpec => []MirrorSaysWhatChanged
<1>1. AnswersInv => MirrorSaysWhatChanged
  BY DEF AnswersInv
<1>. QED  BY <1>1, AnswersAlways, PTL

(* Drift routes a changed subject to exactly those who lack something of   *)
(* what it now says, and lists nothing that all of them know               *)
(* (reflect.go:208-211).                                                   *)
THEOREM DriftReachesWhoLacksIt == SessionSpec => []DriftRoutesTheSurprise
<1>1. AnswersInv => DriftRoutesTheSurprise
  BY DEF AnswersInv
<1>. QED  BY <1>1, AnswersAlways, PTL
=============================================================================
