---------------------------- MODULE ReviewProofs ----------------------------
(***************************************************************************)
(* Theorems about a review and its client, for every set of cards, words   *)
(* and sources and every bound.                                            *)
(*                                                                         *)
(* First what the lists, the records and the answers are: every list has   *)
(* one version, every answer is of the list it names (Shapes, RowsInv).    *)
(* Then the order as a set: how a step's changes place, move and take the  *)
(* cards that the client is told of, over a death between the two files    *)
(* (Kept).  Then the order as an order (Bounded).  Last what the client    *)
(* knows of the cards: an answer brings what changed since the revision it *)
(* was asked with, of the rows served, so answers that pass each other     *)
(* leave no gap (CardsInv).                                                *)
(***************************************************************************)
EXTENDS Review, Integers, FiniteSetTheorems, FunctionTheorems, WellFoundedInduction, TLAPS

-----------------------------------------------------------------------------
(* Greatest and least members.                                             *)

(* A non-empty finite set of naturals has a greatest member: of the sets   *)
(* "what lies above n", one has no smaller one beside it, and it is empty. *)
LEMMA MaxExists ==
  ASSUME NEW S \in SUBSET Nat, IsFiniteSet(S), S # {}
  PROVE  \E m \in S : \A k \in S : k <= m
<1> DEFINE Above(n) == {k \in S : k > n}
           Aboves == {Above(n) : n \in S}
<1>1. Aboves \subseteq FiniteSubsetsOf(S) /\ Aboves # {}
  <2>1. ASSUME NEW n \in S PROVE Above(n) \in FiniteSubsetsOf(S)
    <3>1. Above(n) \in SUBSET S
      OBVIOUS
    <3>2. IsFiniteSet(Above(n))
      BY <3>1, FS_Subset
    <3> QED BY <3>1, <3>2 DEF FiniteSubsetsOf
  <2> HIDE DEF Above
  <2> QED BY <2>1
<1>2. PICK U \in Aboves : \A V \in Aboves : <<V, U>> \notin StrictSubsetOrdering(S)
  <2> HIDE DEF Aboves
  <2> QED BY <1>1, FS_StrictSubsetOrderingWellFounded, WFMin
<1>3. PICK m \in S : U = Above(m)
  <2> HIDE DEF Above
  <2> QED OBVIOUS
<1>4. ASSUME NEW k \in S, k > m PROVE FALSE
  <2>0. k \in Nat /\ m \in Nat /\ S \subseteq Nat
    OBVIOUS
  <2>1. \A j \in Nat : j > k => j > m
    BY <2>0, <1>4
  <2>2. Above(k) \subseteq Above(m)
    BY <2>0, <2>1
  <2>3. k \in Above(m) /\ k \notin Above(k)
    BY <1>4, <2>0
  <2>4. <<Above(k), Above(m)>> \in StrictSubsetOrdering(S)
    <3>1. Above(k) \in SUBSET S /\ Above(m) \in SUBSET S
      OBVIOUS
    <3> HIDE DEF Above
    <3> QED BY <2>2, <2>3, <3>1 DEF StrictSubsetOrdering
  <2>5. Above(k) \in Aboves
    OBVIOUS
  <2> HIDE DEF Above, Aboves
  <2> QED BY <2>4, <2>5, <1>2, <1>3
<1>5. \A k \in S : ~(k > m)
  BY <1>4
<1> QED BY <1>5

(* A non-empty finite set of naturals has a least member: its mirror image *)
(* below its greatest member has a greatest one.                           *)
LEMMA MinExists ==
  ASSUME NEW S \in SUBSET Nat, IsFiniteSet(S), S # {}
  PROVE  \E m \in S : \A k \in S : m <= k
<1>1. PICK top \in S : \A k \in S : k <= top
  BY MaxExists
<1> DEFINE Mirror == {n \in 0 .. top : top - n \in S}
<1>2. Mirror \in SUBSET Nat /\ IsFiniteSet(Mirror)
  <2>1. IsFiniteSet(0 .. top)
    BY FS_Interval
  <2> QED BY <2>1, FS_Subset
<1>3. \A k \in S : top - k \in Mirror /\ top - (top - k) = k
  BY <1>1
<1>4. PICK n \in Mirror : \A j \in Mirror : j <= n
  <2>1. Mirror # {}
    BY <1>3
  <2> HIDE DEF Mirror
  <2> QED BY <1>2, <2>1, MaxExists
<1>5. \A k \in S : top - n <= k
  BY <1>3, <1>4, <1>1
<1> QED BY <1>4, <1>5

-----------------------------------------------------------------------------
(* The line.                                                               *)

(* What says of finitely many things which are ahead of which, as a strict *)
(* total order does.                                                       *)
IsLine(ahead) ==
    /\ IsFiniteSet(DOMAIN ahead)
    /\ \A x \in DOMAIN ahead : ahead[x] \subseteq DOMAIN ahead /\ x \notin ahead[x]
    /\ \A x, y \in DOMAIN ahead : x \in ahead[y] => ahead[x] \subseteq ahead[y]
    /\ \A x, y \in DOMAIN ahead : x = y \/ x \in ahead[y] \/ y \in ahead[x]

(* How many are ahead of a thing tells its place: fewer than there are,    *)
(* and fewer than are ahead of whatever it is ahead of.                    *)
LEMMA FewerAhead ==
  ASSUME NEW ahead, IsLine(ahead)
  PROVE  /\ \A x \in DOMAIN ahead :
              /\ IsFiniteSet(ahead[x])
              /\ Cardinality(ahead[x]) \in Nat
              /\ Cardinality(ahead[x]) < Cardinality(DOMAIN ahead)
         /\ \A x, y \in DOMAIN ahead :
              x \in ahead[y] => Cardinality(ahead[x]) < Cardinality(ahead[y])
         /\ Cardinality(DOMAIN ahead) \in Nat
<1> DEFINE S == DOMAIN ahead
<1>1. ASSUME NEW A \in SUBSET S, NEW B \in SUBSET S, NEW x \in B, x \notin A, A \subseteq B
      PROVE  Cardinality(A) \in Nat /\ Cardinality(B) \in Nat /\ Cardinality(A) < Cardinality(B)
  <2>0. IsFiniteSet(S)
    BY DEF IsLine
  <2>1. IsFiniteSet(A) /\ IsFiniteSet(B)
    BY <2>0, FS_Subset, Zenon
  <2>2. Cardinality(A) \in Nat /\ Cardinality(B) \in Nat
    BY <2>1, FS_CardinalityType
  <2>3. Cardinality(A) <= Cardinality(B) /\ (Cardinality(B) = Cardinality(A) => B = A)
    BY <2>1, <1>1, FS_Subset
  <2> QED BY <2>2, <2>3, <1>1
<1>2. ASSUME NEW x \in S
      PROVE  /\ IsFiniteSet(ahead[x]) /\ Cardinality(ahead[x]) \in Nat
             /\ Cardinality(ahead[x]) < Cardinality(S)
  <2>1. ahead[x] \in SUBSET S /\ x \notin ahead[x] /\ IsFiniteSet(S) /\ S \in SUBSET S
    BY DEF IsLine
  <2> QED BY <2>1, <1>1, FS_Subset
<1>3. ASSUME NEW x \in S, NEW y \in S, x \in ahead[y]
      PROVE  Cardinality(ahead[x]) < Cardinality(ahead[y])
  <2>1. ahead[x] \in SUBSET S /\ ahead[y] \in SUBSET S /\ x \notin ahead[x]
        /\ ahead[x] \subseteq ahead[y]
    BY <1>3 DEF IsLine
  <2> QED BY <2>1, <1>1, <1>3
<1>4. Cardinality(S) \in Nat
  BY FS_CardinalityType DEF IsLine
<1> QED BY <1>2, <1>3, <1>4

(* Every place is somebody's: as many are ahead of one as there are places *)
(* before it.                                                              *)
LEMMA EveryPlaceTaken ==
  ASSUME NEW ahead, IsLine(ahead), NEW n \in 1 .. Cardinality(DOMAIN ahead)
  PROVE  \E x \in DOMAIN ahead : Cardinality(ahead[x]) = n - 1
<1> DEFINE S == DOMAIN ahead
           N == Cardinality(S)
           f == [x \in S |-> Cardinality(ahead[x]) + 1]
<1>1. IsFiniteSet(S) /\ N \in Nat
  BY FewerAhead DEF IsLine
<1>2. f \in Injection(S, 1 .. N)
  <2>1. f \in [S -> 1 .. N]
    BY FewerAhead
  <2>2. ASSUME NEW x \in S, NEW y \in S, f[x] = f[y] PROVE x = y
    <3>1. Cardinality(ahead[x]) = Cardinality(ahead[y])
      BY <2>2, FewerAhead
    <3> QED BY <3>1, FewerAhead DEF IsLine
  <2> HIDE DEF f, N
  <2> QED BY <2>1, <2>2, Fun_IsInj
<1>3. IsFiniteSet(1 .. N) /\ Cardinality(1 .. N) = N
  BY <1>1, FS_Interval
<1>4. f \in Surjection(S, 1 .. N)
  <2> HIDE DEF f, N
  <2> QED BY <1>1, <1>2, <1>3, FS_Injection DEF N
<1>5. \E x \in S : f[x] = n
  <2> HIDE DEF f
  <2> QED BY <1>4 DEF Surjection
<1>6. PICK x \in S : Cardinality(ahead[x]) + 1 = n
  BY <1>5
<1> QED BY <1>6, FewerAhead

(* The line: each thing stands at the place its number of things ahead     *)
(* gives it, and what is ahead of it stands before it.                     *)
LEMMA LineUpIs ==
  ASSUME NEW ahead, IsLine(ahead)
  PROVE  LET s == LineUp(ahead)
             N == Cardinality(DOMAIN ahead)
         IN  /\ N \in Nat
             /\ s \in [1 .. N -> DOMAIN ahead]
             /\ \A n \in 1 .. N : Cardinality(ahead[s[n]]) = n - 1
             /\ \A x \in DOMAIN ahead : \E n \in 1 .. N : s[n] = x
             /\ \A m, n \in 1 .. N : s[m] \in ahead[s[n]] <=> m < n
             /\ \A m, n \in 1 .. N : s[m] = s[n] => m = n
<1> DEFINE s == LineUp(ahead)
           N == Cardinality(DOMAIN ahead)
           S == DOMAIN ahead
<1>0. N \in Nat
  BY FewerAhead
<1>1. \A n \in 1 .. N : s[n] \in S /\ Cardinality(ahead[s[n]]) = n - 1
  BY EveryPlaceTaken, Zenon DEF LineUp
<1>2. s \in [1 .. N -> S]
  BY <1>1 DEF LineUp
<1> HIDE DEF s
<1>3. ASSUME NEW x \in S PROVE \E n \in 1 .. N : s[n] = x
  <2> DEFINE n == Cardinality(ahead[x]) + 1
  <2>1. n \in 1 .. N /\ n - 1 = Cardinality(ahead[x])
    BY FewerAhead
  <2> HIDE DEF n
  <2>2. s[n] \in S /\ Cardinality(ahead[s[n]]) = Cardinality(ahead[x])
    BY <2>1, <1>1
  <2>3. s[n] = x
    BY <2>2, FewerAhead DEF IsLine
  <2> QED BY <2>1, <2>3
<1>4. ASSUME NEW m \in 1 .. N, NEW n \in 1 .. N PROVE s[m] \in ahead[s[n]] <=> m < n
  <2>1. s[m] \in S /\ s[n] \in S /\ Cardinality(ahead[s[m]]) = m - 1
        /\ Cardinality(ahead[s[n]]) = n - 1
    BY <1>1
  <2>2. s[m] \in ahead[s[n]] => m < n
    BY <2>1, <1>0, FewerAhead
  <2>3. m < n => ~(s[m] = s[n]) /\ ~(s[n] \in ahead[s[m]])
    BY <2>1, <1>0, FewerAhead
  <2> QED BY <2>1, <2>2, <2>3 DEF IsLine
<1>5. ASSUME NEW m \in 1 .. N, NEW n \in 1 .. N, s[m] = s[n] PROVE m = n
  BY <1>1, <1>5, <1>0
<1> QED BY <1>0, <1>1, <1>2, <1>3, <1>4, <1>5 DEF s

(* There is one line only: a sequence of all the things, each ahead of the *)
(* ones after it, is it.                                                   *)
LEMMA OneLine ==
  ASSUME NEW ahead, IsLine(ahead),
         NEW t \in [1 .. Cardinality(DOMAIN ahead) -> DOMAIN ahead],
         \A m, n \in 1 .. Cardinality(DOMAIN ahead) : m < n => t[m] \in ahead[t[n]]
  PROVE  t = LineUp(ahead)
<1> DEFINE S == DOMAIN ahead
           N == Cardinality(S)
<1>0. N \in Nat /\ IsFiniteSet(S)
  BY FewerAhead DEF IsLine
<1>1. ASSUME NEW m \in 1 .. N, NEW n \in 1 .. N, t[m] = t[n] PROVE m = n
  <2>1. t[m] \in S /\ t[n] \in S /\ t[m] \notin ahead[t[n]] /\ t[n] \notin ahead[t[m]]
    BY <1>1 DEF IsLine
  <2> QED BY <2>1, <1>0
<1>2. t \in Injection(1 .. N, S)
  BY <1>1, Fun_IsInj
<1>3. IsFiniteSet(1 .. N) /\ Cardinality(1 .. N) = N
  BY <1>0, FS_Interval
<1>4. t \in Surjection(1 .. N, S)
  <2> HIDE DEF N
  <2> QED BY <1>0, <1>2, <1>3, FS_Injection DEF N
<1>5. ASSUME NEW n \in 1 .. N PROVE Cardinality(ahead[t[n]]) = n - 1
  <2> DEFINE before == [i \in 1 .. n - 1 |-> t[i]]
  <2>0. 1 .. n - 1 \subseteq 1 .. N /\ n - 1 \in Nat
    BY <1>0
  <2>1. \A i \in 1 .. n - 1 : t[i] \in ahead[t[n]]
    BY <1>0, <2>0
  <2>2. ASSUME NEW y \in ahead[t[n]] PROVE \E i \in 1 .. n - 1 : t[i] = y
    <3>1. t[n] \in S /\ y \in S
      BY DEF IsLine
    <3>2. PICK j \in 1 .. N : t[j] = y
      BY <3>1, <1>4 DEF Surjection
    <3>3. j # n
      BY <3>1, <3>2 DEF IsLine
    <3>4. ~(n < j)
      <4> SUFFICES ASSUME n < j PROVE FALSE
        OBVIOUS
      <4>1. t[n] \in ahead[y]
        BY <3>2
      <4>2. ahead[y] \subseteq ahead[t[n]]
        BY <3>1 DEF IsLine
      <4> QED BY <4>1, <4>2, <3>1 DEF IsLine
    <3> QED BY <3>2, <3>3, <3>4, <1>0
  <2>3. before \in Bijection(1 .. n - 1, ahead[t[n]])
    <3>1. before \in [1 .. n - 1 -> ahead[t[n]]]
      BY <2>1
    <3>2. \A i, j \in 1 .. n - 1 : before[i] = before[j] => i = j
      BY <2>0, <1>1
    <3>3. \A y \in ahead[t[n]] : \E i \in 1 .. n - 1 : before[i] = y
      BY <2>2
    <3> HIDE DEF before
    <3>4. before \in Injection(1 .. n - 1, ahead[t[n]]) /\ before \in Surjection(1 .. n - 1, ahead[t[n]])
      BY <3>1, <3>2, <3>3, Fun_IsInj, Fun_IsSurj
    <3> QED BY <3>4 DEF Bijection
  <2>4. IsFiniteSet(1 .. n - 1) /\ Cardinality(1 .. n - 1) = n - 1
    <3> DEFINE m == n - 1
    <3>1. 1 \in Int /\ m \in Int /\ 0 <= m
      BY <2>0
    <3> HIDE DEF m
    <3>2. IsFiniteSet(1 .. m) /\ Cardinality(1 .. m) = IF 1 > m THEN 0 ELSE m - 1 + 1
      BY <3>1, FS_Interval
    <3>3. IsFiniteSet(1 .. m) /\ Cardinality(1 .. m) = m
      BY <3>1, <3>2
    <3> QED BY <3>3 DEF m
  <2>5. ExistsBijection(1 .. n - 1, ahead[t[n]])
    BY <2>3 DEF ExistsBijection
  <2> QED BY <2>4, <2>5, FS_Bijection
<1> DEFINE s == LineUp(ahead)
<1>6. /\ s \in [1 .. N -> S]
      /\ \A n \in 1 .. N : Cardinality(ahead[s[n]]) = n - 1
  BY LineUpIs
<1> HIDE DEF s
<1>7. ASSUME NEW n \in 1 .. N PROVE s[n] = t[n]
  <2>1. s[n] \in S /\ t[n] \in S /\ Cardinality(ahead[s[n]]) = Cardinality(ahead[t[n]])
    BY <1>5, <1>6
  <2> QED BY <2>1, FewerAhead DEF IsLine
<1>8. t \in [1 .. N -> S]
  OBVIOUS
<1> HIDE DEF N, S
<1>9. s = t
  <2>1. s = [n \in 1 .. N |-> s[n]] /\ t = [n \in 1 .. N |-> t[n]]
    BY <1>6, <1>8
  <2>2. [n \in 1 .. N |-> s[n]] = [n \in 1 .. N |-> t[n]]
    BY <1>7
  <2> QED BY <2>1, <2>2, Zenon
<1> QED BY <1>9 DEF s

-----------------------------------------------------------------------------
(* Parts of a line.                                                        *)

(* Some natural numbers, each with the smaller ones, are a line.           *)
LEMMA NumbersLine ==
  ASSUME NEW P \in SUBSET Nat, IsFiniteSet(P)
  PROVE  IsLine([i \in P |-> {j \in P : j < i}])
<1> DEFINE f == [i \in P |-> {j \in P : j < i}]
<1>1. DOMAIN f = P /\ \A i \in P : f[i] = {j \in P : j < i}
  OBVIOUS
<1> HIDE DEF f
<1>0. \A x \in P : x \in Nat
  OBVIOUS
<1>2. \A x, y \in P : x \in f[y] <=> x < y
  BY <1>1
<1>3. \A x \in P : f[x] \subseteq P /\ x \notin f[x]
  BY <1>1
<1>4. ASSUME NEW x \in P, NEW y \in P, x \in f[y] PROVE f[x] \subseteq f[y]
  <2>1. ASSUME NEW z \in P, z < x PROVE z < y
    <3>1. x \in Nat /\ y \in Nat /\ z \in Nat /\ x < y /\ z < x
      BY <1>0, <1>2, <1>4, <2>1
    <3> QED BY <3>1
  <2> QED BY <2>1, <1>1
<1>5. ASSUME NEW x \in P, NEW y \in P PROVE x = y \/ x < y \/ y < x
  <2>1. x \in Nat /\ y \in Nat
    BY <1>0
  <2> QED BY <2>1
<1>6. IsLine(f)
  BY <1>1, <1>2, <1>3, <1>4, <1>5 DEF IsLine
<1> QED BY <1>6 DEF f

-----------------------------------------------------------------------------
(* What Picked takes from a sequence, at the places it is told, in order.  *)
LEMMA PickedIs ==
  ASSUME NEW S, NEW seq \in Seq(S), NEW P \in SUBSET DOMAIN seq
  PROVE  LET at == Ascending(P)
             M == Cardinality(P)
         IN  /\ M \in Nat
             /\ at \in [1 .. M -> P]
             /\ \A m, n \in 1 .. M : m < n => at[m] < at[n]
             /\ \A p \in P : \E n \in 1 .. M : at[n] = p
             /\ Picked(seq, P) \in Seq(S)
             /\ Len(Picked(seq, P)) = M
             /\ \A n \in 1 .. M : Picked(seq, P)[n] = seq[at[n]]
<1> DEFINE f == [i \in P |-> {j \in P : j < i}]
           at == Ascending(P)
           M == Cardinality(P)
<1>1. IsFiniteSet(P) /\ P \in SUBSET Nat
  <2>1. IsFiniteSet(1 .. Len(seq)) /\ DOMAIN seq = 1 .. Len(seq)
    BY FS_Interval
  <2> QED BY <2>1, FS_Subset
<1>2. IsLine(f) /\ DOMAIN f = P /\ at = LineUp(f)
  BY <1>1, NumbersLine DEF Ascending
<1>3. \A i, j \in P : j \in f[i] <=> j < i
  OBVIOUS
<1> HIDE DEF f, at
<1>4. /\ M \in Nat
      /\ at \in [1 .. M -> P]
      /\ \A p \in P : \E n \in 1 .. M : at[n] = p
      /\ \A m, n \in 1 .. M : at[m] \in f[at[n]] <=> m < n
  BY <1>2, LineUpIs
<1>5. \A m, n \in 1 .. M : m < n => at[m] < at[n]
  BY <1>3, <1>4
<1>6. Picked(seq, P) = [n \in 1 .. M |-> seq[at[n]]]
  <2>1. DOMAIN at = 1 .. M
    BY <1>4
  <2> QED BY <2>1, Zenon DEF Picked, at
<1>7. \A n \in 1 .. M : seq[at[n]] \in S
  BY <1>4
<1>8. [n \in 1 .. M |-> seq[at[n]]] \in Seq(S) /\ Len([n \in 1 .. M |-> seq[at[n]]]) = M
  BY <1>4, <1>7
<1> QED BY <1>4, <1>5, <1>6, <1>8 DEF at

-----------------------------------------------------------------------------
(* Keys: numbers compared one after the other.                             *)

Keys == [1 .. 5 -> Int]

(* Keys are in a strict total order.                                       *)
LEMMA KeysAreOrdered ==
  /\ \A k \in Keys : ~Below(k, k)
  /\ \A k, l \in Keys : k = l \/ Below(k, l) \/ Below(l, k)
  /\ \A k, l, m \in Keys : Below(k, l) /\ Below(l, m) => Below(k, m)
<1>1. ASSUME NEW k \in Keys PROVE ~Below(k, k)
  BY DEF Below, Keys
<1>2. ASSUME NEW k \in Keys, NEW l \in Keys, k # l PROVE Below(k, l) \/ Below(l, k)
  <2> DEFINE D == {i \in 1 .. 5 : k[i] # l[i]}
  <2>1. D # {} /\ D \in SUBSET Nat
    BY <1>2 DEF Keys
  <2>2. IsFiniteSet(D)
    <3>1. 1 \in Int /\ 5 \in Int
      OBVIOUS
    <3>2. IsFiniteSet(1 .. 5)
      BY <3>1, FS_Interval
    <3> QED BY <3>2, FS_Subset
  <2>3. PICK i \in D : \A j \in D : i <= j
    <3> HIDE DEF D
    <3> QED BY <2>1, <2>2, MinExists
  <2>4. i \in 1 .. 5 /\ k[i] # l[i] /\ k[i] \in Int /\ l[i] \in Int
    BY <2>3 DEF Keys
  <2>5. \A j \in 1 .. (i - 1) : k[j] = l[j]
    BY <2>3, <2>4
  <2>6. DOMAIN k = 1 .. 5 /\ DOMAIN l = 1 .. 5
    BY DEF Keys
  <2> QED BY <2>4, <2>5, <2>6 DEF Below
<1>3. ASSUME NEW k \in Keys, NEW l \in Keys, NEW m \in Keys, Below(k, l), Below(l, m)
      PROVE  Below(k, m)
  <2>1. PICK i \in 1 .. 5 : k[i] < l[i] /\ \A h \in 1 .. (i - 1) : k[h] = l[h]
    BY <1>3 DEF Below, Keys
  <2>2. PICK j \in 1 .. 5 : l[j] < m[j] /\ \A h \in 1 .. (j - 1) : l[h] = m[h]
    BY <1>3 DEF Below, Keys
  <2>0. \A h \in 1 .. 5 : k[h] \in Int /\ l[h] \in Int /\ m[h] \in Int
    BY DEF Keys
  <2>3. CASE i <= j
    <3>1. k[i] < m[i]
      BY <2>0, <2>1, <2>2, <2>3
    <3>2. \A h \in 1 .. (i - 1) : k[h] = m[h]
      BY <2>1, <2>2, <2>3
    <3> QED BY <3>1, <3>2 DEF Below, Keys
  <2>4. CASE j < i
    <3>1. k[j] < m[j]
      BY <2>0, <2>1, <2>2, <2>4
    <3>2. \A h \in 1 .. (j - 1) : k[h] = m[h]
      BY <2>1, <2>2, <2>4
    <3> QED BY <3>1, <3>2 DEF Below, Keys
  <2> QED BY <2>3, <2>4
<1> QED BY <1>1, <1>2, <1>3

-----------------------------------------------------------------------------
(* Orders.                                                                 *)

HeldSet == [id : Cards, section : Sections, key : Keys]
CardsIn(order) == {order[i] : i \in DOMAIN order}
Once(order) == \A i, j \in DOMAIN order : order[i].id = order[j].id => i = j

(* An order of cards there are, each once, by their keys.                  *)
Sound(order) == order \in Seq(HeldSet) /\ Once(order) /\ Ordered(order)

(* The ids of an order are those of its cards, and name one card each.     *)
LEMMA CardsOfOrder ==
  ASSUME NEW order, order \in Seq(HeldSet), Once(order)
  PROVE  /\ CardsIn(order) \subseteq HeldSet
         /\ Ids(order) = {h.id : h \in CardsIn(order)}
         /\ \A h \in CardsIn(order) : h.id \in Ids(order) /\ CardOf(order, h.id) = h
         /\ \A c \in Ids(order) : CardOf(order, c) \in CardsIn(order) /\ CardOf(order, c).id = c
         /\ Ids(order) \subseteq Cards
         /\ \A h, g \in CardsIn(order) : h.id = g.id => h = g
         /\ IsFiniteSet(CardsIn(order))
<1>0. DOMAIN order = 1 .. Len(order) /\ Len(order) \in Nat
      /\ \A i \in DOMAIN order : order[i] \in HeldSet
  OBVIOUS
<1>1. \A i \in DOMAIN order : IndexOf(order, order[i].id) = i
  <2> TAKE i \in DOMAIN order
  <2>1. \A j \in DOMAIN order : order[j].id = order[i].id <=> j = i
    BY DEF Once
  <2> QED BY <2>1 DEF IndexOf
<1>2. \A c \in Ids(order) : \E i \in DOMAIN order : order[i].id = c
  BY DEF Ids
<1>3. \A h \in CardsIn(order) : \E i \in DOMAIN order : order[i] = h
  BY DEF CardsIn
<1>4. \A i \in DOMAIN order : order[i] \in CardsIn(order) /\ order[i].id \in Ids(order)
  BY DEF CardsIn, Ids
<1>5. \A i \in DOMAIN order : CardOf(order, order[i].id) = order[i] /\ order[i].id \in Cards
  BY <1>0, <1>1 DEF CardOf, HeldSet
<1>6. IsFiniteSet(CardsIn(order))
  <2> DEFINE f == [i \in DOMAIN order |-> order[i]]
             n == Len(order)
  <2>1. f \in [DOMAIN order -> CardsIn(order)]
    BY <1>4
  <2>2. \A h \in CardsIn(order) : \E i \in DOMAIN order : f[i] = h
    BY <1>3
  <2>3. f \in Surjection(DOMAIN order, CardsIn(order))
    <3> HIDE DEF f
    <3> QED BY <2>1, <2>2, Fun_IsSurj
  <2>4. IsFiniteSet(DOMAIN order)
    <3>1. n \in Nat /\ DOMAIN order = 1 .. n
      BY <1>0
    <3> HIDE DEF n
    <3>2. 1 \in Int /\ n \in Int
      BY <3>1
    <3> QED BY <3>1, <3>2, FS_Interval
  <2> HIDE DEF f
  <2> QED BY <2>3, <2>4, FS_Surjection
<1>7. CardsIn(order) \subseteq HeldSet
  BY <1>0 DEF CardsIn
<1>8. Ids(order) = {h.id : h \in CardsIn(order)}
  BY <1>2, <1>3, <1>4
<1>9. \A h \in CardsIn(order) : h.id \in Ids(order) /\ CardOf(order, h.id) = h
  BY <1>3, <1>4, <1>5
<1>10. \A c \in Ids(order) : /\ CardOf(order, c) \in CardsIn(order)
                            /\ CardOf(order, c).id = c /\ c \in Cards
  BY <1>2, <1>4, <1>5
<1> QED BY <1>6, <1>7, <1>8, <1>9, <1>10

(* As many cards as ids.                                                   *)
LEMMA OrderLength ==
  ASSUME NEW order, order \in Seq(HeldSet), Once(order)
  PROVE  Cardinality(Ids(order)) = Len(order) /\ IsFiniteSet(Ids(order))
<1> DEFINE f == [i \in 1 .. Len(order) |-> order[i].id]
<1>1. DOMAIN order = 1 .. Len(order) /\ Len(order) \in Nat
  OBVIOUS
<1>2. f \in Bijection(1 .. Len(order), Ids(order))
  <2>1. f \in [1 .. Len(order) -> Ids(order)]
    BY <1>1 DEF Ids
  <2>2. \A i, j \in 1 .. Len(order) : f[i] = f[j] => i = j
    BY <1>1 DEF Once
  <2>3. \A c \in Ids(order) : \E i \in 1 .. Len(order) : f[i] = c
    BY <1>1 DEF Ids
  <2> HIDE DEF f
  <2>4. f \in Injection(1 .. Len(order), Ids(order))
    BY <2>1, <2>2, Fun_IsInj
  <2>5. f \in Surjection(1 .. Len(order), Ids(order))
    BY <2>1, <2>3, Fun_IsSurj
  <2> QED BY <2>4, <2>5 DEF Bijection
<1>3. IsFiniteSet(1 .. Len(order)) /\ Cardinality(1 .. Len(order)) = Len(order)
  <2> DEFINE n == Len(order)
  <2>1. n \in Nat
    BY <1>1
  <2> HIDE DEF n
  <2>2. 1 \in Int /\ n \in Int
    BY <2>1
  <2>3. IsFiniteSet(1 .. n) /\ Cardinality(1 .. n) = n
    BY <2>1, <2>2, FS_Interval
  <2> QED BY <2>3 DEF n
<1>4. ExistsBijection(1 .. Len(order), Ids(order))
  BY <1>2 DEF ExistsBijection
<1> QED BY <1>3, <1>4, FS_Bijection

-----------------------------------------------------------------------------
(* Reviews.                                                                *)

(* A review has its fields, a list built from its order or none yet.       *)
IsReview(r) ==
    /\ r = [sources |-> r.sources, order |-> r.order, opened |-> r.opened, served |-> r.served,
            current |-> r.current, version |-> r.version, shown |-> r.shown]
    /\ r.version \in Nat
    /\ r.shown = <<>> \/ r.shown = <<r.shown[1]>>

(* The list is built from the order and stands for what shows now.         *)
Shown(r) == r.shown = <<Unfolded(r.order, r.opened, r.current)>>

(* A review with the same list under the same version, or a later one.     *)
Continues(s, r) ==
    /\ IsReview(s) /\ Shown(s)
    /\ s.version >= r.version
    /\ s.version = r.version => s.order = r.order /\ (r.shown # <<>> => s.shown = r.shown)

(* A built list laid out for a current card.                               *)
LEMMA AtIs ==
  ASSUME NEW r, IsReview(r), NEW c
  PROVE  LET s == At(r, c) IN
         /\ IsReview(s) /\ Shown(s)
         /\ s.sources = r.sources /\ s.order = r.order /\ s.opened = r.opened
         /\ s.served = r.served /\ s.current = c
         /\ s.version >= r.version
         /\ s.version = r.version /\ r.shown # <<>> => s.shown = r.shown
<1> DEFINE q == [r EXCEPT !.current = c]
           shown == <<Unfolded(q.order, q.opened, q.current)>>
           s == At(r, c)
<1>1. q = [sources |-> r.sources, order |-> r.order, opened |-> r.opened, served |-> r.served,
           current |-> c, version |-> r.version, shown |-> r.shown]
  BY DEF IsReview
<1> HIDE DEF q
<1>2. shown # <<>> /\ shown = <<shown[1]>> /\ r.version \in Nat
  BY DEF IsReview
<1>3. s = IF q.shown = shown THEN q
          ELSE [q EXCEPT !.shown = shown, !.version = IF q.shown = <<>> THEN @ ELSE @ + 1]
  BY Zenon DEF At, Laid, q
<1>4. CASE q.shown = shown
  <2>1. s = q
    BY <1>3, <1>4
  <2> QED BY <1>1, <1>2, <1>4, <2>1 DEF IsReview, Shown
<1>5. CASE q.shown # shown
  <2> DEFINE v == IF r.shown = <<>> THEN r.version ELSE r.version + 1
  <2>1. s = [sources |-> r.sources, order |-> r.order, opened |-> r.opened,
             served |-> r.served, current |-> c, version |-> v, shown |-> shown]
    <3>1. s = [q EXCEPT !.shown = shown, !.version = IF q.shown = <<>> THEN @ ELSE @ + 1]
      BY <1>3, <1>5
    <3> HIDE DEF shown, s
    <3> QED BY <1>1, <3>1
  <2>2. /\ q.order = r.order /\ q.opened = r.opened /\ q.current = c
    BY <1>1
  <2>3. v \in Nat /\ v >= r.version /\ (r.shown # <<>> => v # r.version)
    BY <1>2
  <2> HIDE DEF v, s
  <2>4. /\ s.sources = r.sources /\ s.order = r.order /\ s.opened = r.opened
        /\ s.served = r.served /\ s.current = c /\ s.version = v /\ s.shown = shown
    <3> HIDE DEF shown
    <3> QED BY <2>1
  <2>5. IsReview(s)
    <3> HIDE DEF shown
    <3> QED BY <1>2, <2>1, <2>3, <2>4 DEF IsReview
  <2>6. Shown(s)
    BY <2>2, <2>4 DEF Shown
  <2> QED BY <2>3, <2>4, <2>5, <2>6 DEF s
<1> QED BY <1>4, <1>5

-----------------------------------------------------------------------------
(* Answers.                                                                *)

Sending(r, window, replace) ==
    IF replace THEN WindowAround(RowsOf(r), r.current) ELSE window \ NoWindow

Served(r, replace) == IF replace THEN {} ELSE r.served

Sent(r, window, replace, changed) ==
    {RowsOf(r)[i].id : i \in {j \in Sending(r, window, replace) : IsCard(RowsOf(r)[j])}}
    \cup (changed \cap Served(r, replace))

CardsSent(sent, st) == [c \in {d \in sent : st[d].live} |-> st[c].rev]

ListSent(r, window, replace) ==
    [version |-> r.version, total |-> Len(RowsOf(r)), replace |-> replace,
     rows |-> [i \in Sending(r, window, replace) |-> RowsOf(r)[i]]]

(* What an answer holds, and the review after it.                          *)
AnswerOf(out, r, st, window, replace, focus, changed, removed) ==
    LET s == out.review
        a == out.answer
    IN  /\ IsReview(s) /\ (Shown(r) => Shown(s))
        /\ s.sources = r.sources /\ s.order = r.order /\ s.opened = r.opened
        /\ s.current = r.current /\ s.version = r.version /\ s.shown = r.shown
        /\ s.served = Served(r, replace) \cup Sent(r, window, replace, changed)
        /\ a.revision = Revision(st) /\ a.focus = focus /\ a.removed = removed
        /\ a.layout = IF ~replace /\ window = NoWindow THEN <<>>
                      ELSE <<ListSent(r, window, replace)>>
        /\ a.cards = CardsSent(Sent(r, window, replace, changed), st)

(* An answer is one: its parts, and the review after it.                   *)
LEMMA AnswerIs ==
  ASSUME NEW r, IsReview(r), NEW st, NEW window, NEW replace, NEW focus, NEW changed, NEW removed
  PROVE  AnswerOf(Answered(r, st, window, replace, focus, changed, removed),
                  r, st, window, replace, focus, changed, removed)
<1> DEFINE out == Answered(r, st, window, replace, focus, changed, removed)
           served == Served(r, replace) \cup Sent(r, window, replace, changed)
           cards == CardsSent(Sent(r, window, replace, changed), st)
           layout == IF ~replace /\ window = NoWindow THEN <<>>
                     ELSE <<ListSent(r, window, replace)>>
<1>1. out = [review |-> [r EXCEPT !.served = served],
             answer |-> [revision |-> Revision(st), focus |-> focus, removed |-> removed,
                         layout |-> layout, cards |-> cards]]
  BY Zenon DEF Answered, Answer, Sending, Served, Sent, ListSent, CardsSent
<1> HIDE DEF out, served, cards, layout
<1>2. out.review = [sources |-> r.sources, order |-> r.order, opened |-> r.opened,
                    served |-> served, current |-> r.current, version |-> r.version,
                    shown |-> r.shown]
  BY <1>1 DEF IsReview
<1>3. /\ out.review.sources = r.sources /\ out.review.order = r.order
      /\ out.review.opened = r.opened /\ out.review.current = r.current
      /\ out.review.version = r.version /\ out.review.shown = r.shown
      /\ out.review.served = served
  BY <1>2
<1>4. IsReview(out.review)
  BY <1>2, <1>3 DEF IsReview
<1>5. Shown(r) => Shown(out.review)
  BY <1>3 DEF Shown
<1>6. /\ out.answer.revision = Revision(st) /\ out.answer.focus = focus
      /\ out.answer.removed = removed /\ out.answer.layout = layout /\ out.answer.cards = cards
  BY <1>1
<1> QED BY <1>3, <1>4, <1>5, <1>6 DEF AnswerOf, out, served, cards, layout

(* An answer's rows are those of the review's list.                        *)
Tells(a, r) ==
    a.layout = <<>> \/
    LET l == a.layout[1] IN
    /\ a.layout = <<l>>
    /\ l.version = r.version /\ l.total = Len(RowsOf(r))
    /\ \A i \in DOMAIN l.rows : l.rows[i] = RowsOf(r)[i]

(* The rows are those of the order and of the sections that show.          *)
LEMMA RowsOfShown ==
  ASSUME NEW r, Shown(r)
  PROVE  RowsOf(r) = LayoutOf(r.order, r.shown[1])
<1>1. r.shown[1] = Unfolded(r.order, r.opened, r.current)
  BY DEF Shown
<1> QED BY <1>1, Zenon DEF RowsOf, Layout

(* What an answer leaves goes on from the review, and the answer tells it. *)
AnswersFor(out, r, st) ==
    /\ Continues(out.review, r) /\ Tells(out.answer, out.review)
    /\ out.answer.revision = Revision(st)

(* An answer tells the list of the review it leaves.                       *)
LEMMA AnswerTells ==
  ASSUME NEW r, IsReview(r), Shown(r),
         NEW st, NEW window, NEW replace, NEW focus, NEW changed, NEW removed
  PROVE  AnswersFor(Answered(r, st, window, replace, focus, changed, removed), r, st)
<1> DEFINE out == Answered(r, st, window, replace, focus, changed, removed)
           l == ListSent(r, window, replace)
<1>0. AnswerOf(out, r, st, window, replace, focus, changed, removed)
  BY AnswerIs, Zenon
<1> HIDE DEF out
<1>1. /\ IsReview(out.review) /\ Shown(out.review)
      /\ out.review.order = r.order /\ out.review.version = r.version
      /\ out.review.shown = r.shown
      /\ out.answer.layout = IF ~replace /\ window = NoWindow THEN <<>> ELSE <<l>>
  BY <1>0 DEF AnswerOf
<1>2. RowsOf(out.review) = RowsOf(r)
  <2>1. RowsOf(out.review) = LayoutOf(out.review.order, out.review.shown[1])
    BY <1>1, RowsOfShown
  <2>2. RowsOf(r) = LayoutOf(r.order, r.shown[1])
    BY RowsOfShown
  <2> QED BY <1>1, <2>1, <2>2
<1>3. /\ l.version = r.version /\ l.total = Len(RowsOf(r))
      /\ \A i \in DOMAIN l.rows : l.rows[i] = RowsOf(r)[i]
  BY DEF ListSent
<1> HIDE DEF l
<1>4. out.answer.layout = <<>> \/ (out.answer.layout = <<l>> /\ out.answer.layout[1] = l)
  BY <1>1
<1>5. Tells(out.answer, out.review)
  BY <1>1, <1>2, <1>3, <1>4 DEF Tells
<1>6. Continues(out.review, r)
  <2>1. out.review.version >= r.version
    BY <1>1 DEF IsReview
  <2> QED BY <1>1, <2>1 DEF Continues
<1>7. out.answer.revision = Revision(st)
  BY <1>0 DEF AnswerOf
<1> QED BY <1>5, <1>6, <1>7 DEF AnswersFor, out

-----------------------------------------------------------------------------
(* The client.                                                             *)

(* A function put over another has the keys of both, its own values first. *)
LEMMA OverIs ==
  ASSUME NEW f, NEW g
  PROVE  /\ DOMAIN Over(g, f) = DOMAIN f \cup DOMAIN g
         /\ \A x \in DOMAIN g : Over(g, f)[x] = g[x]
         /\ \A x \in DOMAIN f \ DOMAIN g : Over(g, f)[x] = f[x]
BY DEF Over

IsClient(s) ==
    s = [review |-> s.review, revision |-> s.revision, version |-> s.version,
         total |-> s.total, rows |-> s.rows, cards |-> s.cards, current |-> s.current]

GoneOf(s, u) == IF Stale(s, u) THEN {} ELSE u.removed

(* What an answer that is not ignored leaves of the client.                *)
LEMMA AppliedIs ==
  ASSUME NEW s, NEW u, NEW window, NEW keep, ~Ignored(s, u)
  PROVE  LET t == Applied(s, u, window, keep)
             gone == GoneOf(s, u)
             replace == Lands(s, u) /\ Replaces(s, u)
         IN  /\ IsClient(t) /\ t.review = u.review
             /\ t.revision = IF window \/ Stale(s, u) THEN s.revision ELSE u.revision
             /\ t.version = IF Lands(s, u) THEN u.layout[1].version ELSE s.version
             /\ t.total = IF Lands(s, u) THEN u.layout[1].total ELSE s.total
             /\ t.current = IF Stale(s, u) \/ keep \/ u.focus = 0 THEN s.current ELSE u.focus
             /\ \A i \in DOMAIN t.rows :
                   /\ ~(IsCardRow(t.rows[i]) /\ t.rows[i].id \in gone)
                   /\ IF Lands(s, u) /\ i \in DOMAIN u.layout[1].rows
                      THEN t.rows[i] = u.layout[1].rows[i]
                      ELSE ~replace /\ i \in DOMAIN s.rows /\ t.rows[i] = s.rows[i]
             /\ \A c \in DOMAIN t.cards :
                   /\ c \notin gone
                   /\ IF c \in DOMAIN u.cards
                      THEN t.cards[c] = IF Stale(s, u) /\ c \in DOMAIN s.cards THEN s.cards[c]
                                        ELSE u.cards[c]
                      ELSE /\ c \in DOMAIN s.cards /\ t.cards[c] = s.cards[c]
                           /\ replace => c = t.current
             /\ \A c \in DOMAIN u.cards \ gone : c \in DOMAIN t.cards
             /\ ~replace => \A c \in DOMAIN s.cards \ gone : c \in DOMAIN t.cards
<1> DEFINE stale == Stale(s, u)
           lands == Lands(s, u)
           replace == lands /\ Replaces(s, u)
           removed == GoneOf(s, u)
           current == IF stale \/ keep \/ u.focus = 0 THEN s.current ELSE u.focus
           g == IF lands THEN u.layout[1].rows ELSE <<>>
           f == IF replace THEN <<>> ELSE s.rows
           rows == Over(g, f)
           lost == {i \in DOMAIN rows : IsCardRow(rows[i]) /\ rows[i].id \in removed}
           had == IF replace THEN [c \in DOMAIN s.cards \cap {current} |-> s.cards[c]]
                   ELSE s.cards
           fresh == [c \in DOMAIN u.cards |->
                       IF stale /\ c \in DOMAIN s.cards THEN s.cards[c] ELSE u.cards[c]]
           t == Applied(s, u, window, keep)
<1>1. t = [review |-> u.review,
           revision |-> IF window \/ stale THEN s.revision ELSE u.revision,
           version |-> IF lands THEN u.layout[1].version ELSE s.version,
           total |-> IF lands THEN u.layout[1].total ELSE s.total,
           rows |-> WithoutKeys(rows, lost),
           cards |-> WithoutKeys(Over(fresh, had), removed),
           current |-> current]
  BY Zenon DEF Applied, GoneOf
<1> DEFINE over == Over(fresh, had)
<1>4. /\ DOMAIN fresh = DOMAIN u.cards
      /\ \A c \in DOMAIN u.cards :
            fresh[c] = IF stale /\ c \in DOMAIN s.cards THEN s.cards[c] ELSE u.cards[c]
  OBVIOUS
<1>5. /\ DOMAIN had \subseteq DOMAIN s.cards /\ (~replace => had = s.cards)
      /\ \A c \in DOMAIN had : had[c] = s.cards[c] /\ (replace => c = current)
  OBVIOUS
<1>6. /\ \A i \in DOMAIN g : lands /\ g[i] = u.layout[1].rows[i] /\ i \in DOMAIN u.layout[1].rows
      /\ lands => DOMAIN g = DOMAIN u.layout[1].rows
      /\ \A i \in DOMAIN f : ~replace /\ i \in DOMAIN s.rows /\ f[i] = s.rows[i]
  OBVIOUS
<1> HIDE DEF f, g, had, fresh
<1>2. /\ DOMAIN rows = DOMAIN f \cup DOMAIN g
      /\ \A x \in DOMAIN g : rows[x] = g[x]
      /\ \A x \in DOMAIN f \ DOMAIN g : rows[x] = f[x]
  BY OverIs
<1>3. /\ DOMAIN Over(fresh, had) = DOMAIN had \cup DOMAIN fresh
      /\ \A x \in DOMAIN fresh : Over(fresh, had)[x] = fresh[x]
      /\ \A x \in DOMAIN had \ DOMAIN fresh : Over(fresh, had)[x] = had[x]
  BY OverIs
<1>7. /\ DOMAIN WithoutKeys(rows, lost) = DOMAIN rows \ lost
      /\ \A i \in DOMAIN rows \ lost : WithoutKeys(rows, lost)[i] = rows[i]
  BY DEF WithoutKeys
<1>8. /\ DOMAIN WithoutKeys(over, removed) = DOMAIN over \ removed
      /\ \A i \in DOMAIN over \ removed : WithoutKeys(over, removed)[i] = over[i]
  BY DEF WithoutKeys
<1>9. \A i \in DOMAIN rows \ lost : ~(IsCardRow(rows[i]) /\ rows[i].id \in removed)
  OBVIOUS
<1> HIDE DEF t, rows, lost, over, removed, current, replace, lands, stale
<1>10. /\ t.review = u.review
       /\ t.revision = IF window \/ stale THEN s.revision ELSE u.revision
       /\ t.version = IF lands THEN u.layout[1].version ELSE s.version
       /\ t.total = IF lands THEN u.layout[1].total ELSE s.total
       /\ t.rows = WithoutKeys(rows, lost)
       /\ t.cards = WithoutKeys(over, removed)
       /\ t.current = current
  BY <1>1 DEF over
<1>14. IsClient(t)
  <2> DEFINE revision == IF window \/ stale THEN s.revision ELSE u.revision
             version == IF lands THEN u.layout[1].version ELSE s.version
             total == IF lands THEN u.layout[1].total ELSE s.total
             kept == WithoutKeys(rows, lost)
             cards == WithoutKeys(over, removed)
  <2>1. t = [review |-> u.review, revision |-> revision, version |-> version, total |-> total,
             rows |-> kept, cards |-> cards, current |-> current]
    BY <1>1 DEF over
  <2>2. /\ t.review = u.review /\ t.revision = revision /\ t.version = version
        /\ t.total = total /\ t.rows = kept /\ t.cards = cards /\ t.current = current
    BY <1>10
  <2> HIDE DEF revision, version, total, kept, cards
  <2> QED BY <2>1, <2>2 DEF IsClient
<1>11. \A i \in DOMAIN t.rows :
          /\ ~(IsCardRow(t.rows[i]) /\ t.rows[i].id \in removed)
          /\ IF lands /\ i \in DOMAIN u.layout[1].rows
             THEN t.rows[i] = u.layout[1].rows[i]
             ELSE ~replace /\ i \in DOMAIN s.rows /\ t.rows[i] = s.rows[i]
  BY <1>2, <1>6, <1>7, <1>9, <1>10
<1>12. \A c \in DOMAIN t.cards :
          /\ c \notin removed
          /\ IF c \in DOMAIN u.cards
             THEN t.cards[c] = IF stale /\ c \in DOMAIN s.cards THEN s.cards[c] ELSE u.cards[c]
             ELSE /\ c \in DOMAIN s.cards /\ t.cards[c] = s.cards[c]
                  /\ replace => c = current
  BY <1>3, <1>4, <1>5, <1>8, <1>10 DEF over
<1>13. \A c \in DOMAIN u.cards \ removed : c \in DOMAIN t.cards
  BY <1>3, <1>4, <1>8, <1>10 DEF over
<1>15. ~replace => \A c \in DOMAIN s.cards \ removed : c \in DOMAIN t.cards
  BY <1>3, <1>5, <1>8, <1>10 DEF over
<1> QED BY <1>10, <1>11, <1>12, <1>13, <1>14, <1>15 DEF removed, replace, lands, stale, current, t

-----------------------------------------------------------------------------
(* The handlers.                                                           *)

(* To go on from a review that goes on from another is to go on from that. *)
LEMMA ContinuesOn ==
  ASSUME NEW r, IsReview(r), NEW s, Continues(s, r), NEW t, Continues(t, s)
  PROVE  Continues(t, r)
<1>1. /\ t.version \in Nat /\ s.version \in Nat /\ r.version \in Nat
      /\ t.version >= s.version /\ s.version >= r.version
  BY DEF Continues, IsReview
<1>2. s.shown # <<>>
  BY DEF Continues, Shown
<1> QED BY <1>1, <1>2 DEF Continues

(* A list laid out for a current card goes on from the review.             *)
LEMMA AtContinues ==
  ASSUME NEW r, IsReview(r), NEW c
  PROVE  Continues(At(r, c), r)
<1> DEFINE s == At(r, c)
<1>1. /\ IsReview(s) /\ Shown(s) /\ s.order = r.order
      /\ s.version >= r.version
      /\ s.version = r.version /\ r.shown # <<>> => s.shown = r.shown
  BY AtIs
<1> HIDE DEF s
<1>2. Continues(s, r)
  BY <1>1 DEF Continues
<1> QED BY <1>2 DEF s

(* A new order is a new version, with no list built from it yet.           *)
LEMMA ReorderedIs ==
  ASSUME NEW r, IsReview(r), NEW order
  PROVE  LET s == Reordered(r, order) IN
         /\ IsReview(s) /\ s.order = order /\ s.shown = <<>> /\ s.version = r.version + 1
         /\ s.sources = r.sources /\ s.opened = r.opened /\ s.served = r.served
         /\ s.current = r.current
<1> DEFINE s == Reordered(r, order)
<1>1. s = [sources |-> r.sources, order |-> order, opened |-> r.opened, served |-> r.served,
           current |-> r.current, version |-> r.version + 1, shown |-> <<>>]
  <2>1. s = [r EXCEPT !.order = order, !.version = @ + 1, !.shown = <<>>]
    BY Zenon DEF Reordered
  <2> HIDE DEF s
  <2>2. r = [sources |-> r.sources, order |-> r.order, opened |-> r.opened, served |-> r.served,
             current |-> r.current, version |-> r.version, shown |-> r.shown]
    BY DEF IsReview
  <2> QED BY <2>1, <2>2
<1> HIDE DEF s
<1>2. /\ s.order = order /\ s.shown = <<>> /\ s.version = r.version + 1
      /\ s.sources = r.sources /\ s.opened = r.opened /\ s.served = r.served
      /\ s.current = r.current
  BY <1>1
<1>3. IsReview(s)
  BY <1>1, <1>2 DEF IsReview
<1> QED BY <1>2, <1>3 DEF s

(* A read of rows, or around a card, or of a section's.                    *)
LEMMA ReadsContinue ==
  ASSUME NEW r, IsReview(r), NEW st
  PROVE  /\ \A ctx, start, count : AnswersFor(ReadRows(r, st, ctx, start, count), r, st)
         /\ \A id : AnswersFor(ReadAround(r, st, id), r, st)
         /\ \A ctx, section, open : AnswersFor(SetSection(r, st, ctx, section, open), r, st)
<1>1. ASSUME NEW ctx, NEW start, NEW count
      PROVE  AnswersFor(ReadRows(r, st, ctx, start, count), r, st)
  <2> DEFINE now == At(r, ctx.current)
             window == RowsFrom(RowsOf(now), start, Min({count, RowsAtMost}))
             out == Answered(now, st, window, now.version # r.version, 0, {}, {})
  <2>1. Continues(now, r)
    BY AtContinues
  <2> HIDE DEF now
  <2>2. IsReview(now) /\ Shown(now)
    BY <2>1 DEF Continues
  <2>3. AnswersFor(out, now, st)
    BY <2>2, AnswerTells, Zenon
  <2> HIDE DEF out
  <2>4. AnswersFor(out, r, st)
    BY <2>1, <2>3, ContinuesOn DEF AnswersFor
  <2> QED BY <2>4, Zenon DEF ReadRows, out, now
<1>2. ASSUME NEW id PROVE AnswersFor(ReadAround(r, st, id), r, st)
  <2> DEFINE now == At(r, id)
             out == Answered(now, st, WindowAround(RowsOf(now), id),
                             now.version # r.version, id, {}, {})
  <2>1. Continues(now, r)
    BY AtContinues
  <2> HIDE DEF now
  <2>2. IsReview(now) /\ Shown(now)
    BY <2>1 DEF Continues
  <2>3. AnswersFor(out, now, st)
    BY <2>2, AnswerTells, Zenon
  <2> HIDE DEF out
  <2>4. AnswersFor(out, r, st)
    BY <2>1, <2>3, ContinuesOn DEF AnswersFor
  <2> QED BY <2>4, Zenon DEF ReadAround, out, now
<1>3. ASSUME NEW ctx, NEW section, NEW open
      PROVE  AnswersFor(SetSection(r, st, ctx, section, open), r, st)
  <2> DEFINE opened == IF open THEN r.opened \cup {section} ELSE r.opened \ {section}
             q == [r EXCEPT !.opened = opened]
             now == At(q, ctx.current)
             out == Answered(now, st, {}, now.version # r.version, 0, {}, {})
  <2>0. /\ IsReview(q) /\ q.version = r.version /\ q.order = r.order /\ q.shown = r.shown
    <3>1. q = [sources |-> r.sources, order |-> r.order, opened |-> opened,
               served |-> r.served, current |-> r.current, version |-> r.version,
               shown |-> r.shown]
      <4> HIDE DEF opened
      <4> QED BY DEF IsReview
    <3> HIDE DEF q
    <3>2. /\ q.sources = r.sources /\ q.order = r.order /\ q.opened = opened
          /\ q.served = r.served /\ q.current = r.current /\ q.version = r.version
          /\ q.shown = r.shown
      BY <3>1
    <3> QED BY <3>1, <3>2 DEF IsReview
  <2> HIDE DEF q
  <2>1. Continues(now, q)
    BY <2>0, AtContinues
  <2> HIDE DEF now
  <2>2. IsReview(now) /\ Shown(now)
    BY <2>1 DEF Continues
  <2>3. AnswersFor(out, now, st)
    BY <2>2, AnswerTells, Zenon
  <2> HIDE DEF out
  <2>4. Continues(now, r)
    BY <2>0, <2>1 DEF Continues
  <2>5. AnswersFor(out, r, st)
    BY <2>3, <2>4, ContinuesOn DEF AnswersFor
  <2> QED BY <2>5, Zenon DEF SetSection, out, now, q
<1> QED BY <1>1, <1>2, <1>3

(* What changed is merged, laid out and told.                              *)
LEMMA BuildContinues ==
  ASSUME NEW r, IsReview(r), NEW st, NEW sources, NEW ctx, NEW asked, NEW old, NEW new
  PROVE  AnswersFor(Build(r, st, sources, ctx, asked, old, new), r, st)
<1> DEFINE q == [r EXCEPT !.sources = sources]
           before == At(q, ctx.current)
           ch == ChangedSince(r, st, sources, ctx.since)
           order == Merged(r, st, sources, ch, old, new)
           next == NextFocus(before, ctx, asked, ch.removed \cap Ids(r.order))
           placed == IF order # r.order \/ Many(ch.live) THEN Reordered(before, order) ELSE before
           now == At(placed, IF next # 0 THEN next ELSE ctx.current)
           out == Told(r, now, st, next, ch)
<1>1. Build(r, st, sources, ctx, asked, old, new) = out
  BY Zenon DEF Build, Updated, Relaid
<1>0. IsReview(q) /\ q.version = r.version /\ q.order = r.order /\ q.shown = r.shown
  BY DEF IsReview
<1> HIDE DEF q
<1>2. Continues(before, q)
  BY <1>0, AtContinues
<1> HIDE DEF before, ch, order, next
<1>3. Continues(before, r) /\ before.order = r.order /\ IsReview(before)
  <2>1. before.order = q.order
    BY <1>0, AtIs DEF before
  <2> QED BY <1>0, <1>2, <2>1 DEF Continues
<1>4. /\ IsReview(placed)
      /\ \/ placed = before
         \/ placed.shown = <<>> /\ placed.version = before.version + 1
  BY <1>3, ReorderedIs
<1> HIDE DEF placed
<1>5. Continues(now, placed)
  BY <1>4, AtContinues
<1> HIDE DEF now
<1>6. Continues(now, r)
  <2>1. CASE placed = before
    BY <2>1, <1>3, <1>5, ContinuesOn
  <2>2. CASE placed.shown = <<>> /\ placed.version = before.version + 1
    <3>1. /\ now.version \in Nat /\ before.version \in Nat /\ r.version \in Nat
          /\ now.version >= before.version + 1 /\ before.version >= r.version
      BY <2>2, <1>3, <1>5 DEF Continues, IsReview
    <3>2. now.version # r.version /\ now.version >= r.version
      BY <3>1
    <3> QED BY <3>2, <1>5 DEF Continues
  <2> QED BY <2>1, <2>2, <1>4
<1>7. AnswersFor(out, now, st)
  <2> DEFINE replace == now.version # r.version
             window == IF ~replace /\ next # 0 /\ next \notin now.served
                       THEN WindowAround(RowsOf(now), next) ELSE NoWindow
             o == Answered(now, st, window, replace, next, ch.live, ch.removed)
  <2>1. IsReview(now) /\ Shown(now)
    BY <1>5 DEF Continues
  <2>2. AnswersFor(o, now, st)
    <3> HIDE DEF window, replace
    <3> QED BY <2>1, AnswerTells, Zenon
  <2> HIDE DEF o
  <2>3. out = o
    BY Zenon DEF Told, o
  <2> QED BY <2>2, <2>3
<1> HIDE DEF out
<1>8. AnswersFor(out, r, st)
  BY <1>6, <1>7, ContinuesOn DEF AnswersFor
<1> QED BY <1>1, <1>8

-----------------------------------------------------------------------------
(* The projection.                                                         *)

Projection(st) ==
    /\ st = [c \in Cards |-> [live |-> st[c].live, section |-> st[c].section, rev |-> st[c].rev]]
    /\ \A c \in Cards : st[c].rev \in Nat

(* The revision of a projection is the highest of its cards, 0 with none.  *)
LEMMA RevisionIs ==
  ASSUME NEW st, Projection(st)
  PROVE  /\ Revision(st) \in Nat
         /\ \A c \in Cards : st[c].rev <= Revision(st)
         /\ Revision(st) # 0 => \E c \in Cards : st[c].rev = Revision(st)
<1> DEFINE f == [c \in Cards |-> st[c].rev]
           R == {st[c].rev : c \in Cards}
           S == {0} \cup R
<1>1. IsFiniteSet(R)
  <2>1. f \in [Cards -> R] /\ \A n \in R : \E c \in Cards : f[c] = n
    OBVIOUS
  <2>2. f \in Surjection(Cards, R)
    <3> HIDE DEF f, R
    <3> QED BY <2>1, Fun_IsSurj
  <2> HIDE DEF f, R
  <2> QED BY <2>2, FS_Surjection, CardsAssumption
<1>2. S \in SUBSET Nat /\ S # {}
  BY DEF Projection
<1>3. IsFiniteSet(S)
  <2> HIDE DEF R
  <2>1. S = R \cup {0}
    OBVIOUS
  <2> QED BY <1>1, <2>1, FS_AddElement
<1>4. PICK n \in S : \A k \in S : k <= n
  <2> HIDE DEF S
  <2> QED BY <1>2, <1>3, MaxExists
<1>5. \A m \in S : (\A k \in S : m >= k) => m = n
  <2> SUFFICES ASSUME NEW m \in S, \A k \in S : m >= k PROVE m = n
    OBVIOUS
  <2>1. m \in Nat /\ n \in Nat /\ m >= n /\ n >= m
    <3> HIDE DEF S
    <3> QED BY <1>2, <1>4
  <2> QED BY <2>1
<1>6. \A k \in S : n >= k
  <2> HIDE DEF S
  <2> QED BY <1>2, <1>4
<1>7. Revision(st) = n
  <2>1. Revision(st) = Max(S)
    BY Zenon DEF Revision
  <2> HIDE DEF S
  <2>2. Max(S) = n
    BY <1>5, <1>6 DEF Max
  <2> QED BY <2>1, <2>2
<1>8. n \in Nat /\ (n = 0 \/ \E c \in Cards : st[c].rev = n)
  BY <1>2, <1>4
<1>9. \A c \in Cards : st[c].rev \in S
  OBVIOUS
<1> HIDE DEF S, R
<1> QED BY <1>2, <1>4, <1>7, <1>8, <1>9

(* A write leaves every other card as it was.                              *)
LEMMA WroteIs ==
  ASSUME Projection(stored), NEW w, NEW live, NEW section
  PROVE  LET st == Wrote(w, live, section) IN
         /\ Projection(st)
         /\ \A c \in Cards \ {w} : st[c] = stored[c]
         /\ w \in Cards =>
               st[w] = [live |-> live, section |-> section, rev |-> Revision(stored) + 1]
<1> DEFINE st == Wrote(w, live, section)
<1>1. Revision(stored) \in Nat
  BY RevisionIs
<1>2. DOMAIN stored = Cards
  BY DEF Projection
<1>3. DOMAIN st = Cards /\ \A c \in Cards :
         st[c] = IF c = w THEN [live |-> live, section |-> section, rev |-> Revision(stored) + 1]
                 ELSE stored[c]
  BY <1>2 DEF Wrote
<1>4. st = [c \in Cards |-> st[c]]
  BY <1>2 DEF Wrote
<1> HIDE DEF st
<1>5. \A c \in Cards : st[c] = [live |-> st[c].live, section |-> st[c].section, rev |-> st[c].rev]
                       /\ st[c].rev \in Nat
  BY <1>1, <1>3 DEF Projection
<1>6. Projection(st)
  BY <1>4, <1>5 DEF Projection
<1> QED BY <1>3, <1>6 DEF st

(* What a request leaves stored: a press and a replace write, at the next  *)
(* revision, the cards they are about and no other.                        *)
LEMMA AfterIs ==
  ASSUME Projection(stored), NEW q
  PROVE  LET st == After(q)
             next == Revision(stored) + 1 IN
         /\ Projection(st)
         /\ ~Writes(q) => st = stored
         /\ q.kind = "press" =>
              /\ \A c \in Cards \ {q.id} : st[c] = stored[c]
              /\ q.id \in Cards => st[q.id] = [live |-> TRUE, section |-> "reviewed", rev |-> next]
         /\ q.kind = "replace" =>
              /\ \A c \in Cards \ {q.id, q.new} : st[c] = stored[c]
              /\ q.id \in Cards => st[q.id] = [live |-> FALSE, section |-> stored[q.id].section,
                                              rev |-> next]
              /\ q.new \in Cards \ {q.id} =>
                    st[q.new] = [live |-> TRUE, section |-> stored[q.id].section, rev |-> next]
<1> DEFINE st == After(q)
           next == Revision(stored) + 1
<1>0. Revision(stored) \in Nat
  BY RevisionIs
<1>1. CASE q.kind = "press"
  <2>1. st = Wrote(q.id, TRUE, "reviewed")
    BY <1>1 DEF After
  <2>2. /\ Projection(st)
        /\ \A c \in Cards \ {q.id} : st[c] = stored[c]
        /\ q.id \in Cards => st[q.id] = [live |-> TRUE, section |-> "reviewed", rev |-> next]
    <3> DEFINE yes == TRUE
               w == Wrote(q.id, yes, "reviewed")
    <3>1. st = w
      BY <2>1
    <3> HIDE DEF st, yes
    <3>2. /\ Projection(w)
          /\ \A c \in Cards \ {q.id} : w[c] = stored[c]
          /\ q.id \in Cards => w[q.id] = [live |-> yes, section |-> "reviewed", rev |-> next]
      BY WroteIs
    <3> HIDE DEF w
    <3> QED BY <3>1, <3>2, Zenon DEF yes
  <2>4. Writes(q)
    BY <1>1 DEF Writes
  <2> HIDE DEF st
  <2> QED BY <1>1, <2>2, <2>4 DEF st
<1>2. CASE q.kind = "replace"
  <2>1. st = [c \in Cards |-> IF c = q.id THEN [stored[c] EXCEPT !.live = FALSE, !.rev = next]
                              ELSE IF c = q.new THEN [live |-> TRUE,
                                                      section |-> stored[q.id].section,
                                                      rev |-> next]
                              ELSE stored[c]]
    BY <1>2, Zenon DEF After
  <2>2. \A c \in Cards : [stored[c] EXCEPT !.live = FALSE, !.rev = next] =
                          [live |-> FALSE, section |-> stored[c].section, rev |-> next]
    <3> HIDE DEF next
    <3> TAKE c \in Cards
    <3> DEFINE g == stored[c]
    <3>1. g = [live |-> g.live, section |-> g.section, rev |-> g.rev]
      BY DEF Projection
    <3> HIDE DEF g
    <3> DEFINE no == FALSE
    <3> HIDE DEF no
    <3> DEFINE h == [g EXCEPT !.live = no, !.rev = next]
    <3>2. h = [g EXCEPT !.live = no, !.rev = next]
      OBVIOUS
    <3> HIDE DEF h
    <3>3. h = [live |-> no, section |-> g.section, rev |-> next]
      BY <3>1, <3>2
    <3> QED BY <3>3, Zenon DEF g, h, no
  <2> HIDE DEF st
  <2>3. /\ st = [c \in Cards |-> st[c]]
        /\ \A c \in Cards : st[c] = IF c = q.id THEN [live |-> FALSE,
                                                      section |-> stored[c].section,
                                                      rev |-> next]
                                    ELSE IF c = q.new THEN [live |-> TRUE,
                                                            section |-> stored[q.id].section,
                                                            rev |-> next]
                                    ELSE stored[c]
    BY <2>1, <2>2
  <2>4. \A c \in Cards : stored[c] = [live |-> stored[c].live, section |-> stored[c].section,
                                      rev |-> stored[c].rev] /\ stored[c].rev \in Nat
    BY DEF Projection
  <2>5. \A c \in Cards : st[c] = [live |-> st[c].live, section |-> st[c].section,
                                  rev |-> st[c].rev] /\ st[c].rev \in Nat
    <3> TAKE c \in Cards
    <3>1. CASE c = q.id
      BY <3>1, <2>3, <1>0
    <3>2. CASE c # q.id /\ c = q.new
      BY <3>2, <2>3, <1>0
    <3>3. CASE c # q.id /\ c # q.new
      <4>1. st[c] = stored[c]
        BY <3>3, <2>3
      <4> QED BY <4>1, <2>4
    <3> QED BY <3>1, <3>2, <3>3
  <2>6. Projection(st)
    BY <2>3, <2>5 DEF Projection
  <2>7. Writes(q)
    BY <1>2 DEF Writes
  <2>8. /\ \A c \in Cards \ {q.id, q.new} : st[c] = stored[c]
        /\ q.id \in Cards => st[q.id] = [live |-> FALSE, section |-> stored[q.id].section,
                                         rev |-> next]
        /\ q.new \in Cards \ {q.id} =>
              st[q.new] = [live |-> TRUE, section |-> stored[q.id].section, rev |-> next]
    BY <2>3
  <2> QED BY <1>2, <2>6, <2>7, <2>8 DEF st
<1>3. CASE q.kind # "press" /\ q.kind # "replace"
  <2>1. st = stored
    BY <1>3 DEF After
  <2> QED BY <1>3, <2>1
<1> QED BY <1>1, <1>2, <1>3

-----------------------------------------------------------------------------
(* What a step is, of the client's side.                                   *)

(* The client on another card.                                             *)
OnlyMoved(t, s) ==
    /\ IsClient(t)
    /\ t.review = s.review /\ t.revision = s.revision /\ t.version = s.version
    /\ t.total = s.total /\ t.rows = s.rows /\ t.cards = s.cards

(* A client that moved on differs in its current card only.                *)
LEMMA WithCurrentIs ==
  ASSUME NEW s, IsClient(s), NEW c
  PROVE  OnlyMoved(WithCurrent(s, c), s) /\ WithCurrent(s, c).current = c
<1> DEFINE t == WithCurrent(s, c)
<1>1. t = [review |-> s.review, revision |-> s.revision, version |-> s.version,
           total |-> s.total, rows |-> s.rows, cards |-> s.cards, current |-> c]
  BY DEF IsClient, WithCurrent
<1> HIDE DEF t
<1>2. /\ t.review = s.review /\ t.revision = s.revision /\ t.version = s.version
      /\ t.total = s.total /\ t.rows = s.rows /\ t.cards = s.cards /\ t.current = c
  BY <1>1
<1>3. IsClient(t)
  BY <1>1, <1>2 DEF IsClient
<1>4. OnlyMoved(t, s) /\ t.current = c
  BY <1>2, <1>3 DEF OnlyMoved
<1> QED BY <1>4 DEF t

Reading == {"changes", "rows", "around", "section"}

(* A request the client sends as it stands.                                *)
Sendable(q) ==
    /\ q.review = client.review /\ q.since = client.revision /\ q.current = client.current
    /\ \/ q.kind = "changes"
       \/ q.kind = "rows"
       \/ q.kind = "around" /\ q.id \in Cards /\ q.keep = FALSE
       \/ /\ q.kind = "section"
          /\ \E i \in DOMAIN client.rows : /\ ~IsCardRow(client.rows[i])
                                           /\ q.section = client.rows[i].section
       \/ /\ q.kind = "press" /\ q.id = client.current /\ q.id \in DOMAIN client.cards
          /\ q.landed \in {0, client.current} \cup Loaded(client)
       \/ /\ q.kind = "replace" /\ q.id = client.current /\ q.id \in DOMAIN client.cards
          /\ q.new \in Cards /\ ~Made(stored, q.new)
          /\ WordOf[q.new] = WordOf[q.id] /\ SourceOf[q.new] = SourceOf[q.id]

(* A request is on top of what is asked of every one.                      *)
LEMMA RequestIs ==
  ASSUME NEW kind, NEW more,
         DOMAIN more \cap {"kind", "review", "since", "current"} = {}
  PROVE  LET q == Request(kind, more) IN
         /\ q.kind = kind /\ q.review = client.review /\ q.since = client.revision
         /\ q.current = client.current
         /\ \A x \in DOMAIN more : q[x] = more[x]
<1> DEFINE f == [kind |-> kind, review |-> client.review, since |-> client.revision,
                 current |-> client.current]
           q == Request(kind, more)
<1>1. /\ DOMAIN f = {"kind", "review", "since", "current"}
      /\ f["kind"] = kind /\ f["review"] = client.review /\ f["since"] = client.revision
      /\ f["current"] = client.current
  OBVIOUS
<1>2. q = Over(more, f)
  BY Zenon DEF Request
<1> HIDE DEF f, q
<1>3. /\ \A x \in DOMAIN more : q[x] = more[x]
      /\ \A x \in DOMAIN f \ DOMAIN more : q[x] = f[x]
  <2>1. /\ \A x \in DOMAIN more : Over(more, f)[x] = more[x]
        /\ \A x \in DOMAIN f \ DOMAIN more : Over(more, f)[x] = f[x]
    BY OverIs, Zenon
  <2> QED BY <1>2, <2>1
<1>4. /\ q["kind"] = kind /\ q["review"] = client.review /\ q["since"] = client.revision
      /\ q["current"] = client.current
  BY <1>1, <1>3
<1> QED BY <1>3, <1>4 DEF q

SendSteps == Poll \/ LoadRows \/ GoTo \/ Toggle \/ Press \/ ReplacePhrase

(* The client sends a request it may send, and at most moves on.           *)
SendsOne(q) ==
    /\ Sendable(q)
    /\ flight' = flight \cup {Asked(q)}
    /\ Cardinality(flight) < MaxFlight
    /\ client' = client \/ \E c \in {client.current} \cup Loaded(client) : client' = WithCurrent(client, c)
    /\ q.kind = "press" => \A m \in flight : m.q.kind # "press"
    /\ acts < MaxActs /\ acts' = acts + 1
    /\ UNCHANGED <<stored, members, held, files, mark, overtaken, readBacks>>

(* Every action by which the client sends is of that one form.             *)
LEMMA SendsAre ==
  ASSUME SendSteps
  PROVE  \E q : SendsOne(q)
<1>0. ASSUME NEW kind, NEW more, Sends(kind, more), Sendable(Request(kind, more)),
             client' = client \/ \E c \in {client.current} \cup Loaded(client) :
                                    client' = WithCurrent(client, c),
             Request(kind, more).kind = "press" => \A m \in flight : m.q.kind # "press"
      PROVE  SendsOne(Request(kind, more))
  BY <1>0 DEF Sends, SendsOne, Acts, store
<1>1. CASE Poll
  <2> DEFINE more == <<>>
  <2>1. Sends("changes", more) /\ client' = client
    BY <1>1 DEF Poll, Still
  <2>2. DOMAIN more = {}
    OBVIOUS
  <2> HIDE DEF more
  <2> DEFINE q == Request("changes", more)
  <2>3. /\ q.kind = "changes" /\ q.review = client.review /\ q.since = client.revision
        /\ q.current = client.current
    BY <2>2, RequestIs
  <2> HIDE DEF q
  <2>4. Sendable(q) /\ q.kind # "press"
    BY <2>3 DEF Sendable
  <2> QED BY <1>0, <2>1, <2>4 DEF q
<1>2. CASE LoadRows
  <2>0. PICK i \in 1..client.total \ DOMAIN client.rows : Sends("rows", [start |-> i])
    BY <1>2 DEF LoadRows
  <2>1. client' = client
    BY <1>2 DEF LoadRows, Still
  <2> DEFINE more == [start |-> i]
             q == Request("rows", more)
  <2>2. DOMAIN more = {"start"}
    OBVIOUS
  <2> HIDE DEF more
  <2>3. /\ q.kind = "rows" /\ q.review = client.review /\ q.since = client.revision
        /\ q.current = client.current
    BY <2>2, RequestIs
  <2> HIDE DEF q
  <2>4. Sendable(q) /\ q.kind # "press"
    BY <2>3 DEF Sendable
  <2> QED BY <1>0, <2>0, <2>1, <2>4 DEF q, more
<1>3. CASE GoTo
  <2>0. PICK c \in Cards \ Loaded(client) : Sends("around", [id |-> c, keep |-> FALSE])
    BY <1>3 DEF GoTo
  <2>1. client' = client
    BY <1>3 DEF GoTo, Still
  <2> DEFINE no == FALSE
             more == [id |-> c, keep |-> no]
             q == Request("around", more)
  <2>2. DOMAIN more = {"id", "keep"} /\ more["id"] = c /\ more["keep"] = no
    <3> HIDE DEF no
    <3> QED OBVIOUS
  <2> HIDE DEF more, no
  <2>3. /\ q.kind = "around" /\ q.review = client.review /\ q.since = client.revision
        /\ q.current = client.current /\ \A x \in DOMAIN more : q[x] = more[x]
    BY <2>2, RequestIs
  <2> HIDE DEF q
  <2>5. q.id = c /\ q.keep = no
    BY <2>2, <2>3
  <2>6. q.keep = FALSE
    BY <2>5, Zenon DEF no
  <2>4. Sendable(q) /\ q.kind # "press"
    BY <2>3, <2>5, <2>6 DEF Sendable
  <2>7. Sends("around", more)
    BY <2>0, Zenon DEF more, no
  <2> QED BY <1>0, <2>7, <2>1, <2>4 DEF q
<1>4. CASE Toggle
  <2>0. PICK i \in DOMAIN client.rows :
          /\ ~IsCardRow(client.rows[i])
          /\ Sends("section", [section |-> client.rows[i].section, open |-> ~client.rows[i].open])
    BY <1>4, Zenon DEF Toggle
  <2>1. client' = client
    BY <1>4 DEF Toggle
  <2> DEFINE open == ~client.rows[i].open
             more == [section |-> client.rows[i].section, open |-> open]
             q == Request("section", more)
  <2>2. DOMAIN more = {"section", "open"} /\ more["section"] = client.rows[i].section
    <3> HIDE DEF open
    <3> QED OBVIOUS
  <2> HIDE DEF more
  <2>3. /\ q.kind = "section" /\ q.review = client.review /\ q.since = client.revision
        /\ q.current = client.current /\ \A x \in DOMAIN more : q[x] = more[x]
    BY <2>2, RequestIs
  <2> HIDE DEF q
  <2>5. q.section = client.rows[i].section
    BY <2>2, <2>3
  <2>4. Sendable(q) /\ q.kind # "press"
    BY <2>0, <2>3, <2>5 DEF Sendable
  <2>7. Sends("section", more)
    BY <2>0, Zenon DEF more
  <2> QED BY <1>0, <2>7, <2>1, <2>4 DEF q
<1>5. CASE Press
  <2>0. PICK landed \in {0, client.current} \cup Loaded(client) :
          /\ Sends("press", [id |-> client.current, landed |-> landed])
          /\ client' = IF landed = 0 THEN client ELSE WithCurrent(client, landed)
    BY <1>5, Zenon DEF Press
  <2>1. client' = client \/ \E c \in {client.current} \cup Loaded(client) :
                                    client' = WithCurrent(client, c)
    BY <2>0
  <2> DEFINE more == [id |-> client.current, landed |-> landed]
             q == Request("press", more)
  <2>2. DOMAIN more = {"id", "landed"} /\ more["id"] = client.current /\ more["landed"] = landed
    OBVIOUS
  <2> HIDE DEF more
  <2>3. /\ q.kind = "press" /\ q.review = client.review /\ q.since = client.revision
        /\ q.current = client.current /\ \A x \in DOMAIN more : q[x] = more[x]
    BY <2>2, RequestIs
  <2> HIDE DEF q
  <2>5. q.id = client.current /\ q.landed = landed
    BY <2>2, <2>3
  <2>6. client.current \in DOMAIN client.cards /\ \A m \in flight : m.q.kind # "press"
    BY <1>5 DEF Press
  <2>4. Sendable(q)
    BY <2>0, <2>3, <2>5, <2>6 DEF Sendable
  <2>7. Sends("press", more)
    BY <2>0, Zenon DEF more
  <2> QED BY <1>0, <2>7, <2>1, <2>4, <2>6 DEF q
<1>6. CASE ReplacePhrase
  <2>0. PICK new \in Cards :
          /\ WordOf[new] = WordOf[client.current] /\ SourceOf[new] = SourceOf[client.current]
          /\ ~Made(stored, new)
          /\ Sends("replace", [id |-> client.current, new |-> new])
    BY <1>6, Zenon DEF ReplacePhrase
  <2>1. client' = client
    BY <1>6 DEF ReplacePhrase, Still
  <2> DEFINE more == [id |-> client.current, new |-> new]
             q == Request("replace", more)
  <2>2. DOMAIN more = {"id", "new"} /\ more["id"] = client.current /\ more["new"] = new
    OBVIOUS
  <2> HIDE DEF more
  <2>3. /\ q.kind = "replace" /\ q.review = client.review /\ q.since = client.revision
        /\ q.current = client.current /\ \A x \in DOMAIN more : q[x] = more[x]
    BY <2>2, RequestIs
  <2> HIDE DEF q
  <2>5. q.id = client.current /\ q.new = new
    BY <2>2, <2>3
  <2>6. client.current \in DOMAIN client.cards
    BY <1>6 DEF ReplacePhrase
  <2>4. Sendable(q) /\ q.kind # "press"
    BY <2>0, <2>3, <2>5, <2>6 DEF Sendable
  <2>7. Sends("replace", more)
    BY <2>0, Zenon DEF more
  <2> QED BY <1>0, <2>7, <2>1, <2>4 DEF q
<1> QED BY <1>1, <1>2, <1>3, <1>4, <1>5, <1>6 DEF SendSteps

-----------------------------------------------------------------------------
(* What a step is, of the server's side.                                   *)

Kinds == Reading \cup {"press", "replace"}

ServesOne(m) ==
    LET q == m.q
        out == Outcome(q) IN
    /\ m \in flight /\ Serves(m)
    /\ stored' = After(q)
    /\ held' = [id |-> q.review, review |-> out.review]
    /\ files' = [id |-> q.review, heavy |-> HeavyAfter(q, out.review),
                 light |-> LightOf(out.review)]
    /\ mark' = out.review.version
    /\ readBacks' = IF held.id = q.review THEN readBacks ELSE readBacks + 1
    /\ Answering(m, OfReview(out.answer, q.review))
    /\ UNCHANGED <<members, client, unfolded, overtaken, acts>>

(* An answered request is one such step.                                   *)
LEMMA ServesAre ==
  ASSUME Serve
  PROVE  \E m \in flight : ServesOne(m)
BY Zenon DEF Serve, ServesOne, screen

(* A request is answered from what it leaves stored.                       *)
LEMMA OutcomeIs ==
  ASSUME Projection(stored), NEW q, q.kind \in Kinds, IsReview(Found(q))
  PROVE  AnswersFor(Outcome(q), Found(q), After(q))
<1> DEFINE r == Found(q)
<1>0. ~Writes(q) => After(q) = stored
  BY AfterIs, Zenon
<1>1. CASE q.kind = "changes"
  <2>1. Outcome(q) = Build(r, stored, members, q, 0, 0, 0)
    BY <1>1 DEF Outcome, Changes
  <2>2. After(q) = stored
    BY <1>0, <1>1 DEF Writes
  <2>3. AnswersFor(Build(r, stored, members, q, 0, 0, 0), r, stored)
    BY BuildContinues, Zenon
  <2> QED BY <2>1, <2>2, <2>3
<1>2. CASE q.kind = "rows"
  <2>1. Outcome(q) = ReadRows(r, stored, q, q.start, RowsPerFetch)
    BY <1>2 DEF Outcome
  <2>2. After(q) = stored
    BY <1>0, <1>2 DEF Writes
  <2>3. AnswersFor(ReadRows(r, stored, q, q.start, RowsPerFetch), r, stored)
    BY ReadsContinue, Zenon
  <2> QED BY <2>1, <2>2, <2>3
<1>3. CASE q.kind = "around"
  <2>1. Outcome(q) = ReadAround(r, stored, q.id)
    BY <1>3 DEF Outcome
  <2>2. After(q) = stored
    BY <1>0, <1>3 DEF Writes
  <2>3. AnswersFor(ReadAround(r, stored, q.id), r, stored)
    BY ReadsContinue, Zenon
  <2> QED BY <2>1, <2>2, <2>3
<1>4. CASE q.kind = "section"
  <2>1. Outcome(q) = SetSection(r, stored, q, q.section, q.open)
    BY <1>4 DEF Outcome
  <2>2. After(q) = stored
    BY <1>0, <1>4 DEF Writes
  <2>3. AnswersFor(SetSection(r, stored, q, q.section, q.open), r, stored)
    BY ReadsContinue, Zenon
  <2> QED BY <2>1, <2>2, <2>3
<1>5. CASE q.kind = "press"
  <2> DEFINE wasDone == stored[q.id].live /\ stored[q.id].section = "reviewed"
             asked == FocusAfterPress(r.order, q.id, wasDone, DoneIn(After(q)))
  <2>1. Outcome(q) = Build(r, After(q), members, q, asked, 0, 0)
    BY <1>5 DEF Outcome, Pressed
  <2>3. AnswersFor(Build(r, After(q), members, q, asked, 0, 0), r, After(q))
    BY BuildContinues, Zenon
  <2> QED BY <2>1, <2>3
<1>6. CASE q.kind = "replace"
  <2>1. Outcome(q) = Build(r, After(q), members, q, q.new, q.id, q.new)
    BY <1>6 DEF Outcome, Replaced
  <2>3. AnswersFor(Build(r, After(q), members, q, q.new, q.id, q.new), r, After(q))
    BY BuildContinues, Zenon
  <2> QED BY <2>1, <2>3
<1> QED BY <1>1, <1>2, <1>3, <1>4, <1>5, <1>6 DEF Kinds, Reading

-----------------------------------------------------------------------------
(* What the client receives.                                               *)

(* An answer of a read, a poll or a change lands.                          *)
Receives(m, window, keep) ==
    LET u == m.a[1]
        after == Applied(client, u, window, keep) IN
    /\ m \in flight /\ m.a # <<>> /\ IsAnswer(u) /\ m.q.kind \in Kinds
    /\ window <=> m.q.kind \in {"rows", "around", "section"}
    /\ client' = after \/ (u.focus # 0 /\ client' = WithCurrent(after, u.focus))
    /\ flight' = (flight \ {m}) \cup Recentering(u, after)
    /\ overtaken' = (overtaken \/ Overtaken(client, u))
    /\ UNCHANGED <<stored, members, held, files, mark, unfolded, acts, readBacks>>

(* A landing answer is one such step, whatever it answers.                 *)
LEMMA ReceivesAre ==
  ASSUME ReceiveRead \/ ReceiveChange
  PROVE  \E m \in flight : \E window, keep \in BOOLEAN : Receives(m, window, keep)
<1>1. CASE ReceiveRead
  <2>1. PICK m \in Answers :
          /\ m.q.kind \in {"changes", "rows", "around", "section"} /\ IsAnswer(m.a[1])
          /\ LET u == m.a[1]
                 after == Applied(client, u, m.q.kind # "changes",
                                  m.q.kind = "around" /\ m.q.keep)
             IN  /\ Landed(m, after, Recentering(u, after))
                 /\ overtaken' = (overtaken \/ Overtaken(client, u))
    BY <1>1, Zenon DEF ReceiveRead
  <2> DEFINE window == m.q.kind # "changes"
             keep == m.q.kind = "around" /\ m.q.keep
  <2>2. window \in BOOLEAN /\ keep \in BOOLEAN
    OBVIOUS
  <2>3. window <=> m.q.kind \in {"rows", "around", "section"}
    BY <2>1
  <2>4. m \in flight /\ m.a # <<>> /\ m.q.kind \in Kinds
    BY <2>1 DEF Answers, Kinds, Reading
  <2> HIDE DEF window, keep
  <2>5. LET u == m.a[1]
            after == Applied(client, u, window, keep)
        IN  /\ Landed(m, after, Recentering(u, after))
            /\ overtaken' = (overtaken \/ Overtaken(client, u))
    BY <2>1, Zenon DEF window, keep
  <2>6. Receives(m, window, keep)
    BY <2>1, <2>3, <2>4, <2>5, Zenon DEF Receives, Landed, store
  <2> QED BY <2>2, <2>4, <2>6
<1>2. CASE ReceiveChange
  <2>1. PICK m \in Answers :
          /\ Writes(m.q) /\ IsAnswer(m.a[1])
          /\ LET u == m.a[1]
                 ahead == m.q.kind = "press" /\ m.q.landed # 0
                 stale == Stale(client, u)
                 after == Applied(client, u, FALSE, ahead)
                 follows == /\ u.focus # 0
                            /\ ~(ahead /\ client.current # m.q.landed)
                            /\ ahead \/ stale
                            /\ ~stale \/ u.focus \in Loaded(after)
             IN  /\ Landed(m, IF follows THEN WithCurrent(after, u.focus) ELSE after,
                           Recentering(u, after))
                 /\ overtaken' = (overtaken \/ Overtaken(client, u))
    BY <1>2, Zenon DEF ReceiveChange
  <2> DEFINE window == FALSE
             keep == m.q.kind = "press" /\ m.q.landed # 0
             u == m.a[1]
             after == Applied(client, u, window, keep)
  <2>2. window \in BOOLEAN /\ keep \in BOOLEAN
    OBVIOUS
  <2>3. window <=> m.q.kind \in {"rows", "around", "section"}
    BY <2>1 DEF Writes
  <2>4. m \in flight /\ m.a # <<>> /\ m.q.kind \in Kinds
    BY <2>1 DEF Answers, Kinds, Reading, Writes
  <2>5. \E follows \in BOOLEAN :
          /\ follows => u.focus # 0
          /\ Landed(m, IF follows THEN WithCurrent(after, u.focus) ELSE after,
                    Recentering(u, after))
          /\ overtaken' = (overtaken \/ Overtaken(client, u))
    BY <2>1, Zenon
  <2> HIDE DEF window, keep
  <2>6. Receives(m, window, keep)
    <3> HIDE DEF after
    <3>1. /\ client' = after \/ (u.focus # 0 /\ client' = WithCurrent(after, u.focus))
          /\ flight' = (flight \ {m}) \cup Recentering(u, after)
          /\ overtaken' = (overtaken \/ Overtaken(client, u))
          /\ UNCHANGED <<stored, members, store, unfolded, acts, readBacks>>
      BY <2>5, Zenon DEF Landed
    <3> QED BY <2>1, <2>3, <2>4, <3>1, Zenon DEF Receives, store, after
  <2> QED BY <2>2, <2>4, <2>6
<1> QED BY <1>1, <1>2

-----------------------------------------------------------------------------
(* The shapes of what there is.                                            *)

IsAnswerTo(q, a) ==
    /\ a = [review |-> a.review, revision |-> a.revision, focus |-> a.focus,
            removed |-> a.removed, layout |-> a.layout, cards |-> a.cards]
    /\ a.review = IF q.kind = "open" THEN q.review + 1 ELSE q.review
    /\ a.revision \in Nat
    /\ a.layout = <<>> \/ (a.layout = <<a.layout[1]>> /\ a.layout[1].version \in Nat)
    /\ q.kind = "open" => a.layout # <<>>

Delivered(q, a) ==
    IF IsAnswer(a) THEN IsAnswerTo(q, a) ELSE q.kind # "open"

MessageFits(m, review) ==
    /\ m = [q |-> m.q, a |-> m.a]
    /\ m.q.kind \in Kinds \cup {"open"}
    /\ m.q.review \in 1 .. review
    /\ m.q.kind = "open" => m.q.review = review
    /\ m.a = <<>> \/ (m.a = <<m.a[1]>> /\ Delivered(m.q, m.a[1]))

OneOpening == \A m, n \in flight : m.q.kind = "open" /\ n.q.kind = "open" => m = n

HeldFits(h, review) ==
    h = Nowhere \/ /\ h = [id |-> h.id, review |-> h.review]
                   /\ h.id \in 1 .. (review + 1) /\ IsReview(h.review) /\ Shown(h.review)

FilesFit(f) ==
    f = Nowhere \/ /\ f = [id |-> f.id, heavy |-> f.heavy, light |-> f.light]
                   /\ f.id \in Nat \ {0} /\ f.light.version \in Nat

ClientFits ==
    /\ IsClient(client) /\ client.review \in Nat \ {0}
    /\ client.version \in Nat /\ client.revision \in Nat

Shapes ==
    /\ Projection(stored)
    /\ ClientFits
    /\ HeldFits(held, client.review) /\ FilesFit(files)
    /\ \A m \in flight : MessageFits(m, client.review)
    /\ OneOpening
    /\ readBacks \in Nat

(* No review has an id that a request may carry.                           *)
LEMMA NowhereIs == Nowhere.id = 0
BY DEF Nowhere

(* An answer that is sent.                                                 *)
LEMMA OfReviewIs ==
  ASSUME NEW u, NEW id
  PROVE  LET a == OfReview(u, id) IN
         /\ a = [review |-> a.review, revision |-> a.revision, focus |-> a.focus,
                 removed |-> a.removed, layout |-> a.layout, cards |-> a.cards]
         /\ IsAnswer(a)
         /\ a.review = id /\ a.revision = u.revision /\ a.focus = u.focus
         /\ a.removed = u.removed /\ a.layout = u.layout /\ a.cards = u.cards
<1> DEFINE a == OfReview(u, id)
<1>1. a = [review |-> id, revision |-> u.revision, focus |-> u.focus, removed |-> u.removed,
           layout |-> u.layout, cards |-> u.cards]
  BY DEF OfReview
<1> HIDE DEF a
<1>2. /\ a.review = id /\ a.revision = u.revision /\ a.focus = u.focus
      /\ a.removed = u.removed /\ a.layout = u.layout /\ a.cards = u.cards
  BY <1>1
<1>3. "revision" \in DOMAIN a
  BY <1>1
<1> QED BY <1>1, <1>2, <1>3 DEF IsAnswer, a

(* Refusals are no answers.                                                *)
LEMMA RefusalsAre == ~IsAnswer(Refused) /\ ~IsAnswer(Expired) /\ Refused # Expired
BY DEF IsAnswer, Refused, Expired

(* The message once it is answered.                                        *)
LEMMA AnsweredMessage ==
  ASSUME NEW review, NEW m, MessageFits(m, review), NEW a
  PROVE  LET n == [m EXCEPT !.a = <<a>>] IN
         n = [q |-> m.q, a |-> <<a>>] /\ n.q = m.q /\ n.a = <<a>> /\ n.a[1] = a
<1> DEFINE n == [m EXCEPT !.a = <<a>>]
<1>1. m = [q |-> m.q, a |-> m.a]
  BY DEF MessageFits
<1>2. n = [q |-> m.q, a |-> <<a>>]
  BY <1>1
<1> QED BY <1>2

(* A review found for a request is one.                                    *)
LEMMA FoundIsReview ==
  ASSUME Shapes, NEW q, q.review \in Nat \ {0}, Holds(q)
  PROVE  /\ IsReview(Found(q))
         /\ held.id = q.review => held # Nowhere /\ Found(q) = held.review
         /\ held.id # q.review => files # Nowhere /\ files.id = q.review
                                  /\ Found(q) = Joined(files.heavy, files.light)
<1>1. CASE held.id = q.review
  <2>1. held # Nowhere
    BY <1>1, NowhereIs
  <2>2. IsReview(held.review)
    BY <2>1 DEF Shapes, HeldFits
  <2> QED BY <1>1, <2>1, <2>2 DEF Found
<1>2. CASE held.id # q.review
  <2>1. files.id = q.review
    BY <1>2 DEF Holds
  <2>2. files # Nowhere
    BY <2>1, NowhereIs
  <2>3. files.light.version \in Nat
    BY <2>2 DEF Shapes, FilesFit
  <2> DEFINE r == Joined(files.heavy, files.light)
  <2>4. r = [sources |-> files.light.sources, order |-> files.heavy,
             opened |-> files.light.opened, served |-> files.light.served,
             current |-> files.light.current, version |-> files.light.version, shown |-> <<>>]
    BY DEF Joined
  <2> HIDE DEF r
  <2>5. /\ r.sources = files.light.sources /\ r.order = files.heavy
        /\ r.opened = files.light.opened /\ r.served = files.light.served
        /\ r.current = files.light.current /\ r.version = files.light.version
        /\ r.shown = <<>>
    BY <2>4
  <2>6. IsReview(r)
    BY <2>3, <2>4, <2>5 DEF IsReview
  <2>7. Found(q) = r
    BY <1>2 DEF Found, r
  <2> QED BY <1>2, <2>1, <2>2, <2>6, <2>7 DEF r
<1> QED BY <1>1, <1>2

(* The opening of a review: a list under version 0, and its answer.        *)
LEMMA OpeningIs ==
  ASSUME Projection(stored), NEW sections, NEW requested
  PROVE  LET o == OpeningOf(sections, requested)
             r == o.review
             l == o.answer.layout[1]
         IN  /\ IsReview(r) /\ Shown(r) /\ r.version = 0
             /\ r.sources = members /\ r.order = OpenedOrder(stored, members)
             /\ r.current = InitialFocus(r.order, DoneIn(stored), requested)
             /\ o.answer.focus = r.current
             /\ r.opened = sections
             /\ Tells(o.answer, r) /\ o.answer.layout = <<l>>
             /\ o.answer.revision = Revision(stored)
<1> DEFINE p == Opened(stored, members, sections, requested)
           r == Laid(p)
           o == OpeningOf(sections, requested)
<1>1. p = [sources |-> members, order |-> OpenedOrder(stored, members), opened |-> sections,
           served |-> {},
           current |-> InitialFocus(OpenedOrder(stored, members), DoneIn(stored), requested),
           version |-> 0, shown |-> <<>>]
  BY Zenon DEF Opened
<1> HIDE DEF p
<1>2. /\ p.sources = members /\ p.order = OpenedOrder(stored, members) /\ p.opened = sections
      /\ p.current = InitialFocus(p.order, DoneIn(stored), requested)
      /\ p.served = {} /\ p.version = 0 /\ p.shown = <<>>
  BY <1>1
<1> DEFINE shown == <<Unfolded(p.order, p.opened, p.current)>>
<1>3. r = [p EXCEPT !.shown = shown, !.version = IF p.shown = <<>> THEN @ ELSE @ + 1]
  <2>1. p.shown # shown
    BY <1>2
  <2> QED BY <2>1 DEF Laid
<1> HIDE DEF r
<1>4. r = [sources |-> p.sources, order |-> p.order, opened |-> p.opened, served |-> p.served,
           current |-> p.current, version |-> p.version, shown |-> shown]
  <2>1. p = [sources |-> p.sources, order |-> p.order, opened |-> p.opened,
             served |-> p.served, current |-> p.current, version |-> p.version,
             shown |-> p.shown]
    BY <1>1, <1>2
  <2> HIDE DEF shown
  <2> QED BY <1>2, <1>3, <2>1
<1>5. /\ r.sources = p.sources /\ r.order = p.order /\ r.opened = p.opened
      /\ r.served = p.served /\ r.current = p.current /\ r.version = p.version
      /\ r.shown = shown
  <2> HIDE DEF shown
  <2> QED BY <1>4
<1>6. IsReview(r)
  <2>1. shown = <<shown[1]>>
    OBVIOUS
  <2> HIDE DEF shown
  <2> QED BY <1>2, <1>4, <1>5, <2>1 DEF IsReview
<1>7. Shown(r)
  BY <1>5 DEF Shown
<1> HIDE DEF shown
<1> DEFINE yes == TRUE
<1>8. o = Answered(r, stored, NoWindow, yes, r.current, {}, {})
  BY Zenon DEF OpeningOf, r, p
<1>12. yes = TRUE
  OBVIOUS
<1> HIDE DEF o, yes
<1>9. AnswersFor(o, r, stored)
  BY <1>6, <1>7, <1>8, AnswerTells
<1>10. AnswerOf(o, r, stored, NoWindow, yes, r.current, {}, {})
  BY <1>6, <1>8, AnswerIs
<1>11. o.answer.layout = <<ListSent(r, NoWindow, yes)>>
  BY <1>10, <1>12 DEF AnswerOf
<1>13. /\ o.review.sources = r.sources /\ o.review.order = r.order
       /\ o.review.opened = r.opened /\ o.review.current = r.current
       /\ o.review.version = r.version /\ o.answer.focus = r.current
  BY <1>10 DEF AnswerOf
<1>14. Tells(o.answer, o.review) /\ IsReview(o.review) /\ Shown(o.review)
       /\ o.answer.revision = Revision(stored)
  BY <1>9 DEF AnswersFor, Continues
<1>15. o.answer.layout = <<o.answer.layout[1]>>
  BY <1>11
<1>16. o.review.current = InitialFocus(o.review.order, DoneIn(stored), requested)
  BY <1>13, <1>5, <1>2
<1> QED BY <1>2, <1>5, <1>13, <1>14, <1>15, <1>16 DEF o

-----------------------------------------------------------------------------
(* Each step keeps the shapes.                                             *)

(* An unsent request asked, which is not one of an opening.                *)
LEMMA AskedFits ==
  ASSUME NEW review, NEW q, q.kind \in Kinds \cup {"open"}, q.review \in 1 .. review,
         q.kind = "open" => q.review = review
  PROVE  /\ MessageFits(Asked(q), review) /\ Asked(q).q = q /\ Asked(q).a = <<>>
<1>1. Asked(q) = [q |-> q, a |-> <<>>]
  BY DEF Asked
<1>2. Asked(q).q = q /\ Asked(q).a = <<>>
  BY <1>1
<1> QED BY <1>1, <1>2 DEF MessageFits

(* An opening is neither a read nor a change.                              *)
LEMMA OpeningIsNoKind == "open" \notin Kinds
BY DEF Kinds, Reading

(* Messages that fit, one of them answered or some of them gone.           *)
LEMMA MessagesKept ==
  ASSUME NEW review, \A m \in flight : MessageFits(m, review), OneOpening,
         NEW gone, NEW more,
         flight' = (flight \ gone) \cup more,
         \A n \in more : MessageFits(n, review),
         \A n \in more : n.q.kind = "open" =>
             /\ \A m \in flight \ gone : m.q.kind # "open"
             /\ \A m \in more : m.q.kind = "open" => m = n
  PROVE  (\A m \in flight' : MessageFits(m, review)) /\ OneOpening'
BY DEF OneOpening

(* The message answered: it still fits, and so do the others.              *)
LEMMA AnsweringKeeps ==
  ASSUME NEW review, \A m \in flight : MessageFits(m, review), OneOpening,
         NEW m \in flight, NEW a, Answering(m, a), Delivered(m.q, a)
  PROVE  (\A n \in flight' : MessageFits(n, review)) /\ OneOpening'
<1> DEFINE n == [m EXCEPT !.a = <<a>>]
<1>1. MessageFits(m, review)
  OBVIOUS
<1>2. n = [q |-> m.q, a |-> <<a>>] /\ n.q = m.q /\ n.a = <<a>> /\ n.a[1] = a
  BY <1>1, AnsweredMessage
<1>3. flight' = (flight \ {m}) \cup {n}
  BY DEF Answering
<1> HIDE DEF n
<1>4. MessageFits(n, review)
  BY <1>1, <1>2 DEF MessageFits
<1>5. n.q.kind = "open" => \A o \in flight \ {m} : o.q.kind # "open"
  BY <1>2 DEF OneOpening
<1> DEFINE gone == {m}
           more == {n}
<1>6. /\ flight' = (flight \ gone) \cup more
      /\ \A o \in more : MessageFits(o, review)
      /\ \A o \in more : o.q.kind = "open" =>
             /\ \A p \in flight \ gone : p.q.kind # "open"
             /\ \A p \in more : p.q.kind = "open" => p = o
  BY <1>3, <1>4, <1>5
<1> HIDE DEF gone, more
<1> QED BY <1>6, MessagesKept

(* A review kept in memory.                                                *)
LEMMA HeldFitsAs ==
  ASSUME NEW review \in Nat, NEW id \in 1 .. (review + 1), NEW r, IsReview(r), Shown(r)
  PROVE  LET h == [id |-> id, review |-> r] IN
         HeldFits(h, review) /\ h.id = id /\ h.review = r /\ h # Nowhere
<1> DEFINE h == [id |-> id, review |-> r]
<1>1. h.id = id /\ h.review = r
  OBVIOUS
<1>2. h # Nowhere
  BY <1>1, NowhereIs
<1> QED BY <1>1, <1>2 DEF HeldFits

(* A folder a review is written to.                                        *)
LEMMA FilesFitAs ==
  ASSUME NEW id \in Nat \ {0}, NEW heavy, NEW r, IsReview(r)
  PROVE  LET f == [id |-> id, heavy |-> heavy, light |-> LightOf(r)] IN
         /\ FilesFit(f) /\ f.id = id /\ f.heavy = heavy /\ f # Nowhere
         /\ f.light.version = r.version /\ f.light.sources = r.sources
         /\ f.light.opened = r.opened /\ f.light.served = r.served /\ f.light.current = r.current
<1> DEFINE light == LightOf(r)
           f == [id |-> id, heavy |-> heavy, light |-> light]
<1>1. /\ light.version = r.version /\ light.sources = r.sources /\ light.opened = r.opened
      /\ light.served = r.served /\ light.current = r.current
  BY DEF LightOf
<1> HIDE DEF light
<1>2. f.id = id /\ f.heavy = heavy /\ f.light = light
  OBVIOUS
<1>3. r.version \in Nat
  BY DEF IsReview
<1>4. f # Nowhere
  BY <1>2, NowhereIs
<1>5. FilesFit(f)
  BY <1>1, <1>2, <1>3 DEF FilesFit
<1> QED BY <1>1, <1>2, <1>4, <1>5 DEF light

(* What an answer leaves is a client.                                      *)
LEMMA AppliedIsClient ==
  ASSUME NEW s, IsClient(s), NEW u, NEW window, NEW keep
  PROVE  IsClient(Applied(s, u, window, keep))
<1> DEFINE t == Applied(s, u, window, keep)
<1>1. CASE Ignored(s, u)
  <2>1. t = s
    BY <1>1 DEF Applied
  <2> QED BY <2>1
<1>2. CASE ~Ignored(s, u)
  BY <1>2, AppliedIs
<1> QED BY <1>1, <1>2

(* A client that opens a review knows what the answer told and no more.    *)
LEMMA ReopenedIs ==
  ASSUME NEW u, u.layout = <<u.layout[1]>>, u.layout[1].version \in Nat, u.revision \in Nat
  PROVE  LET t == Reopened(u)
             l == u.layout[1]
         IN  /\ IsClient(t) /\ t.review = u.review /\ t.revision = u.revision
             /\ t.version = l.version /\ t.total = l.total
             /\ t.current = u.focus
             /\ \A i \in DOMAIN t.rows : i \in DOMAIN l.rows /\ t.rows[i] = l.rows[i]
             /\ \A c \in DOMAIN t.cards : c \in DOMAIN u.cards /\ t.cards[c] = u.cards[c]
             /\ \A c \in DOMAIN u.cards : c \in Loaded(t) => c \in DOMAIN t.cards
<1> DEFINE s == InitialState
           no == FALSE
           t == Applied(s, u, no, no)
           l == u.layout[1]
<1>0. no = FALSE
  OBVIOUS
<1> HIDE DEF no
<1>1. /\ s.review = 0 /\ s.revision = 0 /\ s.version = 0 /\ s.total = 0 /\ s.current = 0
      /\ DOMAIN s.rows = {} /\ DOMAIN s.cards = {}
      /\ IsClient(s)
  BY DEF InitialState, IsClient
<1> HIDE DEF s
<1>2. ~Foreign(s, u) /\ ~Stale(s, u)
  BY <1>1 DEF Foreign, Stale
<1>3. u.layout # <<>>
  OBVIOUS
<1>4. Lands(s, u)
  BY <1>1, <1>2, <1>3 DEF Lands, Newer
<1>5. ~Ignored(s, u)
  BY <1>2 DEF Ignored
<1>6. /\ t.review = u.review
      /\ t.revision = u.revision
      /\ t.version = l.version
      /\ t.total = l.total
      /\ t.current = IF u.focus = 0 THEN s.current ELSE u.focus
      /\ \A i \in DOMAIN t.rows : IF i \in DOMAIN l.rows THEN t.rows[i] = l.rows[i]
                                  ELSE i \in DOMAIN s.rows
      /\ \A c \in DOMAIN t.cards : IF c \in DOMAIN u.cards THEN t.cards[c] = u.cards[c]
                                  ELSE c \in DOMAIN s.cards
      /\ \A i \in DOMAIN t.rows : ~(IsCardRow(t.rows[i]) /\ t.rows[i].id \in GoneOf(s, u))
      /\ \A c \in DOMAIN u.cards \ GoneOf(s, u) : c \in DOMAIN t.cards
  BY <1>0, <1>1, <1>2, <1>4, <1>5, AppliedIs
<1>7. IsClient(t)
  BY <1>1, AppliedIsClient
<1>8. Reopened(u) = t
  BY Zenon DEF Reopened, s, no
<1> HIDE DEF t
<1>9. \A c \in DOMAIN u.cards : c \in Loaded(t) => c \in DOMAIN t.cards
  BY <1>6 DEF Loaded
<1> QED BY <1>1, <1>6, <1>7, <1>8, <1>9

(* The first state.                                                        *)
LEMMA InitShapes ==
  ASSUME Init
  PROVE  Shapes
<1> DEFINE o == OpeningOf({}, 0)
           r == o.review
           a == OfReview(o.answer, 1)
           first == [c \in Cards |-> [live |-> c \in FirstCards, section |-> "ready",
                                      rev |-> IF c \in FirstCards THEN 1 ELSE 0]]
<1>1. Projection(stored)
  <2>1. stored = first
    BY Zenon DEF Init
  <2> DEFINE live(c) == c \in FirstCards
  <2>2. \A c \in Cards : first[c].section = "ready" /\ first[c].rev \in {0, 1}
                         /\ first[c] = [live |-> first[c].live, section |-> first[c].section,
                                        rev |-> first[c].rev]
    OBVIOUS
  <2>3. first = [c \in Cards |-> first[c]]
    OBVIOUS
  <2> HIDE DEF first
  <2> QED BY <2>1, <2>2, <2>3 DEF Projection
<1>2. /\ IsReview(r) /\ Shown(r) /\ r.version = 0
      /\ Tells(o.answer, r) /\ o.answer.layout = <<o.answer.layout[1]>>
      /\ o.answer.revision = Revision(stored)
  BY <1>1, OpeningIs
<1>3. held = [id |-> 1, review |-> r]
  BY Zenon DEF Init
<1>4. files = Written(1, [r EXCEPT !.served = {}])
  BY Zenon DEF Init
<1>5. client = Applied(InitialState, a, FALSE, FALSE)
  BY Zenon DEF Init, Reopened
<1>6. flight = {} /\ readBacks = 0
  BY DEF Init
<1> HIDE DEF o
<1>7. HeldFits(held, 1)
  BY <1>2, <1>3, HeldFitsAs
<1>8. FilesFit(files)
  <2> DEFINE s == [r EXCEPT !.served = {}]
  <2>1. s.version = r.version
    BY <1>2 DEF IsReview
  <2> HIDE DEF s
  <2>2. files = [id |-> 1, heavy |-> s.order, light |-> LightOf(s)]
    BY <1>4 DEF Written, s
  <2>3. files.id = 1 /\ files.light.version = s.version
    BY <2>2 DEF LightOf
  <2>4. files = [id |-> files.id, heavy |-> files.heavy, light |-> files.light]
    BY <2>2
  <2> QED BY <1>2, <2>1, <2>3, <2>4 DEF FilesFit
<1>9. ClientFits /\ client.review = 1
  <2>1. /\ a.review = 1 /\ a.layout = o.answer.layout /\ a.revision = o.answer.revision
    BY OfReviewIs
  <2> HIDE DEF a
  <2>2. a.layout = <<a.layout[1]>> /\ a.layout[1].version \in Nat
    BY <1>2, <2>1 DEF Tells
  <2>3. a.revision \in Nat
    BY <1>1, <1>2, <2>1, RevisionIs
  <2>4. client = Reopened(a)
    BY <1>5, Zenon DEF Reopened
  <2>5. /\ IsClient(client) /\ client.review = a.review /\ client.revision = a.revision
        /\ client.version = a.layout[1].version
    BY <2>2, <2>3, <2>4, ReopenedIs
  <2> QED BY <2>1, <2>2, <2>3, <2>5 DEF ClientFits
<1> QED BY <1>1, <1>6, <1>7, <1>8, <1>9 DEF Shapes, OneOpening

-----------------------------------------------------------------------------
(* Shapes that follow from the same client, store and messages.            *)
LEMMA SameShapes ==
  ASSUME Shapes, UNCHANGED <<client, held, files, flight, readBacks>>, Projection(stored')
  PROVE  Shapes'
BY DEF Shapes, ClientFits, OneOpening

(* The projection, the set and the store's memory change by themselves.    *)
LEMMA OtherShapes ==
  ASSUME Shapes, Elsewhere \/ SetChanges \/ MoveTo \/ LetGo \/ NewCode
  PROVE  Shapes'
<1>1. CASE Elsewhere
  <2>1. PICK c \in MayGo, live \in BOOLEAN, s \in {"ready", "reviewed"} :
          stored' = Wrote(c, live, s)
    BY <1>1, Zenon DEF Elsewhere
  <2>2. Projection(Wrote(c, live, s))
    BY WroteIs DEF Shapes
  <2>3. UNCHANGED <<client, held, files, flight, readBacks>>
    BY <1>1 DEF Elsewhere, Outside, store, screen
  <2> QED BY <2>1, <2>2, <2>3, SameShapes
<1>2. CASE SetChanges
  <2>1. UNCHANGED <<stored, client, held, files, flight, readBacks>>
    BY <1>2 DEF SetChanges, Outside, store, screen
  <2> QED BY <2>1, SameShapes DEF Shapes
<1>3. CASE MoveTo
  <2>1. PICK c \in Loaded(client) \ {client.current} : client' = WithCurrent(client, c)
    BY <1>3, Zenon DEF MoveTo
  <2>2. OnlyMoved(client', client)
    BY <2>1, WithCurrentIs DEF Shapes, ClientFits
  <2>3. UNCHANGED <<stored, held, files, flight, readBacks>>
    BY <1>3 DEF MoveTo, store
  <2> QED BY <2>2, <2>3 DEF Shapes, ClientFits, OneOpening, OnlyMoved
<1>4. CASE LetGo
  <2>1. held' = Nowhere /\ UNCHANGED <<stored, client, files, flight, readBacks>>
    BY <1>4 DEF LetGo, screen
  <2> QED BY <2>1 DEF Shapes, ClientFits, OneOpening, HeldFits
<1>5. CASE NewCode
  <2>1. /\ held' = Nowhere /\ files' = Nowhere
        /\ UNCHANGED <<stored, client, flight, readBacks>>
    BY <1>5 DEF NewCode, screen
  <2> QED BY <2>1 DEF Shapes, ClientFits, OneOpening, HeldFits, FilesFit
<1> QED BY <1>1, <1>2, <1>3, <1>4, <1>5

(* The client sends.                                                       *)
LEMMA SentShapes ==
  ASSUME Shapes, SendSteps
  PROVE  Shapes'
<1>1. PICK q : SendsOne(q)
  BY SendsAre
<1>2. Sendable(q) /\ flight' = flight \cup {Asked(q)}
      /\ UNCHANGED <<stored, held, files, readBacks>>
  BY <1>1 DEF SendsOne
<1>3. OnlyMoved(client', client)
  <2>1. IsClient(client)
    BY DEF Shapes, ClientFits
  <2>2. CASE client' = client
    BY <2>1, <2>2 DEF OnlyMoved
  <2>3. CASE client' # client
    <3>1. PICK c : client' = WithCurrent(client, c)
      BY <1>1, <2>3 DEF SendsOne
    <3> QED BY <2>1, <3>1, WithCurrentIs
  <2> QED BY <2>2, <2>3
<1>4. q.kind \in Kinds /\ q.review \in 1 .. client.review
  BY <1>2 DEF Sendable, Kinds, Reading, Shapes, ClientFits
<1>5. MessageFits(Asked(q), client.review) /\ Asked(q).q = q
  BY <1>4, AskedFits, OpeningIsNoKind
<1> DEFINE gone == {}
           more == {Asked(q)}
<1>6. /\ flight' = (flight \ gone) \cup more
      /\ \A o \in more : MessageFits(o, client.review)
      /\ \A o \in more : o.q.kind # "open"
  BY <1>2, <1>4, <1>5, OpeningIsNoKind
<1> HIDE DEF gone, more
<1>7. (\A m \in flight' : MessageFits(m, client.review)) /\ OneOpening'
  <2>1. (\A m \in flight : MessageFits(m, client.review)) /\ OneOpening
    BY DEF Shapes
  <2> QED BY <1>6, <2>1, MessagesKept
<1> QED BY <1>2, <1>3, <1>7 DEF Shapes, ClientFits, OnlyMoved

(* What a request leaves in memory and in its folder.                      *)
LEMMA ServedShapes ==
  ASSUME Shapes, NEW m \in flight, ServesOne(m)
  PROVE  /\ Shapes'
         /\ m.q.kind \in Kinds /\ m.q.review \in Nat \ {0} /\ m.q.review <= client.review
         /\ IsReview(Found(m.q))
         /\ AnswersFor(Outcome(m.q), Found(m.q), stored')
<1> DEFINE q == m.q
           out == Outcome(q)
           a == OfReview(out.answer, q.review)
<1>1. /\ stored' = After(q)
      /\ held' = [id |-> q.review, review |-> out.review]
      /\ files' = [id |-> q.review, heavy |-> HeavyAfter(q, out.review),
                   light |-> LightOf(out.review)]
      /\ readBacks' = IF held.id = q.review THEN readBacks ELSE readBacks + 1
      /\ Answering(m, a)
      /\ client' = client
  BY DEF ServesOne
<1>2. /\ q.kind \in Kinds /\ q.review \in 1 .. client.review /\ Holds(q)
      /\ client.review \in Nat
  BY DEF ServesOne, Serves, Shapes, MessageFits, ClientFits
<1>3. IsReview(Found(q)) /\ q.review \in Nat \ {0}
  BY <1>2, FoundIsReview
<1>4. AnswersFor(out, Found(q), After(q)) /\ Projection(After(q))
  <2>1. Projection(stored)
    BY DEF Shapes
  <2> QED BY <1>2, <1>3, <2>1, OutcomeIs, AfterIs
<1>5. IsReview(out.review) /\ Shown(out.review) /\ Tells(out.answer, out.review)
      /\ out.answer.revision \in Nat
  BY <1>4, RevisionIs DEF AnswersFor, Continues
<1>6. HeldFits(held', client.review)
  <2>1. q.review \in 1 .. (client.review + 1)
    BY <1>2
  <2> HIDE DEF q, out
  <2> QED BY <1>1, <1>2, <1>5, <2>1, HeldFitsAs
<1>7. FilesFit(files')
  <2> HIDE DEF q, out
  <2> QED BY <1>1, <1>3, <1>5, FilesFitAs
<1>8. Delivered(q, a)
  <2>1. /\ a = [review |-> a.review, revision |-> a.revision, focus |-> a.focus,
                removed |-> a.removed, layout |-> a.layout, cards |-> a.cards]
        /\ IsAnswer(a) /\ a.review = q.review /\ a.revision = out.answer.revision
        /\ a.layout = out.answer.layout
    BY OfReviewIs
  <2> HIDE DEF a
  <2>2. a.layout = <<>> \/ (a.layout = <<a.layout[1]>> /\ a.layout[1].version \in Nat)
    BY <1>5, <2>1 DEF Tells, IsReview
  <2>3. q.kind # "open"
    BY <1>2, OpeningIsNoKind
  <2> QED BY <1>5, <2>1, <2>2, <2>3 DEF Delivered, IsAnswerTo
<1> HIDE DEF a
<1>9. (\A n \in flight' : MessageFits(n, client.review)) /\ OneOpening'
  <2>1. (\A n \in flight : MessageFits(n, client.review)) /\ OneOpening
    BY DEF Shapes
  <2> QED BY <1>1, <1>8, <2>1, AnsweringKeeps
<1>10. readBacks' \in Nat
  BY <1>1 DEF Shapes
<1> HIDE DEF q, out
<1>11. Shapes'
  BY <1>1, <1>4, <1>6, <1>7, <1>9, <1>10 DEF Shapes, ClientFits
<1> QED BY <1>1, <1>2, <1>3, <1>4, <1>11 DEF q, out

(* A request refused, or lost with the app.                                *)
LEMMA RefusedShapes ==
  ASSUME Shapes, NEW m \in flight, m.q.kind # "open", NEW a \in {Refused, Expired},
         Answering(m, a), client' = client, readBacks' = readBacks,
         Projection(stored'), HeldFits(held', client.review), FilesFit(files')
  PROVE  Shapes'
<1>1. Delivered(m.q, a)
  BY RefusalsAre DEF Delivered
<1>2. (\A n \in flight : MessageFits(n, client.review)) /\ OneOpening
  BY DEF Shapes
<1>3. (\A n \in flight' : MessageFits(n, client.review)) /\ OneOpening'
  BY <1>1, <1>2, AnsweringKeeps
<1> QED BY <1>3 DEF Shapes, ClientFits

(* A refusal, and a death between the writes of the two files.             *)
LEMMA FailedShapes ==
  ASSUME Shapes, Refuse \/ DieWriting
  PROVE  Shapes'
<1>1. CASE Refuse
  <2>1. PICK m \in flight :
          /\ m.q.kind # "open"
          /\ Answering(m, Refused) \/ Answering(m, Expired)
          /\ UNCHANGED <<stored, held, files, client, readBacks>>
    BY <1>1, Zenon DEF Refuse, store, screen
  <2>2. Projection(stored') /\ HeldFits(held', client.review) /\ FilesFit(files')
    BY <2>1 DEF Shapes
  <2> QED BY <2>1, <2>2, RefusedShapes
<1>2. CASE DieWriting
  <2>1. PICK m \in flight :
          /\ Serves(m) /\ held.id = m.q.review
          /\ files' = [files EXCEPT !.heavy = HeavyAfter(m.q, Outcome(m.q).review)]
          /\ stored' = After(m.q)
          /\ Answering(m, Refused)
    BY <1>2, Zenon DEF DieWriting
  <2>2. held' = Nowhere /\ UNCHANGED <<client, readBacks>>
    BY <1>2 DEF DieWriting, screen
  <2>3. Projection(stored')
    BY <2>1, AfterIs DEF Shapes
  <2>4. FilesFit(files')
    <3> DEFINE heavy == HeavyAfter(m.q, Outcome(m.q).review)
    <3>1. files' = [files EXCEPT !.heavy = heavy]
      BY <2>1
    <3> HIDE DEF heavy
    <3>2. CASE files = Nowhere
      <4>1. files' = Nowhere
        BY <3>1, <3>2 DEF Nowhere
      <4> QED BY <4>1 DEF FilesFit
    <3>3. CASE files # Nowhere
      <4>1. /\ files = [id |-> files.id, heavy |-> files.heavy, light |-> files.light]
            /\ files.id \in Nat \ {0} /\ files.light.version \in Nat
        BY <3>3 DEF Shapes, FilesFit
      <4>2. files' = [id |-> files.id, heavy |-> heavy, light |-> files.light]
        BY <3>1, <4>1
      <4>3. files'.id = files.id /\ files'.heavy = heavy /\ files'.light = files.light
        BY <4>2
      <4> QED BY <4>1, <4>2, <4>3 DEF FilesFit
    <3> QED BY <3>2, <3>3
  <2>5. HeldFits(held', client.review)
    BY <2>2 DEF HeldFits
  <2>6. m.q.kind # "open"
    BY <2>1 DEF Serves
  <2> QED BY <2>1, <2>2, <2>3, <2>4, <2>5, <2>6, RefusedShapes
<1> QED BY <1>1, <1>2

-----------------------------------------------------------------------------
(* An opening: the review, its folder and its answer.                      *)
OpensOne(m) ==
    LET o == OpeningOf(m.q.sections, m.q.current)
        id == m.q.review + 1 IN
    /\ m \in flight /\ m.a = <<>> /\ m.q.kind = "open"
    /\ held' = [id |-> id, review |-> o.review]
    /\ files' = Written(id, [o.review EXCEPT !.served = {}])
    /\ mark' = 0
    /\ Answering(m, OfReview(o.answer, id))
    /\ UNCHANGED <<stored, members, client, unfolded, overtaken, acts, readBacks>>

(* An opening served is one such step.                                     *)
LEMMA OpensAre ==
  ASSUME Open
  PROVE  \E m \in flight : OpensOne(m)
BY Zenon DEF Open, OpensOne, screen

(* The folder of a review just opened.                                     *)
LEMMA WrittenIs ==
  ASSUME NEW id, NEW r, IsReview(r), NEW f, f = Written(id, [r EXCEPT !.served = {}])
  PROVE  /\ f = [id |-> f.id, heavy |-> f.heavy, light |-> f.light]
         /\ f.id = id /\ f.heavy = r.order /\ f.light.version = r.version
         /\ f.light.sources = r.sources /\ f.light.opened = r.opened
         /\ f.light.served = {} /\ f.light.current = r.current
<1> DEFINE none == {}
           s == [r EXCEPT !.served = none]
<1>0. none = {}
  OBVIOUS
<1>6. f = Written(id, s)
  OBVIOUS
<1> HIDE DEF none
<1>1. s = [sources |-> r.sources, order |-> r.order, opened |-> r.opened, served |-> none,
           current |-> r.current, version |-> r.version, shown |-> r.shown]
  BY DEF IsReview
<1> HIDE DEF s
<1>2. /\ s.sources = r.sources /\ s.order = r.order /\ s.opened = r.opened
      /\ s.current = r.current /\ s.version = r.version /\ s.served = {}
  BY <1>0, <1>1
<1> DEFINE light == LightOf(s)
<1>3. /\ light.version = s.version /\ light.sources = s.sources /\ light.opened = s.opened
      /\ light.served = s.served /\ light.current = s.current
  BY DEF LightOf
<1>4. f = [id |-> id, heavy |-> s.order, light |-> light]
  BY <1>6 DEF Written
<1> HIDE DEF light
<1>5. f.id = id /\ f.heavy = s.order /\ f.light = light
  BY <1>4
<1> QED BY <1>2, <1>3, <1>4, <1>5

(* After an opening the store holds the next review and its answer fits.   *)
LEMMA OpenedShapes ==
  ASSUME Shapes, NEW m \in flight, OpensOne(m)
  PROVE  LET o == OpeningOf(m.q.sections, m.q.current)
             id == client.review + 1
             a == OfReview(o.answer, id)
         IN  /\ Shapes' /\ client.review \in Nat \ {0} /\ m.q.review = client.review
             /\ IsReview(o.review) /\ Shown(o.review) /\ o.review.version = 0
             /\ Tells(o.answer, o.review)
             /\ held'.id = id /\ held'.review = o.review /\ held' # Nowhere
             /\ IsAnswer(a) /\ a.review = id /\ a.layout = o.answer.layout
             /\ flight' = (flight \ {m}) \cup {[q |-> m.q, a |-> <<a>>]}
<1> DEFINE q == m.q
           o == OpeningOf(q.sections, q.current)
           id == client.review + 1
           a == OfReview(o.answer, id)
<1>1. /\ q.kind = "open" /\ q.review = client.review /\ client.review \in Nat \ {0}
      /\ MessageFits(m, client.review)
  BY DEF OpensOne, Shapes, MessageFits, ClientFits
<1>2. /\ held' = [id |-> id, review |-> o.review]
      /\ files' = Written(id, [o.review EXCEPT !.served = {}])
      /\ Answering(m, a)
      /\ UNCHANGED <<stored, client, readBacks>>
  BY <1>1, Zenon DEF OpensOne
<1>3. /\ IsReview(o.review) /\ Shown(o.review) /\ o.review.version = 0
      /\ Tells(o.answer, o.review) /\ o.answer.layout = <<o.answer.layout[1]>>
      /\ o.answer.revision = Revision(stored)
  BY OpeningIs DEF Shapes
<1>4. /\ a = [review |-> a.review, revision |-> a.revision, focus |-> a.focus,
              removed |-> a.removed, layout |-> a.layout, cards |-> a.cards]
      /\ IsAnswer(a) /\ a.review = id /\ a.revision = o.answer.revision
      /\ a.layout = o.answer.layout
  BY OfReviewIs
<1>5. [m EXCEPT !.a = <<a>>] = [q |-> m.q, a |-> <<a>>]
  <2> HIDE DEF a
  <2> QED BY <1>1, AnsweredMessage
<1> HIDE DEF o, a
<1>6. Revision(stored) \in Nat
  BY RevisionIs DEF Shapes
<1>7. Delivered(q, a)
  <2>1. a.layout = <<a.layout[1]>> /\ a.layout[1].version \in Nat /\ a.layout # <<>>
    BY <1>3, <1>4 DEF Tells
  <2> QED BY <1>1, <1>3, <1>4, <1>6, <2>1 DEF Delivered, IsAnswerTo
<1>8. (\A n \in flight' : MessageFits(n, client.review)) /\ OneOpening'
  <2>1. (\A n \in flight : MessageFits(n, client.review)) /\ OneOpening
    BY DEF Shapes
  <2> QED BY <1>2, <1>7, <2>1, AnsweringKeeps
<1>9. id \in Nat \ {0} /\ id \in 1 .. (client.review + 1)
  BY <1>1
<1> HIDE DEF id
<1>10. HeldFits(held', client.review) /\ held'.id = id /\ held'.review = o.review /\ held' # Nowhere
  BY <1>1, <1>2, <1>3, <1>9, HeldFitsAs
<1>11. FilesFit(files')
  <2> DEFINE r == o.review
  <2>1. IsReview(r) /\ files' = Written(id, [r EXCEPT !.served = {}]) /\ r.version = 0
    BY <1>2, <1>3
  <2> HIDE DEF r
  <2>2. /\ files' = [id |-> files'.id, heavy |-> files'.heavy, light |-> files'.light]
        /\ files'.id = id /\ files'.light.version = r.version
    BY <2>1, WrittenIs
  <2> QED BY <1>9, <2>1, <2>2 DEF FilesFit
<1>12. Shapes'
  BY <1>2, <1>8, <1>10, <1>11 DEF Shapes, ClientFits
<1>13. flight' = (flight \ {m}) \cup {[q |-> m.q, a |-> <<a>>]}
  BY <1>2, <1>5 DEF Answering
<1> QED BY <1>1, <1>3, <1>4, <1>10, <1>12, <1>13 DEF o, a, id

-----------------------------------------------------------------------------
(* The client receives.                                                    *)

(* An answer that lands leaves a client with the version of its list.      *)
LEMMA AppliedFits ==
  ASSUME ClientFits, NEW u, u.layout = <<>> \/ u.layout[1].version \in Nat,
         u.revision \in Nat, NEW window, NEW keep
  PROVE  LET t == Applied(client, u, window, keep) IN
         /\ IsClient(t) /\ t.review = client.review
         /\ t.version \in Nat /\ t.revision \in Nat
<1> DEFINE t == Applied(client, u, window, keep)
<1>1. CASE Ignored(client, u)
  <2>1. t = client
    BY <1>1 DEF Applied
  <2> QED BY <2>1 DEF ClientFits
<1>2. CASE ~Ignored(client, u)
  <2>1. /\ IsClient(t) /\ t.review = u.review
        /\ t.revision = IF window \/ Stale(client, u) THEN client.revision ELSE u.revision
        /\ t.version = IF Lands(client, u) THEN u.layout[1].version ELSE client.version
    BY <1>2, AppliedIs
  <2> HIDE DEF t
  <2>2. u.review = client.review
    BY <1>2 DEF Ignored, Foreign, ClientFits
  <2>3. Lands(client, u) => u.layout[1].version \in Nat
    BY DEF Lands
  <2>4. t.version \in Nat
    BY <2>1, <2>3 DEF ClientFits
  <2>5. t.revision \in Nat
    BY <2>1 DEF ClientFits
  <2> QED BY <2>1, <2>2, <2>4, <2>5 DEF t
<1> QED BY <1>1, <1>2

(* What is asked after an answer that missed its rows.                     *)
LEMMA RecenteringIs ==
  ASSUME ClientFits, NEW u, NEW after, after.review = client.review, NEW n \in Recentering(u, after)
  PROVE  /\ n.a = <<>> /\ n.q.kind = "around" /\ n.q.review = client.review
         /\ n.q.since = after.revision /\ n.q.current = after.current /\ n.q.id = after.current
         /\ after.current # 0
         /\ MessageFits(n, client.review)
<1> DEFINE yes == TRUE
           q == [kind |-> "around", review |-> after.review, since |-> after.revision,
                 current |-> after.current, id |-> after.current, keep |-> yes]
<1>1. n = Asked(q) /\ NeedsRecenter(client, u, after)
  BY DEF Recentering
<1> HIDE DEF yes
<1>2. /\ q.kind = "around" /\ q.review = after.review /\ q.since = after.revision
      /\ q.current = after.current /\ q.id = after.current
  OBVIOUS
<1> HIDE DEF q
<1>3. q.kind \in Kinds /\ q.kind # "open"
  BY <1>2 DEF Kinds, Reading
<1>4. q.review \in 1 .. client.review
  BY <1>2 DEF ClientFits
<1>5. MessageFits(Asked(q), client.review) /\ Asked(q).q = q /\ Asked(q).a = <<>>
  BY <1>3, <1>4, AskedFits
<1>6. after.current # 0
  BY <1>1 DEF NeedsRecenter
<1> QED BY <1>1, <1>2, <1>5, <1>6

(* After an answer landed everything still fits; only the current card of  *)
(* the client may differ from what was applied.                            *)
LEMMA ReceivedShapes ==
  ASSUME Shapes, NEW m \in flight, NEW window \in BOOLEAN, NEW keep \in BOOLEAN,
         Receives(m, window, keep)
  PROVE  LET u == m.a[1]
             after == Applied(client, u, window, keep)
         IN  /\ Shapes' /\ IsAnswerTo(m.q, u) /\ u.review = m.q.review
             /\ OnlyMoved(client', after)
             /\ client'.current \in {after.current, u.focus}
             /\ after.review = client.review
<1> DEFINE u == m.a[1]
           after == Applied(client, u, window, keep)
<1>1. /\ m.q.kind \in Kinds /\ m.a # <<>> /\ IsAnswer(u) /\ MessageFits(m, client.review)
  BY DEF Receives, Shapes
<1>2. IsAnswerTo(m.q, u) /\ m.q.kind # "open"
  BY <1>1, OpeningIsNoKind DEF MessageFits, Delivered
<1>3. u.review = m.q.review /\ u.revision \in Nat
      /\ (u.layout = <<>> \/ u.layout[1].version \in Nat)
  BY <1>2 DEF IsAnswerTo
<1>4. ClientFits
  BY DEF Shapes
<1>5. /\ IsClient(after) /\ after.review = client.review
      /\ after.version \in Nat /\ after.revision \in Nat
  <2> HIDE DEF u
  <2> QED BY <1>3, <1>4, AppliedFits
<1>6. /\ client' = after \/ (u.focus # 0 /\ client' = WithCurrent(after, u.focus))
      /\ flight' = (flight \ {m}) \cup Recentering(u, after)
      /\ UNCHANGED <<stored, held, files, readBacks>>
  BY DEF Receives
<1> HIDE DEF u, after
<1>7. OnlyMoved(client', after) /\ client'.current \in {after.current, u.focus}
  <2>1. CASE client' = after
    BY <1>5, <2>1 DEF OnlyMoved
  <2>2. CASE client' = WithCurrent(after, u.focus)
    BY <1>5, <2>2, WithCurrentIs
  <2> QED BY <1>6, <2>1, <2>2
<1>8. ClientFits' /\ client'.review = client.review
  BY <1>4, <1>5, <1>7 DEF ClientFits, OnlyMoved
<1> DEFINE gone == {m}
           more == Recentering(u, after)
<1>9. \A n \in more : MessageFits(n, client.review) /\ n.q.kind # "open"
  <2> TAKE n \in more
  <2>1. MessageFits(n, client.review) /\ n.q.kind = "around"
    BY <1>4, <1>5, RecenteringIs
  <2> QED BY <2>1
<1> HIDE DEF gone, more
<1>10. (\A n \in flight' : MessageFits(n, client.review)) /\ OneOpening'
  <2>1. (\A n \in flight : MessageFits(n, client.review)) /\ OneOpening
    BY DEF Shapes
  <2>2. flight' = (flight \ gone) \cup more
    BY <1>6 DEF gone, more
  <2> QED BY <1>9, <2>1, <2>2, MessagesKept
<1>11. Shapes'
  BY <1>6, <1>8, <1>10 DEF Shapes
<1> QED BY <1>2, <1>3, <1>5, <1>7, <1>11 DEF u, after

(* The answer to an opening lands: the next review is the client's.        *)
OpenedAt(m) ==
    /\ m \in flight /\ m.a # <<>> /\ m.q.kind = "open"
    /\ client' = Reopened(m.a[1])
    /\ flight' = flight \ {m}
    /\ overtaken' = FALSE
    /\ UNCHANGED <<stored, members, held, files, mark, unfolded, acts, readBacks>>

(* A client that opens is one such step.                                   *)
LEMMA OpenedAre ==
  ASSUME ReceiveOpened
  PROVE  \E m \in flight : OpenedAt(m)
<1>1. PICK m \in Answers : m.q.kind = "open" /\ Landed(m, Reopened(m.a[1]), {}) /\ overtaken' = FALSE
  BY DEF ReceiveOpened
<1>2. m \in flight /\ m.a # <<>>
  BY DEF Answers
<1>3. /\ client' = Reopened(m.a[1])
      /\ flight' = (flight \ {m}) \cup {}
      /\ UNCHANGED <<stored, members, held, files, mark, unfolded, acts, readBacks>>
  BY <1>1 DEF Landed, store
<1> QED BY <1>1, <1>2, <1>3 DEF OpenedAt

(* A client that opened is of the next review, with the rows and cards it  *)
(* was told.                                                               *)
LEMMA ReopenedShapes ==
  ASSUME Shapes, NEW m \in flight, OpenedAt(m)
  PROVE  LET u == m.a[1]
             l == u.layout[1]
         IN  /\ Shapes' /\ IsAnswerTo(m.q, u) /\ IsAnswer(u)
             /\ u.review = client.review + 1 /\ client'.review = u.review
             /\ u.layout = <<l>>
             /\ client'.revision = u.revision
             /\ client'.version = l.version /\ client'.total = l.total
             /\ client'.current = u.focus
             /\ \A i \in DOMAIN client'.rows : i \in DOMAIN l.rows /\ client'.rows[i] = l.rows[i]
             /\ \A c \in DOMAIN client'.cards : c \in DOMAIN u.cards
                                               /\ client'.cards[c] = u.cards[c]
             /\ \A c \in DOMAIN u.cards : c \in Loaded(client') => c \in DOMAIN client'.cards
             /\ \A n \in flight' : n.q.kind # "open" /\ n.q.review <= client.review
<1> DEFINE u == m.a[1]
           l == u.layout[1]
<1>1. MessageFits(m, client.review) /\ m.q.kind = "open" /\ m.a # <<>>
      /\ client.review \in Nat \ {0}
  BY DEF OpenedAt, Shapes, ClientFits
<1>2. IsAnswer(u) /\ IsAnswerTo(m.q, u) /\ m.q.review = client.review
  BY <1>1 DEF MessageFits, Delivered
<1>3. /\ u.layout = <<u.layout[1]>> /\ u.layout[1].version \in Nat /\ u.revision \in Nat
      /\ u.review = client.review + 1
  BY <1>1, <1>2 DEF IsAnswerTo
<1>4. client' = Reopened(u)
  BY DEF OpenedAt
<1> HIDE DEF u
<1>5. /\ IsClient(client') /\ client'.review = u.review /\ client'.revision = u.revision
      /\ client'.version = l.version /\ client'.total = l.total
      /\ client'.current = u.focus
      /\ \A i \in DOMAIN client'.rows : i \in DOMAIN l.rows /\ client'.rows[i] = l.rows[i]
      /\ \A c \in DOMAIN client'.cards : c \in DOMAIN u.cards /\ client'.cards[c] = u.cards[c]
      /\ \A c \in DOMAIN u.cards : c \in Loaded(client') => c \in DOMAIN client'.cards
  BY <1>3, <1>4, ReopenedIs
<1>6. /\ flight' = flight \ {m} /\ UNCHANGED <<stored, held, files, readBacks>>
  BY DEF OpenedAt
<1>7. \A n \in flight' : n.q.kind # "open" /\ MessageFits(n, client.review)
                         /\ n.q.review <= client.review
  <2> TAKE n \in flight'
  <2>1. n \in flight /\ n # m
    BY <1>6
  <2>2. n.q.kind # "open"
    BY <1>1, <2>1 DEF Shapes, OneOpening
  <2>3. MessageFits(n, client.review)
    BY <2>1 DEF Shapes
  <2>4. n.q.review <= client.review
    BY <1>1, <2>3 DEF MessageFits
  <2> QED BY <2>2, <2>3, <2>4
<1>8. \A n \in flight' : MessageFits(n, client'.review)
  BY <1>1, <1>3, <1>5, <1>7 DEF MessageFits
<1>9. OneOpening'
  BY <1>7 DEF OneOpening
<1>10. ClientFits'
  BY <1>1, <1>3, <1>5 DEF ClientFits
<1>11. HeldFits(held', client'.review)
  BY <1>1, <1>3, <1>5, <1>6 DEF HeldFits, Shapes
<1>12. Shapes'
  BY <1>6, <1>8, <1>9, <1>10, <1>11 DEF Shapes
<1> QED BY <1>2, <1>3, <1>5, <1>7, <1>12 DEF u

(* An answer that comes to nothing: the client at most goes back to where  *)
(* it was, a review not held any more is asked for again.                  *)
Falls(m) ==
    /\ m \in flight /\ m.a # <<>>
    /\ OnlyMoved(client', client)
    /\ client'.current \in {client.current, m.q.id}
    /\ client'.current = client.current \/ m.q.kind = "press"
    /\ \E more :
        /\ flight' = (flight \ {m}) \cup more
        /\ \A n \in more : /\ n.a = <<>> /\ n.q.kind = "open" /\ n.q.review = client.review
                           /\ n.q.sections = unfolded /\ n.q.current = client.current
                           /\ MessageFits(n, client.review)
                           /\ \A o \in flight : o.q.kind # "open"
                           /\ \A o \in more : o = n
    /\ UNCHANGED <<stored, members, held, files, mark, unfolded, overtaken, acts, readBacks>>

(* A failure and an expired review are such steps.                         *)
LEMMA FallsAre ==
  ASSUME Shapes, Fail \/ ReceiveExpired
  PROVE  \E m \in flight : Falls(m)
<1>0. IsClient(client) /\ client.review \in Nat \ {0}
  BY DEF Shapes, ClientFits
<1>1. CASE Fail
  <2>1. PICK m \in Answers : Landed(m, Undone(m.q), {}) /\ UNCHANGED overtaken
    BY <1>1 DEF Fail
  <2>2. m \in flight /\ m.a # <<>>
    BY DEF Answers
  <2> DEFINE more == {}
  <2>3. /\ client' = Undone(m.q) /\ flight' = (flight \ {m}) \cup more
        /\ UNCHANGED <<stored, members, held, files, mark, unfolded, overtaken, acts, readBacks>>
    BY <2>1 DEF Landed, store
  <2>4. /\ OnlyMoved(client', client) /\ client'.current \in {client.current, m.q.id}
        /\ client'.current = client.current \/ m.q.kind = "press"
    <3>1. CASE client' = client
      BY <1>0, <3>1 DEF OnlyMoved
    <3>2. CASE client' # client
      <4>1. client' = WithCurrent(client, m.q.id) /\ m.q.kind = "press"
        BY <2>3, <3>2 DEF Undone
      <4> QED BY <1>0, <4>1, WithCurrentIs
    <3> QED BY <3>1, <3>2
  <2>5. \A n \in more : FALSE
    OBVIOUS
  <2> HIDE DEF more
  <2> QED BY <2>2, <2>3, <2>4, <2>5 DEF Falls
<1>2. CASE ReceiveExpired
  <2>1. PICK m \in Answers :
          /\ Landed(m, client,
                  IF m.q.review = client.review /\ \A n \in flight : n.q.kind # "open"
                  THEN {Asked([kind |-> "open", review |-> client.review, since |-> 0,
                               current |-> client.current, sections |-> unfolded])}
                  ELSE {})
          /\ UNCHANGED overtaken
    BY <1>2 DEF ReceiveExpired
  <2>2. m \in flight /\ m.a # <<>>
    BY DEF Answers
  <2> DEFINE q == [kind |-> "open", review |-> client.review, since |-> 0,
                   current |-> client.current, sections |-> unfolded]
             more == IF m.q.review = client.review /\ \A n \in flight : n.q.kind # "open"
                     THEN {Asked(q)} ELSE {}
  <2>3. /\ client' = client /\ flight' = (flight \ {m}) \cup more
        /\ UNCHANGED <<stored, members, held, files, mark, unfolded, overtaken, acts, readBacks>>
    BY <2>1 DEF Landed, store
  <2>4. OnlyMoved(client', client) /\ client'.current = client.current
    BY <1>0, <2>3 DEF OnlyMoved
  <2>5. /\ q.kind = "open" /\ q.review = client.review /\ q.sections = unfolded
        /\ q.current = client.current
    OBVIOUS
  <2> HIDE DEF q
  <2>6. MessageFits(Asked(q), client.review) /\ Asked(q).q = q /\ Asked(q).a = <<>>
    <3>1. q.review \in 1 .. client.review /\ q.kind \in Kinds \cup {"open"}
      BY <1>0, <2>5
    <3> QED BY <2>5, <3>1, AskedFits
  <2>7. \A n \in more : n = Asked(q) /\ \A o \in flight : o.q.kind # "open"
    OBVIOUS
  <2> HIDE DEF more
  <2>8. \A n \in more : /\ n.a = <<>> /\ n.q.kind = "open" /\ n.q.review = client.review
                        /\ n.q.sections = unfolded /\ n.q.current = client.current
                        /\ MessageFits(n, client.review)
                        /\ \A o \in flight : o.q.kind # "open"
                        /\ \A o \in more : o = n
    BY <2>5, <2>6, <2>7
  <2> QED BY <2>2, <2>3, <2>4, <2>8 DEF Falls
<1> QED BY <1>1, <1>2

(* After a failure everything still fits.                                  *)
LEMMA FallenShapes ==
  ASSUME Shapes, NEW m \in flight, Falls(m)
  PROVE  Shapes'
<1>1. PICK more :
        /\ flight' = (flight \ {m}) \cup more
        /\ \A n \in more : /\ MessageFits(n, client.review)
                           /\ \A o \in flight : o.q.kind # "open"
                           /\ \A o \in more : o = n
  BY DEF Falls
<1>2. (\A n \in flight : MessageFits(n, client.review)) /\ OneOpening
  BY DEF Shapes
<1> DEFINE gone == {m}
<1>3. (\A n \in flight' : MessageFits(n, client.review)) /\ OneOpening'
  <2>1. flight' = (flight \ gone) \cup more
    BY <1>1
  <2>2. \A n \in more : n.q.kind = "open" =>
             /\ \A o \in flight \ gone : o.q.kind # "open"
             /\ \A o \in more : o.q.kind = "open" => o = n
    BY <1>1
  <2> HIDE DEF gone
  <2> QED BY <1>1, <1>2, <2>1, <2>2, MessagesKept
<1>4. OnlyMoved(client', client) /\ UNCHANGED <<stored, held, files, readBacks>>
  BY DEF Falls
<1> QED BY <1>3, <1>4 DEF Shapes, ClientFits, OnlyMoved

-----------------------------------------------------------------------------
(* Rows.                                                                   *)

(* A client with a review's list has its rows and no list it never had.    *)
RowsHeld(s, h) ==
    h.id = s.review =>
        /\ s.version <= h.review.version
        /\ s.version = h.review.version =>
              /\ s.total = Len(RowsOf(h.review))
              /\ \A i \in DOMAIN s.rows : s.rows[i] = RowsOf(h.review)[i]

(* The same of an answer under way.                                        *)
RowsSent(a, h) ==
    a.review = h.id /\ a.layout # <<>> =>
        /\ a.layout[1].version <= h.review.version
        /\ a.layout[1].version = h.review.version => Tells(a, h.review)

RowsInv ==
    readBacks = 0 /\ held # Nowhere =>
        /\ RowsHeld(client, held)
        /\ \A m \in flight : m.a # <<>> /\ IsAnswer(m.a[1]) => RowsSent(m.a[1], held)

(* Rows that matched still do while neither the client nor the memory      *)
(* changes its list.                                                       *)
LEMMA RowsKept ==
  ASSUME RowsInv, held' = held \/ held' = Nowhere, readBacks' = readBacks,
         OnlyMoved(client', client),
         \A n \in flight' : n \in flight \/ n.a = <<>> \/ ~IsAnswer(n.a[1])
  PROVE  RowsInv'
BY DEF RowsInv, RowsHeld, OnlyMoved

(* A review that goes on under the same version has the same rows.         *)
LEMMA SameRows ==
  ASSUME NEW r, Shown(r), NEW s, Continues(s, r), s.version = r.version
  PROVE  RowsOf(s) = RowsOf(r)
<1>1. r.shown # <<>> /\ s.order = r.order /\ s.shown = r.shown /\ Shown(s)
  BY DEF Shown, Continues
<1>2. RowsOf(r) = LayoutOf(r.order, r.shown[1])
  BY RowsOfShown
<1>3. RowsOf(s) = LayoutOf(s.order, s.shown[1])
  BY <1>1, RowsOfShown
<1> QED BY <1>1, <1>2, <1>3

(* Steps that change neither the list held nor what the client has of it.  *)
LEMMA IdleRows ==
  ASSUME Shapes, RowsInv,
         \/ Elsewhere \/ SetChanges \/ MoveTo \/ LetGo \/ NewCode
         \/ SendSteps \/ Refuse \/ DieWriting \/ Fail \/ ReceiveExpired
  PROVE  RowsInv'
<1>0. IsClient(client)
  BY DEF Shapes, ClientFits
<1>00. OnlyMoved(client, client)
  BY <1>0 DEF OnlyMoved
<1>1. CASE Elsewhere \/ SetChanges
  <2>1. UNCHANGED <<client, held, flight, readBacks>>
    BY <1>1 DEF Elsewhere, SetChanges, Outside, store, screen
  <2> QED BY <1>00, <2>1, RowsKept
<1>2. CASE MoveTo
  <2>1. PICK c \in Loaded(client) \ {client.current} : client' = WithCurrent(client, c)
    BY <1>2, Zenon DEF MoveTo
  <2>2. OnlyMoved(client', client)
    BY <1>0, <2>1, WithCurrentIs
  <2>3. UNCHANGED <<held, flight, readBacks>>
    BY <1>2 DEF MoveTo, store
  <2> QED BY <2>2, <2>3, RowsKept
<1>3. CASE LetGo \/ NewCode
  <2>1. held' = Nowhere /\ UNCHANGED <<client, flight, readBacks>>
    BY <1>3 DEF LetGo, NewCode, screen
  <2> QED BY <1>00, <2>1, RowsKept
<1>4. CASE SendSteps
  <2>1. PICK q : SendsOne(q)
    BY <1>4, SendsAre
  <2>2. flight' = flight \cup {Asked(q)} /\ UNCHANGED <<held, readBacks>>
    BY <2>1 DEF SendsOne
  <2>3. Asked(q).a = <<>>
    BY DEF Asked
  <2>4. OnlyMoved(client', client)
    <3>1. CASE client' = client
      BY <1>00, <3>1
    <3>2. CASE client' # client
      <4>1. PICK c : client' = WithCurrent(client, c)
        BY <2>1, <3>2 DEF SendsOne
      <4> QED BY <1>0, <4>1, WithCurrentIs
    <3> QED BY <3>1, <3>2
  <2>5. \A n \in flight' : n \in flight \/ n.a = <<>>
    BY <2>2, <2>3
  <2> QED BY <2>2, <2>4, <2>5, RowsKept
<1>5. ASSUME NEW m \in flight, NEW a, ~IsAnswer(a), Answering(m, a),
             held' = held \/ held' = Nowhere, client' = client, readBacks' = readBacks
      PROVE  RowsInv'
  <2>1. MessageFits(m, client.review)
    BY DEF Shapes
  <2> DEFINE n == [m EXCEPT !.a = <<a>>]
  <2>2. n.a[1] = a
    BY <2>1, AnsweredMessage
  <2>3. flight' = (flight \ {m}) \cup {n}
    BY <1>5 DEF Answering
  <2> HIDE DEF n
  <2>4. \A o \in flight' : o \in flight \/ ~IsAnswer(o.a[1])
    BY <1>5, <2>2, <2>3
  <2> QED BY <1>00, <1>5, <2>4, RowsKept
<1>6. CASE Refuse
  <2>1. PICK m \in flight :
          /\ Answering(m, Refused) \/ Answering(m, Expired)
          /\ UNCHANGED <<held, client, readBacks>>
    BY <1>6, Zenon DEF Refuse, store, screen
  <2> QED BY <1>5, <2>1, RefusalsAre
<1>7. CASE DieWriting
  <2>1. PICK m \in flight : Answering(m, Refused)
    BY <1>7, Zenon DEF DieWriting
  <2>2. held' = Nowhere /\ UNCHANGED <<client, readBacks>>
    BY <1>7 DEF DieWriting, screen
  <2> QED BY <1>5, <2>1, <2>2, RefusalsAre
<1>8. CASE Fail \/ ReceiveExpired
  <2>1. PICK m \in flight : Falls(m)
    BY <1>8, FallsAre
  <2>2. PICK more : flight' = (flight \ {m}) \cup more /\ \A n \in more : n.a = <<>>
    BY <2>1 DEF Falls
  <2>3. \A n \in flight' : n \in flight \/ n.a = <<>>
    BY <2>2
  <2>4. OnlyMoved(client', client) /\ UNCHANGED <<held, readBacks>>
    BY <2>1 DEF Falls
  <2> QED BY <2>3, <2>4, RowsKept
<1> QED BY <1>1, <1>2, <1>3, <1>4, <1>6, <1>7, <1>8

(* The list goes on, and the answer tells it.                              *)
LEMMA ServedRows ==
  ASSUME Shapes, RowsInv, NEW m \in flight, ServesOne(m)
  PROVE  RowsInv'
<1> SUFFICES ASSUME readBacks' = 0
             PROVE  /\ RowsHeld(client', held')
                    /\ \A n \in flight' : n.a # <<>> /\ IsAnswer(n.a[1]) => RowsSent(n.a[1], held')
  BY DEF RowsInv
<1> DEFINE q == m.q
           out == Outcome(q)
           a == OfReview(out.answer, q.review)
           n == [m EXCEPT !.a = <<a>>]
<1>1. /\ held' = [id |-> q.review, review |-> out.review]
      /\ readBacks' = IF held.id = q.review THEN readBacks ELSE readBacks + 1
      /\ Answering(m, a)
      /\ client' = client
  BY DEF ServesOne
<1>2. /\ q.review \in Nat \ {0} /\ Holds(q)
      /\ AnswersFor(out, Found(q), stored') /\ MessageFits(m, client.review)
  BY ServedShapes DEF ServesOne, Serves, Shapes
<1>3. held.id = q.review /\ readBacks = 0
  BY <1>1 DEF Shapes
<1>4. held # Nowhere /\ Found(q) = held.review
  BY <1>2, <1>3, FoundIsReview
<1>5. IsReview(held.review) /\ Shown(held.review)
  BY <1>4 DEF Shapes, HeldFits
<1>6. n.a = <<a>> /\ n.a[1] = a
  BY <1>2, AnsweredMessage
<1>7. flight' = (flight \ {m}) \cup {n}
  BY <1>1 DEF Answering
<1>8. a.review = q.review /\ a.layout = out.answer.layout
  BY OfReviewIs
<1> HIDE DEF q, out, a, n
<1>9. held'.id = held.id /\ held'.review = out.review
  BY <1>1, <1>3
<1>10. /\ Continues(out.review, held.review) /\ Tells(out.answer, out.review)
       /\ out.review.version \in Nat /\ held.review.version \in Nat
       /\ out.review.version >= held.review.version
       /\ out.review.version = held.review.version => RowsOf(out.review) = RowsOf(held.review)
  BY <1>2, <1>4, <1>5, SameRows DEF AnswersFor, Continues, IsReview
<1>11. RowsHeld(client', held')
  <2>1. RowsHeld(client, held) /\ client.version \in Nat
    BY <1>3, <1>4 DEF RowsInv, Shapes, ClientFits
  <2> QED BY <1>1, <1>9, <1>10, <2>1 DEF RowsHeld
<1>12. ASSUME NEW o \in flight, o.a # <<>>, IsAnswer(o.a[1]) PROVE RowsSent(o.a[1], held')
  <2> DEFINE b == o.a[1]
  <2>1. RowsSent(b, held)
    BY <1>3, <1>4, <1>12 DEF RowsInv
  <2>2. b.layout = <<>> \/ b.layout[1].version \in Nat
    BY <1>12 DEF Shapes, MessageFits, Delivered, IsAnswerTo
  <2> HIDE DEF b
  <2>3. ASSUME b.review = held.id, b.layout # <<>>
        PROVE  /\ b.layout[1].version <= held'.review.version
               /\ b.layout[1].version = held'.review.version => Tells(b, held'.review)
    <3>1. /\ b.layout[1].version <= held.review.version
          /\ b.layout[1].version = held.review.version => Tells(b, held.review)
      BY <2>1, <2>3 DEF RowsSent
    <3>2. b.layout[1].version <= out.review.version
      BY <1>10, <2>2, <2>3, <3>1
    <3>3. ASSUME b.layout[1].version = out.review.version PROVE Tells(b, out.review)
      <4>1. out.review.version = held.review.version
        BY <1>10, <2>2, <2>3, <3>1, <3>3
      <4>2. Tells(b, held.review) /\ RowsOf(out.review) = RowsOf(held.review)
        BY <1>10, <3>1, <3>3, <4>1
      <4> QED BY <4>1, <4>2 DEF Tells
    <3> QED BY <1>9, <3>2, <3>3
  <2>4. RowsSent(b, held')
    BY <1>9, <2>3 DEF RowsSent
  <2> QED BY <2>4 DEF b
<1>13. RowsSent(a, held')
  <2>1. a.layout # <<>> => a.layout[1].version = out.review.version
    BY <1>8, <1>10 DEF Tells
  <2>2. Tells(a, out.review)
    BY <1>8, <1>10 DEF Tells
  <2> QED BY <1>9, <1>10, <2>1, <2>2 DEF RowsSent
<1> QED BY <1>6, <1>7, <1>11, <1>12, <1>13

(* A review opened is none the client has an answer of but the opening's.  *)
LEMMA OpenedRows ==
  ASSUME Shapes, NEW m \in flight, OpensOne(m)
  PROVE  RowsInv'
<1> DEFINE o == OpeningOf(m.q.sections, m.q.current)
           id == client.review + 1
           a == OfReview(o.answer, id)
           n == [q |-> m.q, a |-> <<a>>]
<1>1. /\ client.review \in Nat \ {0}
      /\ IsReview(o.review) /\ o.review.version = 0 /\ Tells(o.answer, o.review)
      /\ held'.id = id /\ held'.review = o.review
      /\ a.review = id /\ a.layout = o.answer.layout
      /\ flight' = (flight \ {m}) \cup {n}
  BY OpenedShapes
<1>2. n.a = <<a>> /\ n.a[1] = a
  OBVIOUS
<1>3. client' = client /\ m.q.kind = "open"
  BY DEF OpensOne
<1> HIDE DEF o, a, n
<1>4. RowsHeld(client', held')
  BY <1>1, <1>3 DEF RowsHeld
<1>5. ASSUME NEW p \in flight, p # m, p.a # <<>>, IsAnswer(p.a[1]) PROVE RowsSent(p.a[1], held')
  <2>1. p.q.kind # "open"
    BY <1>3, <1>5 DEF Shapes, OneOpening
  <2>2. p.a[1].review = p.q.review /\ p.q.review \in 1 .. client.review
    BY <1>5, <2>1 DEF Shapes, MessageFits, Delivered, IsAnswerTo
  <2>3. p.a[1].review # held'.id
    BY <1>1, <2>2
  <2> QED BY <2>3 DEF RowsSent
<1>6. RowsSent(a, held')
  <2>1. a.layout # <<>> => a.layout[1].version = 0
    BY <1>1 DEF Tells
  <2>2. Tells(a, o.review)
    BY <1>1 DEF Tells
  <2> QED BY <1>1, <2>1, <2>2 DEF RowsSent
<1>7. \A p \in flight' : p.a # <<>> /\ IsAnswer(p.a[1]) => RowsSent(p.a[1], held')
  BY <1>1, <1>2, <1>5, <1>6
<1> QED BY <1>4, <1>7 DEF RowsInv

(* An answer lands on rows of the same list, or takes them away.           *)
LEMMA ReceivedRows ==
  ASSUME Shapes, RowsInv, NEW m \in flight, NEW window \in BOOLEAN, NEW keep \in BOOLEAN,
         Receives(m, window, keep)
  PROVE  RowsInv'
<1> SUFFICES ASSUME readBacks' = 0, held' # Nowhere
             PROVE  /\ RowsHeld(client', held')
                    /\ \A n \in flight' : n.a # <<>> /\ IsAnswer(n.a[1]) => RowsSent(n.a[1], held')
  BY DEF RowsInv
<1> DEFINE u == m.a[1]
           t == Applied(client, u, window, keep)
           l == u.layout[1]
<1>1. /\ held' = held /\ readBacks' = readBacks /\ m.a # <<>> /\ IsAnswer(u)
      /\ flight' = (flight \ {m}) \cup Recentering(u, t)
  BY DEF Receives
<1>2. /\ IsAnswerTo(m.q, u) /\ OnlyMoved(client', t) /\ t.review = client.review
  BY ReceivedShapes
<1>3. /\ RowsHeld(client, held)
      /\ \A n \in flight : n.a # <<>> /\ IsAnswer(n.a[1]) => RowsSent(n.a[1], held)
  BY <1>1 DEF RowsInv
<1>4. RowsSent(u, held)
  BY <1>1, <1>3
<1>5. \A n \in flight' : n.a # <<>> /\ IsAnswer(n.a[1]) => RowsSent(n.a[1], held')
  <2>1. \A n \in Recentering(u, t) : n.a = <<>>
    <3> HIDE DEF u, t
    <3> QED BY <1>2, RecenteringIs DEF Shapes
  <2> QED BY <1>1, <1>3, <2>1
<1>6. RowsHeld(t, held)
  <2>1. CASE Ignored(client, u)
    <3>1. t = client
      BY <2>1 DEF Applied
    <3> QED BY <1>3, <3>1
  <2>2. CASE ~Ignored(client, u)
    <3>1. /\ t.version = IF Lands(client, u) THEN u.layout[1].version ELSE client.version
          /\ t.total = IF Lands(client, u) THEN u.layout[1].total ELSE client.total
          /\ \A i \in DOMAIN t.rows :
                IF Lands(client, u) /\ i \in DOMAIN u.layout[1].rows
                THEN t.rows[i] = u.layout[1].rows[i]
                ELSE /\ ~(Lands(client, u) /\ Replaces(client, u))
                     /\ i \in DOMAIN client.rows /\ t.rows[i] = client.rows[i]
      BY <2>2, AppliedIs
    <3>2. u.review = client.review
      BY <2>2 DEF Ignored, Foreign, Shapes, ClientFits
    <3> HIDE DEF t, u
    <3>3. CASE ~Lands(client, u)
      BY <1>2, <1>3, <3>1, <3>3 DEF RowsHeld
    <3>4. CASE Lands(client, u)
      <4> SUFFICES ASSUME held.id = t.review PROVE
             /\ t.version <= held.review.version
             /\ t.version = held.review.version =>
                   /\ t.total = Len(RowsOf(held.review))
                   /\ \A i \in DOMAIN t.rows : t.rows[i] = RowsOf(held.review)[i]
        BY DEF RowsHeld
      <4>1. u.layout # <<>> /\ u.review = held.id
        BY <1>2, <3>2, <3>4 DEF Lands
      <4>2. /\ u.layout[1].version <= held.review.version
            /\ u.layout[1].version = held.review.version => Tells(u, held.review)
        BY <1>4, <4>1 DEF RowsSent
      <4>3. t.version = u.layout[1].version /\ t.total = u.layout[1].total
        BY <3>1, <3>4
      <4>4. ASSUME t.version = held.review.version
            PROVE  /\ t.total = Len(RowsOf(held.review))
                   /\ \A i \in DOMAIN t.rows : t.rows[i] = RowsOf(held.review)[i]
        <5>1. /\ u.layout[1].total = Len(RowsOf(held.review))
              /\ \A i \in DOMAIN u.layout[1].rows :
                    u.layout[1].rows[i] = RowsOf(held.review)[i]
          BY <4>1, <4>2, <4>3, <4>4 DEF Tells
        <5>2. ASSUME NEW i \in DOMAIN t.rows, i \notin DOMAIN u.layout[1].rows
              PROVE  t.rows[i] = RowsOf(held.review)[i]
          <6>1. /\ ~Replaces(client, u) /\ i \in DOMAIN client.rows
                /\ t.rows[i] = client.rows[i]
            BY <3>1, <3>4, <5>2
          <6>2. ~Newer(client, u)
            BY <6>1 DEF Replaces
          <6>3. client.version = u.layout[1].version
            BY <3>4, <6>2 DEF Lands
          <6> QED BY <1>2, <1>3, <4>3, <4>4, <6>1, <6>3 DEF RowsHeld
        <5> QED BY <3>1, <3>4, <4>3, <5>1, <5>2
      <4> QED BY <4>2, <4>3, <4>4
    <3> QED BY <3>3, <3>4
  <2> QED BY <2>1, <2>2
<1>7. RowsHeld(client', held')
  <2> HIDE DEF t
  <2> QED BY <1>1, <1>2, <1>6 DEF RowsHeld, OnlyMoved
<1> QED BY <1>5, <1>7

(* A client that opens a review has the rows it was told.                  *)
LEMMA ReopenedRows ==
  ASSUME Shapes, RowsInv, NEW m \in flight, OpenedAt(m)
  PROVE  RowsInv'
<1> SUFFICES ASSUME readBacks' = 0, held' # Nowhere
             PROVE  /\ RowsHeld(client', held')
                    /\ \A n \in flight' : n.a # <<>> /\ IsAnswer(n.a[1]) => RowsSent(n.a[1], held')
  BY DEF RowsInv
<1> DEFINE u == m.a[1]
           l == u.layout[1]
<1>1. /\ flight' = flight \ {m} /\ UNCHANGED <<held, readBacks>> /\ m.a # <<>>
  BY DEF OpenedAt
<1>2. /\ IsAnswer(u) /\ client'.review = u.review /\ u.layout = <<l>>
      /\ client'.version = l.version /\ client'.total = l.total
      /\ \A i \in DOMAIN client'.rows : i \in DOMAIN l.rows /\ client'.rows[i] = l.rows[i]
  BY ReopenedShapes
<1>3. \A n \in flight : n.a # <<>> /\ IsAnswer(n.a[1]) => RowsSent(n.a[1], held)
  BY <1>1 DEF RowsInv
<1>4. RowsSent(u, held) /\ u.layout # <<>>
  BY <1>1, <1>2, <1>3
<1> HIDE DEF u
<1>5. RowsHeld(client', held)
  BY <1>2, <1>4 DEF RowsSent, RowsHeld, Tells
<1> QED BY <1>1, <1>3, <1>5

(* The list the client starts with.                                        *)
LEMMA InitRows ==
  ASSUME Init
  PROVE  RowsInv
<1> DEFINE o == OpeningOf({}, 0)
           a == OfReview(o.answer, 1)
           l == a.layout[1]
<1>1. /\ held = [id |-> 1, review |-> o.review] /\ client = Reopened(a) /\ flight = {}
  BY Zenon DEF Init
<1>2. Projection(stored)
  BY InitShapes DEF Shapes
<1>3. /\ IsReview(o.review) /\ o.review.version = 0
      /\ Tells(o.answer, o.review) /\ o.answer.layout = <<o.answer.layout[1]>>
      /\ o.answer.revision \in Nat
  BY <1>2, OpeningIs, RevisionIs
<1>4. a.review = 1 /\ a.layout = o.answer.layout /\ a.revision = o.answer.revision
  BY OfReviewIs
<1> HIDE DEF o, a
<1>5. /\ a.layout = <<l>> /\ l.version = 0 /\ l.total = Len(RowsOf(o.review))
      /\ \A i \in DOMAIN l.rows : l.rows[i] = RowsOf(o.review)[i]
  BY <1>3, <1>4 DEF Tells
<1>6. /\ client.version = l.version /\ client.total = l.total
      /\ \A i \in DOMAIN client.rows : i \in DOMAIN l.rows /\ client.rows[i] = l.rows[i]
  BY <1>1, <1>3, <1>4, <1>5, ReopenedIs
<1>7. held.id = 1 /\ held.review = o.review
  BY <1>1
<1>8. RowsHeld(client, held)
  BY <1>3, <1>5, <1>6, <1>7 DEF RowsHeld
<1> QED BY <1>1, <1>8 DEF RowsInv

-----------------------------------------------------------------------------
(* What no step does changes nothing.                                      *)
LEMMA StutterShapes ==
  ASSUME UNCHANGED vars
  PROVE  (Shapes => Shapes') /\ (RowsInv => RowsInv')
<1>1. UNCHANGED <<stored, members, held, files, mark, client, unfolded, overtaken, acts, flight,
                  readBacks>>
  BY DEF vars, store, screen
<1>2. Shapes => Shapes'
  BY <1>1, SameShapes DEF Shapes
<1>3. RowsInv => RowsInv'
  BY <1>1 DEF RowsInv
<1> QED BY <1>2, <1>3

(* The steps there are.                                                    *)
StepKinds ==
    \/ Elsewhere \/ SetChanges \/ MoveTo \/ LetGo \/ NewCode
    \/ SendSteps
    \/ \E m \in flight : ServesOne(m)
    \/ Refuse
    \/ \E m \in flight : OpensOne(m)
    \/ DieWriting
    \/ \E m \in flight : \E window, keep \in BOOLEAN : Receives(m, window, keep)
    \/ \E m \in flight : OpenedAt(m)
    \/ Fail \/ ReceiveExpired

(* Every action is one of these steps.                                     *)
LEMMA StepsAre ==
  ASSUME Next
  PROVE  StepKinds
<1>1. CASE Serve
  BY <1>1, ServesAre DEF StepKinds
<1>2. CASE Open
  BY <1>2, OpensAre DEF StepKinds
<1>3. CASE ReceiveRead \/ ReceiveChange
  BY <1>3, ReceivesAre DEF StepKinds
<1>4. CASE ReceiveOpened
  BY <1>4, OpenedAre DEF StepKinds
<1> QED BY <1>1, <1>2, <1>3, <1>4, Zenon DEF Next, StepKinds, SendSteps

(* Every step leaves everything fitting.                                   *)
LEMMA ShapesStep ==
  ASSUME Shapes, [Next]_vars
  PROVE  Shapes'
<1>1. CASE UNCHANGED vars
  BY <1>1, StutterShapes
<1>2. CASE Next
  <2>0. StepKinds
    BY <1>2, StepsAre
  <2>1. CASE Elsewhere \/ SetChanges \/ MoveTo \/ LetGo \/ NewCode
    BY <2>1, OtherShapes
  <2>2. CASE SendSteps
    BY <2>2, SentShapes
  <2>3. CASE \E m \in flight : ServesOne(m)
    BY <2>3, ServedShapes
  <2>4. CASE Refuse \/ DieWriting
    BY <2>4, FailedShapes
  <2>5. CASE \E m \in flight : OpensOne(m)
    BY <2>5, OpenedShapes
  <2>6. CASE \E m \in flight : \E window, keep \in BOOLEAN : Receives(m, window, keep)
    BY <2>6, ReceivedShapes
  <2>7. CASE \E m \in flight : OpenedAt(m)
    BY <2>7, ReopenedShapes
  <2>8. CASE Fail \/ ReceiveExpired
    <3>1. PICK m \in flight : Falls(m)
      BY <2>8, FallsAre
    <3> QED BY <3>1, FallenShapes
  <2> QED BY <2>0, <2>1, <2>2, <2>3, <2>4, <2>5, <2>6, <2>7, <2>8, Zenon DEF StepKinds
<1> QED BY <1>1, <1>2

(* Every step leaves the rows of the client and of the answers those of    *)
(* the lists they name.                                                    *)
LEMMA RowsStep ==
  ASSUME Shapes, RowsInv, [Next]_vars
  PROVE  RowsInv'
<1>1. CASE UNCHANGED vars
  BY <1>1, StutterShapes
<1>2. CASE Next
  <2>0. StepKinds
    BY <1>2, StepsAre
  <2>1. CASE \/ Elsewhere \/ SetChanges \/ MoveTo \/ LetGo \/ NewCode
             \/ SendSteps \/ Refuse \/ DieWriting \/ Fail \/ ReceiveExpired
    BY <2>1, IdleRows
  <2>3. CASE \E m \in flight : ServesOne(m)
    BY <2>3, ServedRows
  <2>5. CASE \E m \in flight : OpensOne(m)
    BY <2>5, OpenedRows
  <2>6. CASE \E m \in flight : \E window, keep \in BOOLEAN : Receives(m, window, keep)
    BY <2>6, ReceivedRows
  <2>7. CASE \E m \in flight : OpenedAt(m)
    BY <2>7, ReopenedRows
  <2> QED BY <2>0, <2>1, <2>3, <2>5, <2>6, <2>7, Zenon DEF StepKinds
<1> QED BY <1>1, <1>2

(* While memory keeps the review, a client on its version of the list has  *)
(* the rows of that list, in whatever order answers came (applyUpdate,     *)
(* OpenReview.layout).                                                     *)
THEOREM RowsAlwaysAgree == Spec => []RowsAgree
<1>1. Init => Shapes /\ RowsInv
  BY InitShapes, InitRows
<1>2. Shapes /\ RowsInv /\ [Next]_vars => (Shapes /\ RowsInv)'
  BY ShapesStep, RowsStep
<1>3. Shapes /\ RowsInv => RowsAgree
  BY DEF RowsInv, RowsHeld, RowsAgree, RowsMatch, SameReview
<1> QED BY <1>1, <1>2, <1>3, PTL DEF Spec

-----------------------------------------------------------------------------
(* Orders: what is taken out of one, put into one and lined up anew.       *)

(* Part of an order is an order, of the cards at those places.             *)
LEMMA PickedOrder ==
  ASSUME NEW order, Sound(order), NEW P \in SUBSET DOMAIN order
  PROVE  LET s == Picked(order, P) IN
         /\ Sound(s) /\ CardsIn(s) = {order[i] : i \in P}
         /\ Len(s) = Cardinality(P)
<1> DEFINE at == Ascending(P)
           M == Cardinality(P)
           s == Picked(order, P)
<1>0. order \in Seq(HeldSet)
  BY DEF Sound
<1>1. /\ M \in Nat
      /\ at \in [1 .. M -> P]
      /\ \A m, n \in 1 .. M : m < n => at[m] < at[n]
      /\ \A p \in P : \E n \in 1 .. M : at[n] = p
      /\ s \in Seq(HeldSet)
      /\ Len(s) = M
      /\ \A n \in 1 .. M : s[n] = order[at[n]]
  BY <1>0, PickedIs
<1> HIDE DEF at, M, s
<1>2. DOMAIN s = 1 .. M
  BY <1>1
<1>3. \A n \in 1 .. M : at[n] \in P /\ at[n] \in DOMAIN order
  BY <1>1
<1>4. Once(s)
  <2> SUFFICES ASSUME NEW m \in 1 .. M, NEW n \in 1 .. M, s[m].id = s[n].id PROVE m = n
    BY <1>2 DEF Once
  <2>1. order[at[m]].id = order[at[n]].id
    BY <1>1
  <2>2. at[m] = at[n]
    BY <1>3, <2>1 DEF Sound, Once
  <2>3. at[m] \in Nat
    BY <1>0, <1>3
  <2> QED BY <1>1, <2>2, <2>3
<1>5. Ordered(s)
  <2> SUFFICES ASSUME NEW m \in 1 .. M, NEW n \in 1 .. M, m < n PROVE ~Below(s[n].key, s[m].key)
    BY <1>2 DEF Ordered
  <2>1. at[m] < at[n]
    BY <1>1
  <2>2. ~Below(order[at[n]].key, order[at[m]].key)
    BY <1>3, <2>1 DEF Sound, Ordered
  <2> QED BY <1>1, <2>2
<1>6. CardsIn(s) = {order[i] : i \in P}
  <2>1. \A n \in 1 .. M : s[n] = order[at[n]] /\ at[n] \in P
    BY <1>1
  <2>2. \A p \in P : \E n \in 1 .. M : s[n] = order[p]
    BY <1>1
  <2> QED BY <1>2, <2>1, <2>2 DEF CardsIn
<1> QED BY <1>1, <1>4, <1>5, <1>6 DEF Sound, s, M

(* The cards that stay when some are removed.                              *)
LEMMA RemoveCardsIs ==
  ASSUME NEW order, Sound(order), NEW ids
  PROVE  LET s == RemoveCards(order, ids) IN
         /\ Sound(s)
         /\ \A h : h \in CardsIn(s) <=> h \in CardsIn(order) /\ h.id \notin ids
<1> DEFINE P == {i \in DOMAIN order : order[i].id \notin ids}
           s == RemoveCards(order, ids)
<1>1. P \in SUBSET DOMAIN order
  OBVIOUS
<1>2. s = Picked(order, P)
  BY Zenon DEF RemoveCards
<1> HIDE DEF s
<1>3. Sound(s) /\ CardsIn(s) = {order[i] : i \in P}
  BY <1>1, <1>2, PickedOrder
<1>4. \A h : h \in CardsIn(s) <=> h \in CardsIn(order) /\ h.id \notin ids
  BY <1>3 DEF CardsIn
<1> QED BY <1>3, <1>4 DEF s

(* A card that takes the place of another.                                 *)
LEMMA ReplaceCardIs ==
  ASSUME NEW order, Sound(order), NEW old \in Ids(order),
         NEW id \in Cards, id \notin Ids(order), NEW section \in Sections
  PROVE  LET s == ReplaceCard(order, old, [id |-> id, section |-> section, key |-> <<>>])
             new == [id |-> id, section |-> section, key |-> CardOf(order, old).key]
         IN  /\ Sound(s)
             /\ \A h : h \in CardsIn(s) <=> h = new \/ (h \in CardsIn(order) /\ h.id # old)
<1> DEFINE no == <<>>
           card == [id |-> id, section |-> section, key |-> no]
           s == ReplaceCard(order, old, card)
           new == [id |-> id, section |-> section, key |-> CardOf(order, old).key]
<1>0. /\ order \in Seq(HeldSet) /\ Once(order) /\ DOMAIN order = 1 .. Len(order)
      /\ Len(order) \in Nat /\ \A i \in DOMAIN order : order[i] \in HeldSet
  BY DEF Sound
<1>1. PICK k \in DOMAIN order : order[k].id = old
  BY DEF Ids
<1>2. CardOf(order, old) = order[k]
  <2>1. \A i \in DOMAIN order : order[i].id = old <=> i = k
    BY <1>0, <1>1 DEF Once
  <2>2. IndexOf(order, old) = k
    BY <2>1 DEF IndexOf
  <2> QED BY <2>2 DEF CardOf
<1>3. \A i \in DOMAIN order : [card EXCEPT !.key = order[i].key] =
                              [id |-> id, section |-> section, key |-> order[i].key]
  <2> HIDE DEF no
  <2> QED OBVIOUS
<1>4. s = [i \in DOMAIN order |-> IF order[i].id = old THEN [card EXCEPT !.key = order[i].key]
                                  ELSE order[i]]
  BY Zenon DEF ReplaceCard
<1> HIDE DEF card
<1>5. /\ DOMAIN s = DOMAIN order
      /\ \A i \in DOMAIN order : s[i] = IF i = k THEN new ELSE order[i]
  <2>1. \A i \in DOMAIN order : order[i].id = old <=> i = k
    BY <1>0, <1>1 DEF Once
  <2> QED BY <1>2, <1>3, <1>4, <2>1
<1>6. s = [i \in 1 .. Len(order) |-> s[i]]
  BY <1>0, <1>4
<1> HIDE DEF s
<1>7. order[k].key \in Keys /\ order[k].id = old
  BY <1>0, <1>1 DEF HeldSet
<1>8. new \in HeldSet /\ new.id = id /\ new.key = order[k].key
  BY <1>2, <1>7 DEF HeldSet
<1> HIDE DEF new
<1>9. s \in Seq(HeldSet)
  <2>1. s \in [1 .. Len(order) -> HeldSet]
    BY <1>0, <1>5, <1>6, <1>8
  <2> QED BY <1>0, <2>1
<1>10. \A i \in DOMAIN order : order[i].id # id
  BY DEF Ids
<1>11. Once(s)
  BY <1>0, <1>5, <1>8, <1>10 DEF Once
<1>12. \A i \in DOMAIN order : s[i].key = order[i].key
  BY <1>5, <1>8
<1>13. Ordered(s)
  BY <1>5, <1>12 DEF Sound, Ordered
<1>14. \A h : h \in CardsIn(s) <=> h = new \/ (h \in CardsIn(order) /\ h.id # old)
  <2>1. \A i \in DOMAIN order : order[i].id = old <=> i = k
    BY <1>0, <1>1 DEF Once
  <2> QED BY <1>1, <1>5, <2>1 DEF CardsIn
<1>15. s = ReplaceCard(order, old, [id |-> id, section |-> section, key |-> <<>>])
  BY Zenon DEF s, card, no
<1> QED BY <1>9, <1>11, <1>13, <1>14, <1>15 DEF Sound, new

(* Cards in a line, none under the same key or of the same id, each ahead  *)
(* of those it is not above.                                               *)
LEMMA LinedUpOrder ==
  ASSUME NEW ahead, IsLine(ahead), DOMAIN ahead \subseteq HeldSet,
         \A c, d \in DOMAIN ahead : c.id = d.id => c = d,
         \A c, d \in DOMAIN ahead : d \in ahead[c] => ~Below(c.key, d.key)
  PROVE  Sound(LineUp(ahead)) /\ CardsIn(LineUp(ahead)) = DOMAIN ahead
<1> DEFINE s == LineUp(ahead)
           N == Cardinality(DOMAIN ahead)
<1>1. /\ N \in Nat
      /\ s \in [1 .. N -> DOMAIN ahead]
      /\ \A x \in DOMAIN ahead : \E n \in 1 .. N : s[n] = x
      /\ \A m, n \in 1 .. N : s[m] \in ahead[s[n]] <=> m < n
      /\ \A m, n \in 1 .. N : s[m] = s[n] => m = n
  BY LineUpIs
<1> HIDE DEF s, N
<1>2. s \in Seq(HeldSet) /\ DOMAIN s = 1 .. N
  <2>1. s \in [1 .. N -> HeldSet]
    BY <1>1
  <2> QED BY <1>1, <2>1
<1>3. Once(s)
  BY <1>1, <1>2 DEF Once
<1>4. Ordered(s)
  BY <1>1, <1>2 DEF Ordered
<1>5. CardsIn(s) = DOMAIN ahead
  <2>1. \A h : h \in CardsIn(s) <=> \E n \in 1 .. N : h = s[n]
    BY <1>2 DEF CardsIn
  <2>2. \A h : h \in DOMAIN ahead <=> \E n \in 1 .. N : h = s[n]
    BY <1>1
  <2> QED BY <2>1, <2>2
<1> QED BY <1>2, <1>3, <1>4, <1>5 DEF Sound, s

(* Cards that may be lined up by their keys.                               *)
Apart(cards) ==
    /\ IsFiniteSet(cards) /\ cards \subseteq HeldSet
    /\ \A c, d \in cards : c.id = d.id \/ c.key = d.key => c = d

(* The cards in the order of their keys are the same cards, each once, and *)
(* stand in that order.                                                    *)
LEMMA InKeyOrderIs ==
  ASSUME NEW cards, Apart(cards)
  PROVE  Sound(InKeyOrder(cards)) /\ CardsIn(InKeyOrder(cards)) = cards
<1> DEFINE ahead == [c \in cards |-> {d \in cards : KeyBelow(d, c)}]
<1>1. DOMAIN ahead = cards /\ \A c, d \in cards : d \in ahead[c] <=> Below(d.key, c.key)
  BY DEF KeyBelow
<1>0. \A c \in cards : ahead[c] \subseteq cards
  OBVIOUS
<1>2. InKeyOrder(cards) = LineUp(ahead)
  BY Zenon DEF InKeyOrder
<1> HIDE DEF ahead
<1>3. \A c \in cards : c.key \in Keys
  BY DEF Apart, HeldSet
<1>4. \A c, d \in cards : Below(c.key, d.key) => ~Below(d.key, c.key)
  BY <1>3, KeysAreOrdered
<1>5. IsLine(ahead)
  <2>1. \A c \in cards : c \notin ahead[c]
    BY <1>1, <1>3, KeysAreOrdered
  <2>2. ASSUME NEW c \in cards, NEW d \in cards, c \in ahead[d] PROVE ahead[c] \subseteq ahead[d]
    <3>1. \A e \in cards : Below(e.key, c.key) => Below(e.key, d.key)
      BY <1>1, <1>3, <2>2, KeysAreOrdered
    <3> QED BY <1>0, <1>1, <3>1
  <2>3. \A c, d \in cards : c = d \/ c \in ahead[d] \/ d \in ahead[c]
    BY <1>1, <1>3, KeysAreOrdered DEF Apart
  <2> QED BY <1>0, <1>1, <2>1, <2>2, <2>3 DEF IsLine, Apart
<1>6. Sound(LineUp(ahead)) /\ CardsIn(LineUp(ahead)) = DOMAIN ahead
  BY <1>1, <1>4, <1>5, LinedUpOrder DEF Apart
<1> QED BY <1>1, <1>2, <1>6

-----------------------------------------------------------------------------
(* The cards an order opened now would hold.                               *)

(* A section's part is its place among the four.                           *)
LEMMA PartOfSection ==
  ASSUME NEW s \in Sections
  PROVE  PartOf(s) \in 1 .. 4
<1>1. DOMAIN SectionOrder = 1 .. 4
  BY DEF SectionOrder
<1>2. \E i \in DOMAIN SectionOrder : SectionOrder[i] = s
  BY DEF Sections
<1> QED BY <1>1, <1>2 DEF PartOf

(* Cards as they are held: one for each, in its section, no two under one  *)
(* key.                                                                    *)
LEMMA HeldCardsAre ==
  ASSUME NEW cards \in SUBSET Cards, NEW st,
         \A c \in cards : st[c].section \in Sections
  PROVE  /\ Apart(HeldCards(cards, st))
         /\ \A h \in HeldCards(cards, st) : h.id \in cards /\ h.section = st[h.id].section
         /\ \A c \in cards : \E h \in HeldCards(cards, st) : h.id = c
<1> DEFINE part == [c \in cards |-> PartOf(st[c].section)]
           Family(c) == {d \in cards : WordOf[d] = WordOf[c] /\ part[d] = part[c]}
           Best(c) == CHOOSE b \in {OwnKey[d] : d \in Family(c)} : \A d \in Family(c) : b <= OwnKey[d]
           keys == GroupedKeys(cards, part, WordOf, OwnKey)
           H == HeldCards(cards, st)
<1>1. \A c \in cards : part[c] \in 1 .. 4
  BY PartOfSection
<1>2. cards \subseteq Nat /\ IsFiniteSet(cards)
      /\ \A c \in cards : WordOf[c] \in Nat /\ OwnKey[c] \in Nat
  BY CardsAssumption, CardKeysAssumption, FS_Subset
<1>3. ASSUME NEW c \in cards PROVE Best(c) \in Nat
  <2> DEFINE F == Family(c)
             B == {OwnKey[d] : d \in F}
             f == [d \in F |-> OwnKey[d]]
  <2>1. F \in SUBSET cards /\ c \in F
    OBVIOUS
  <2> HIDE DEF F
  <2>2. IsFiniteSet(F)
    BY <1>2, <2>1, FS_Subset
  <2>3. f \in Surjection(F, B)
    <3>1. f \in [F -> B] /\ \A b \in B : \E d \in F : f[d] = b
      OBVIOUS
    <3> HIDE DEF f, B
    <3> QED BY <3>1, Fun_IsSurj
  <2>4. IsFiniteSet(B) /\ B \in SUBSET Nat /\ B # {}
    <3>1. B \in SUBSET Nat /\ B # {}
      BY <1>2, <2>1
    <3>2. IsFiniteSet(B)
      <4> HIDE DEF B, f
      <4> QED BY <2>2, <2>3, FS_Surjection
    <3> QED BY <3>1, <3>2
  <2>5. \E b \in B : \A k \in B : b <= k
    <3> HIDE DEF B
    <3> QED BY <2>4, MinExists
  <2>6. \E b \in B : \A d \in F : b <= OwnKey[d]
    BY <2>5
  <2>7. \E b \in {OwnKey[d] : d \in Family(c)} : \A d \in Family(c) : b <= OwnKey[d]
    BY <2>6 DEF F
  <2>8. Best(c) \in {OwnKey[d] : d \in Family(c)}
    BY <2>7, Zenon
  <2> QED BY <1>2, <2>1, <2>8 DEF F
<1>4. keys = [c \in cards |-> <<part[c], Best(c), WordOf[c], OwnKey[c], c>>]
  BY Zenon DEF GroupedKeys
<1>5. H = {[id |-> c, section |-> st[c].section, key |-> keys[c]] : c \in cards}
  BY Zenon DEF HeldCards
<1> HIDE DEF part, Best, H
<1>6. \A c \in cards : keys[c] \in Keys /\ keys[c][5] = c
  <2> TAKE c \in cards
  <2>1. keys[c] = <<part[c], Best(c), WordOf[c], OwnKey[c], c>>
    BY <1>4
  <2>2. part[c] \in Int /\ Best(c) \in Int /\ WordOf[c] \in Int /\ OwnKey[c] \in Int /\ c \in Int
    BY <1>1, <1>2, <1>3
  <2> QED BY <2>1, <2>2 DEF Keys
<1> HIDE DEF keys
<1>7. \A h \in H : h \in HeldSet /\ h.id \in cards /\ h.key = keys[h.id]
                   /\ h.section = st[h.id].section
  BY <1>5, <1>6 DEF HeldSet
<1>8. \A c \in cards : \E h \in H : h.id = c
  <2> TAKE c \in cards
  <2>1. [id |-> c, section |-> st[c].section, key |-> keys[c]] \in H
    BY <1>5, Zenon
  <2>2. [id |-> c, section |-> st[c].section, key |-> keys[c]].id = c
    OBVIOUS
  <2> QED BY <2>1, <2>2
<1>9. \A c, d \in H : c.id = d.id => c = d
  BY <1>5
<1>10. \A c, d \in H : c.key = d.key => c = d
  BY <1>6, <1>7, <1>9
<1>11. IsFiniteSet(H)
  <2> DEFINE f == [c \in cards |-> [id |-> c, section |-> st[c].section, key |-> keys[c]]]
  <2>1. f \in [cards -> H] /\ \A h \in H : \E c \in cards : f[c] = h
    BY <1>5
  <2> HIDE DEF f
  <2>2. f \in Surjection(cards, H)
    BY <2>1, Fun_IsSurj
  <2> QED BY <1>2, <2>2, FS_Surjection
<1> QED BY <1>7, <1>8, <1>9, <1>10, <1>11 DEF Apart, H

(* Whether the projection's sections are ones there are.                   *)
InSections(st) == \A c \in Cards : st[c].section \in Sections

(* The order opened now: the live cards of the sources, each in its        *)
(* section.                                                                *)
LEMMA OpenedOrderIs ==
  ASSUME NEW st, NEW sources, InSections(st)
  PROVE  LET s == OpenedOrder(st, sources) IN
         /\ Sound(s)
         /\ \A c : c \in Ids(s) <=> c \in LiveIn(st, sources)
         /\ \A c \in Ids(s) : CardOf(s, c).section = st[c].section
<1> DEFINE cards == LiveIn(st, sources)
           H == HeldCards(cards, st)
           s == OpenedOrder(st, sources)
<1>1. cards \in SUBSET Cards
  BY DEF LiveIn
<1>2. /\ Apart(H)
      /\ \A h \in H : h.id \in cards /\ h.section = st[h.id].section
      /\ \A c \in cards : \E h \in H : h.id = c
  BY <1>1, HeldCardsAre DEF InSections
<1>3. s = InKeyOrder(H)
  BY Zenon DEF OpenedOrder
<1> HIDE DEF H, s
<1>4. Sound(s) /\ CardsIn(s) = H
  BY <1>2, <1>3, InKeyOrderIs
<1>5. s \in Seq(HeldSet) /\ Once(s)
  BY <1>4 DEF Sound
<1>6. /\ Ids(s) = {h.id : h \in CardsIn(s)}
      /\ \A c \in Ids(s) : CardOf(s, c) \in CardsIn(s) /\ CardOf(s, c).id = c
  BY <1>5, CardsOfOrder
<1>7. \A c : c \in Ids(s) <=> c \in cards
  BY <1>2, <1>4, <1>6
<1>8. \A c \in Ids(s) : CardOf(s, c).section = st[c].section
  BY <1>2, <1>4, <1>6
<1> QED BY <1>4, <1>7, <1>8 DEF s

-----------------------------------------------------------------------------
(* The binary search.                                                      *)

(* One step of the search: it is over, or goes on in one of the halves.    *)
Narrowed(order, key, search, at) ==
    LET middle == (at[1] + at[2]) \div 2 IN
    IF at[1] >= at[2] THEN at[1]
    ELSE IF Below(order[middle + 1].key, key) THEN search[<<middle + 1, at[2]>>]
    ELSE search[<<at[1], middle>>]

IsSearch(order, key, search) ==
    search = [at \in Bounds(order) |-> Narrowed(order, key, search, at)]

(* What every search that is one finds, from bounds around the place: the  *)
(* number of the held cards below the key.                                 *)
LEMMA SearchFinds ==
  ASSUME NEW order, Sound(order), NEW key \in Keys,
         NEW search, IsSearch(order, key, search)
  PROVE  \A at \in Bounds(order) :
            /\ at[1] <= at[2]
            /\ \A i \in DOMAIN order : i <= at[1] => Below(order[i].key, key)
            /\ \A i \in DOMAIN order : i > at[2] => ~Below(order[i].key, key)
            => /\ search[at] \in 0 .. Len(order)
               /\ \A i \in DOMAIN order : Below(order[i].key, key) <=> i <= search[at]
<1> DEFINE N == Len(order)
           Around_(at) ==
              /\ at[1] <= at[2]
              /\ \A i \in DOMAIN order : i <= at[1] => Below(order[i].key, key)
              /\ \A i \in DOMAIN order : i > at[2] => ~Below(order[i].key, key)
           Found_(at) ==
              /\ search[at] \in 0 .. N
              /\ \A i \in DOMAIN order : Below(order[i].key, key) <=> i <= search[at]
           Bad == {at \in Bounds(order) : Around_(at) /\ ~Found_(at)}
           Sizes == {n \in 0 .. N : \E at \in Bad : at[2] - at[1] = n}
<1>0. N \in Nat /\ DOMAIN order = 1 .. N /\ \A i \in 1 .. N : order[i].key \in Keys
  <2>1. order \in Seq(HeldSet)
    BY DEF Sound
  <2>2. N \in Nat /\ DOMAIN order = 1 .. N /\ \A i \in 1 .. N : order[i] \in HeldSet
    BY <2>1
  <2> QED BY <2>2 DEF HeldSet
<1>1. SUFFICES ASSUME Bad # {} PROVE FALSE
  OBVIOUS
<1>2. \A at \in Bounds(order) : at[1] \in 0 .. N /\ at[2] \in 0 .. N /\ at = <<at[1], at[2]>>
  BY DEF Bounds
<1>3. PICK n \in Sizes : \A k \in Sizes : n <= k
  <2>1. Sizes # {}
    <3>1. PICK at \in Bad : TRUE
      BY <1>1
    <3>2. at \in Bounds(order) /\ at[1] <= at[2]
      OBVIOUS
    <3>3. at[2] - at[1] \in 0 .. N
      BY <1>0, <1>2, <3>2
    <3> QED BY <3>3
  <2>2. Sizes \in SUBSET Nat /\ IsFiniteSet(Sizes)
    <3>0. 0 \in Int /\ N \in Int
      BY <1>0
    <3> HIDE DEF N, Bad
    <3>1. IsFiniteSet(0 .. N) /\ Sizes \in SUBSET (0 .. N)
      BY <3>0, FS_Interval
    <3>2. 0 .. N \in SUBSET Nat
      BY <3>0
    <3> HIDE DEF Sizes
    <3> QED BY <3>1, <3>2, FS_Subset
  <2> HIDE DEF Sizes
  <2> QED BY <2>1, <2>2, MinExists
<1>4. PICK at \in Bad : at[2] - at[1] = n
  BY <1>3
<1>5. at \in Bounds(order) /\ Around_(at) /\ ~Found_(at)
  BY <1>4
<1>6. PICK low \in 0 .. N, high \in 0 .. N : at = <<low, high>>
  BY <1>2, <1>5
<1>7. low \in Nat /\ high \in Nat /\ low <= high /\ at[1] = low /\ at[2] = high /\ n = high - low
  BY <1>0, <1>4, <1>5, <1>6
<1>8. search[at] = Narrowed(order, key, search, at)
  BY <1>5 DEF IsSearch
<1>9. \A b \in Bounds(order) : Around_(b) /\ b[2] - b[1] < n => Found_(b)
  <2> SUFFICES ASSUME NEW b \in Bounds(order), Around_(b), b[2] - b[1] < n, ~Found_(b) PROVE FALSE
    OBVIOUS
  <2>1. b \in Bad
    OBVIOUS
  <2>2. b[2] - b[1] \in 0 .. N
    BY <1>0, <1>2
  <2>3. b[2] - b[1] \in Sizes
    BY <2>1, <2>2
  <2>4. n \in Nat
    BY <1>3
  <2> QED BY <1>3, <2>2, <2>3, <2>4
<1>10. /\ \A i \in 1 .. N : i <= low => Below(order[i].key, key)
       /\ \A i \in 1 .. N : i > high => ~Below(order[i].key, key)
  BY <1>0, <1>5, <1>7
<1>11. /\ \A i, j \in 1 .. N : i < j /\ Below(order[j].key, key) => Below(order[i].key, key)
  <2> SUFFICES ASSUME NEW i \in 1 .. N, NEW j \in 1 .. N, i < j, Below(order[j].key, key)
               PROVE  Below(order[i].key, key)
    OBVIOUS
  <2>1. order[i].key \in Keys /\ order[j].key \in Keys
    BY <1>0
  <2>2. ~Below(order[j].key, order[i].key)
    BY <1>0 DEF Sound, Ordered
  <2>3. order[i].key = order[j].key \/ Below(order[i].key, order[j].key)
    BY <2>1, <2>2, KeysAreOrdered
  <2> QED BY <2>1, <2>3, KeysAreOrdered
<1>12. CASE low >= high
  <2>1. search[at] = low /\ low = high
    BY <1>7, <1>8, <1>12 DEF Narrowed
  <2>2. Found_(at)
    BY <1>0, <1>10, <2>1
  <2> QED BY <1>5, <2>2
<1>13. CASE ~(low >= high)
  <2> DEFINE middle == (low + high) \div 2
  <2>1. middle \in Nat /\ low <= middle /\ middle < high /\ middle + 1 \in 1 .. N
    BY <1>7, <1>13
  <2>2. search[at] = IF Below(order[middle + 1].key, key) THEN search[<<middle + 1, high>>]
                     ELSE search[<<low, middle>>]
    BY <1>7, <1>8, <1>13 DEF Narrowed
  <2> HIDE DEF middle
  <2>3. CASE Below(order[middle + 1].key, key)
    <3> DEFINE b == <<middle + 1, high>>
    <3>1. b \in Bounds(order) /\ b[1] = middle + 1 /\ b[2] = high
      BY <1>0, <1>6, <2>1 DEF Bounds
    <3>2. \A i \in 1 .. N : i <= middle + 1 => Below(order[i].key, key)
      BY <1>0, <1>11, <2>1, <2>3
    <3>3. Around_(b)
      BY <1>0, <1>10, <2>1, <3>1, <3>2
    <3>4. b[2] - b[1] < n
      BY <1>7, <2>1, <3>1
    <3>5. Found_(b) /\ search[at] = search[b]
      BY <1>9, <2>2, <2>3, <3>1, <3>3, <3>4
    <3>6. Found_(at)
      <4> HIDE DEF b
      <4> QED BY <3>5
    <3> QED BY <1>5, <3>6
  <2>4. CASE ~Below(order[middle + 1].key, key)
    <3> DEFINE b == <<low, middle>>
    <3>1. b \in Bounds(order) /\ b[1] = low /\ b[2] = middle
      BY <1>0, <1>6, <2>1 DEF Bounds
    <3>2. \A i \in 1 .. N : i > middle => ~Below(order[i].key, key)
      BY <1>0, <1>11, <2>1, <2>4
    <3>3. Around_(b)
      BY <1>0, <1>10, <2>1, <3>1, <3>2
    <3>4. b[2] - b[1] < n
      BY <1>7, <2>1, <3>1
    <3>5. Found_(b) /\ search[at] = search[b]
      BY <1>9, <2>2, <2>4, <3>1, <3>3, <3>4
    <3>6. Found_(at)
      <4> HIDE DEF b
      <4> QED BY <3>5
    <3> QED BY <1>5, <3>6
  <2> QED BY <2>3, <2>4
<1> QED BY <1>12, <1>13

(* There is a search: what it finds is the number of the held cards below  *)
(* the key, or the bound nearest to it.                                    *)
LEMMA SearchExists ==
  ASSUME NEW order, Sound(order), NEW key \in Keys
  PROVE  \E search : IsSearch(order, key, search)
<1> DEFINE N == Len(order)
           B == {i \in 1 .. N : Below(order[i].key, key)}
<1>0. N \in Nat /\ DOMAIN order = 1 .. N /\ \A i \in 1 .. N : order[i].key \in Keys
  <2>1. order \in Seq(HeldSet)
    BY DEF Sound
  <2>2. N \in Nat /\ DOMAIN order = 1 .. N /\ \A i \in 1 .. N : order[i] \in HeldSet
    BY <2>1
  <2> QED BY <2>2 DEF HeldSet
<1>1. \A i, j \in 1 .. N : i < j /\ Below(order[j].key, key) => Below(order[i].key, key)
  <2> SUFFICES ASSUME NEW i \in 1 .. N, NEW j \in 1 .. N, i < j, Below(order[j].key, key)
               PROVE  Below(order[i].key, key)
    OBVIOUS
  <2>1. order[i].key \in Keys /\ order[j].key \in Keys
    BY <1>0
  <2>2. ~Below(order[j].key, order[i].key)
    BY <1>0 DEF Sound, Ordered
  <2>3. order[i].key = order[j].key \/ Below(order[i].key, order[j].key)
    BY <2>1, <2>2, KeysAreOrdered
  <2> QED BY <2>1, <2>3, KeysAreOrdered
<1>2. PICK k \in 0 .. N : \A i \in 1 .. N : Below(order[i].key, key) <=> i <= k
  <2>1. CASE B = {}
    BY <1>0, <2>1
  <2>2. CASE B # {}
    <3>1. B \in SUBSET Nat /\ IsFiniteSet(B)
      <4>1. 1 \in Int /\ N \in Int /\ 1 .. N \in SUBSET Nat
        BY <1>0
      <4> HIDE DEF N
      <4>2. IsFiniteSet(1 .. N) /\ B \in SUBSET (1 .. N)
        BY <4>1, FS_Interval
      <4> HIDE DEF B
      <4> QED BY <4>1, <4>2, FS_Subset
    <3>2. PICK k \in B : \A i \in B : i <= k
      <4> HIDE DEF B
      <4> QED BY <2>2, <3>1, MaxExists
    <3>3. k \in 1 .. N /\ Below(order[k].key, key)
      BY <3>2
    <3>4. \A i \in 1 .. N : Below(order[i].key, key) <=> i <= k
      BY <1>0, <1>1, <3>2, <3>3
    <3> QED BY <1>0, <3>3, <3>4
  <2> QED BY <2>1, <2>2
<1> DEFINE Nearest(at) == IF at[1] >= at[2] \/ k <= at[1] THEN at[1]
                          ELSE IF k >= at[2] THEN at[2] ELSE k
           search == [at \in Bounds(order) |-> Nearest(at)]
<1>3. ASSUME NEW low \in 0 .. N, NEW high \in 0 .. N
      PROVE  Nearest(<<low, high>>) = Narrowed(order, key, search, <<low, high>>)
  <2> DEFINE middle == (low + high) \div 2
  <2>1. CASE low >= high
    BY <2>1 DEF Narrowed
  <2>2. CASE ~(low >= high)
    <3>1. middle \in Nat /\ low <= middle /\ middle < high /\ middle + 1 \in 1 .. N
      BY <1>0, <2>2
    <3>2. Narrowed(order, key, search, <<low, high>>) =
             IF Below(order[middle + 1].key, key) THEN search[<<middle + 1, high>>]
             ELSE search[<<low, middle>>]
      BY <2>2 DEF Narrowed
    <3> HIDE DEF middle
    <3>3. <<middle + 1, high>> \in Bounds(order) /\ <<low, middle>> \in Bounds(order)
      BY <1>0, <3>1 DEF Bounds
    <3>4. search[<<middle + 1, high>>] = Nearest(<<middle + 1, high>>)
          /\ search[<<low, middle>>] = Nearest(<<low, middle>>)
      BY <3>3
    <3> HIDE DEF search
    <3>5. Below(order[middle + 1].key, key) <=> middle + 1 <= k
      BY <1>2, <3>1
    <3> QED BY <1>0, <1>2, <2>2, <3>1, <3>2, <3>4, <3>5
  <2> QED BY <2>1, <2>2
<1>4. \A at \in Bounds(order) : \E low, high \in 0 .. N : at = <<low, high>>
  BY DEF Bounds
<1>5. \A at \in Bounds(order) : Nearest(at) = Narrowed(order, key, search, at)
  <2> HIDE DEF Nearest, search
  <2> QED BY <1>3, <1>4
<1>6. search = [at \in Bounds(order) |-> Narrowed(order, key, search, at)]
  <2>1. \A at \in Bounds(order) : search[at] = Narrowed(order, key, search, at)
    BY <1>5
  <2>2. search = [at \in Bounds(order) |-> search[at]]
    OBVIOUS
  <2> HIDE DEF search
  <2> QED BY <2>1, <2>2
<1> HIDE DEF search
<1> QED BY <1>6 DEF IsSearch

(* The place of a key: how many of the held cards are below it.            *)
LEMMA PlaceOfIs ==
  ASSUME NEW order, Sound(order), NEW key \in Keys
  PROVE  /\ PlaceOf(order, key) \in 0 .. Len(order)
         /\ \A i \in DOMAIN order : Below(order[i].key, key) <=> i <= PlaceOf(order, key)
<1> DEFINE search == CHOOSE s : s = [at \in Bounds(order) |->
                        LET middle == (at[1] + at[2]) \div 2 IN
                        IF at[1] >= at[2] THEN at[1]
                        ELSE IF Below(order[middle + 1].key, key) THEN s[<<middle + 1, at[2]>>]
                        ELSE s[<<at[1], middle>>]]
<1>1. PlaceOf(order, key) = search[<<0, Len(order)>>]
  BY Zenon DEF PlaceOf
<1>2. search = CHOOSE s : IsSearch(order, key, s)
  BY Zenon DEF IsSearch, Narrowed
<1> HIDE DEF search
<1>3. IsSearch(order, key, search)
  BY <1>2, SearchExists, Zenon
<1> DEFINE N == Len(order)
           at == <<0, N>>
<1>4. N \in Nat /\ DOMAIN order = 1 .. N
  <2>1. order \in Seq(HeldSet)
    BY DEF Sound
  <2> QED BY <2>1
<1>5. at \in Bounds(order) /\ at[1] = 0 /\ at[2] = N
  BY <1>4 DEF Bounds
<1>6. /\ at[1] <= at[2]
      /\ \A i \in DOMAIN order : i <= at[1] => Below(order[i].key, key)
      /\ \A i \in DOMAIN order : i > at[2] => ~Below(order[i].key, key)
  BY <1>4, <1>5
<1> HIDE DEF at
<1>7. /\ search[at] \in 0 .. N
      /\ \A i \in DOMAIN order : Below(order[i].key, key) <=> i <= search[at]
  BY <1>3, <1>5, <1>6, SearchFinds
<1> QED BY <1>1, <1>7 DEF at

(* New cards each after its place, and the held ones where they are.       *)
LEMMA PlaceByKeyIs ==
  ASSUME NEW order, Sound(order), NEW new, Apart(new),
         \A h \in new : h.id \notin Ids(order)
  PROVE  LET s == PlaceByKey(order, new) IN
         Sound(s) /\ CardsIn(s) = CardsIn(order) \cup new
<1> DEFINE cards == {order[i] : i \in DOMAIN order} \cup new
           N == Len(order)
           At_(c) == IF c \in new THEN PlaceOf(order, c.key) ELSE IndexOf(order, c.id)
           Ahead(d, c) == \/ At_(d) < At_(c)
                          \/ At_(d) = At_(c) /\ c \in new /\ (d \notin new \/ KeyBelow(d, c))
           ahead == [c \in cards |-> {d \in cards : Ahead(d, c)}]
<1>0. /\ order \in Seq(HeldSet) /\ Once(order)
      /\ N \in Nat /\ DOMAIN order = 1 .. N
      /\ \A i \in 1 .. N : order[i] \in HeldSet /\ order[i].key \in Keys
  <2>1. order \in Seq(HeldSet) /\ Once(order)
    BY DEF Sound
  <2>2. N \in Nat /\ DOMAIN order = 1 .. N /\ \A i \in 1 .. N : order[i] \in HeldSet
    BY <2>1
  <2> QED BY <2>1, <2>2 DEF HeldSet
<1>1. PlaceByKey(order, new) = LineUp(ahead)
  BY Zenon DEF PlaceByKey
<1>2. DOMAIN ahead = cards /\ \A c, d \in cards : d \in ahead[c] <=> Ahead(d, c)
  OBVIOUS
<1>3. \A c \in cards : ahead[c] \subseteq cards
  OBVIOUS
<1>4. ASSUME NEW c \in new
      PROVE  /\ c \in HeldSet /\ c.key \in Keys
             /\ At_(c) \in 0 .. N
             /\ \A i \in 1 .. N : Below(order[i].key, c.key) <=> i <= At_(c)
  <2>1. c \in HeldSet
    BY DEF Apart
  <2>2. c.key \in Keys
    BY <2>1 DEF HeldSet
  <2>3. At_(c) = PlaceOf(order, c.key)
    OBVIOUS
  <2> HIDE DEF At_
  <2> QED BY <1>0, <2>1, <2>2, <2>3, PlaceOfIs
<1>5. ASSUME NEW i \in 1 .. N
      PROVE  order[i] \in cards /\ order[i] \notin new /\ At_(order[i]) = i
  <2>1. order[i].id \in Ids(order)
    BY <1>0 DEF Ids
  <2>2. order[i] \notin new
    BY <2>1
  <2>3. \A j \in DOMAIN order : order[j].id = order[i].id <=> j = i
    BY <1>0 DEF Once
  <2>4. IndexOf(order, order[i].id) = i
    BY <1>0, <2>3 DEF IndexOf
  <2> QED BY <1>0, <2>2, <2>4
<1>6. \A c \in cards : c \in new \/ \E i \in 1 .. N : c = order[i]
  BY <1>0
<1>7. \A c \in cards : c \in HeldSet /\ c.key \in Keys /\ At_(c) \in 0 .. N
  <2> HIDE DEF At_, cards
  <2> QED BY <1>0, <1>4, <1>5, <1>6
<1>8. IsFiniteSet(cards)
  <2>1. IsFiniteSet(CardsIn(order))
    BY <1>0, CardsOfOrder
  <2>2. cards = CardsIn(order) \cup new
    BY DEF CardsIn
  <2> HIDE DEF cards
  <2> QED BY <2>1, <2>2, FS_Union DEF Apart
<1>9. cards = CardsIn(order) \cup new
  BY DEF CardsIn
<1> HIDE DEF ahead, At_, cards
<1>10. \A c, d \in cards : Below(c.key, d.key) => ~Below(d.key, c.key)
  BY <1>7, KeysAreOrdered
<1>11. \A c \in cards : ~Ahead(c, c)
  BY <1>7, KeysAreOrdered DEF KeyBelow
<1>12. ASSUME NEW c \in cards, NEW d \in cards, NEW e \in cards, Ahead(c, d), Ahead(d, e)
       PROVE  Ahead(c, e)
  <2>1. At_(c) \in Nat /\ At_(d) \in Nat /\ At_(e) \in Nat
    BY <1>7
  <2>2. Below(c.key, d.key) /\ Below(d.key, e.key) => Below(c.key, e.key)
    BY <1>7, KeysAreOrdered
  <2> QED BY <1>12, <2>1, <2>2 DEF KeyBelow
<1>13. ASSUME NEW c \in cards, NEW d \in cards PROVE c = d \/ Ahead(c, d) \/ Ahead(d, c)
  <2>1. At_(c) \in Nat /\ At_(d) \in Nat
    BY <1>7
  <2>2. CASE At_(c) # At_(d)
    BY <2>1, <2>2
  <2>3. CASE At_(c) = At_(d) /\ c \in new /\ d \in new
    <3>1. c.key = d.key \/ Below(c.key, d.key) \/ Below(d.key, c.key)
      BY <1>7, KeysAreOrdered
    <3>2. c.key = d.key => c = d
      BY <2>3 DEF Apart
    <3> QED BY <2>3, <3>1, <3>2 DEF KeyBelow
  <2>4. CASE At_(c) = At_(d) /\ ((c \in new) # (d \in new))
    BY <2>4
  <2>5. CASE At_(c) = At_(d) /\ c \notin new /\ d \notin new
    <3>1. PICK i \in 1 .. N, j \in 1 .. N : c = order[i] /\ d = order[j]
      BY <1>6, <2>5
    <3> QED BY <1>5, <2>5, <3>1
  <2> QED BY <2>2, <2>3, <2>4, <2>5
<1>14. ASSUME NEW c \in cards, NEW d \in cards, Ahead(d, c) PROVE ~Below(c.key, d.key)
  <2>1. At_(c) \in 0 .. N /\ At_(d) \in 0 .. N /\ c.key \in Keys /\ d.key \in Keys
    BY <1>7
  <2>2. CASE c \notin new /\ d \notin new
    <3>1. PICK i \in 1 .. N, j \in 1 .. N : c = order[i] /\ d = order[j]
      BY <1>6, <2>2
    <3>2. j < i
      BY <1>5, <1>14, <2>2, <3>1
    <3> QED BY <1>0, <3>1, <3>2 DEF Sound, Ordered
  <2>3. CASE c \in new /\ d \notin new
    <3>1. PICK j \in 1 .. N : d = order[j]
      BY <1>6, <2>3
    <3>2. At_(d) = j /\ j <= At_(c)
      BY <1>5, <1>14, <2>1, <3>1
    <3>3. Below(d.key, c.key)
      BY <1>4, <2>3, <3>1, <3>2
    <3> QED BY <1>10, <3>3
  <2>4. CASE c \notin new /\ d \in new
    <3>1. PICK i \in 1 .. N : c = order[i]
      BY <1>6, <2>4
    <3>2. At_(c) = i /\ At_(d) < i
      BY <1>5, <1>14, <2>4, <3>1
    <3>3. ~(i <= At_(d))
      BY <2>1, <3>2
    <3> QED BY <1>4, <2>4, <3>1, <3>3
  <2>5. CASE c \in new /\ d \in new
    <3>1. CASE At_(d) < At_(c)
      <4>1. At_(c) \in 1 .. N /\ ~(At_(c) <= At_(d))
        BY <1>0, <2>1, <3>1
      <4> DEFINE i == At_(c)
      <4>2. i \in 1 .. N /\ i <= At_(c)
        BY <2>1, <4>1
      <4>3. Below(order[i].key, c.key) /\ ~Below(order[i].key, d.key)
        BY <1>4, <2>5, <4>1, <4>2
      <4>4. order[i].key \in Keys
        BY <1>0, <4>2
      <4> QED BY <2>1, <4>3, <4>4, KeysAreOrdered
    <3>2. CASE At_(d) = At_(c) /\ KeyBelow(d, c)
      BY <1>10, <3>2 DEF KeyBelow
    <3> QED BY <1>14, <2>5, <3>1, <3>2
  <2> QED BY <2>2, <2>3, <2>4, <2>5
<1> HIDE DEF Ahead
<1>15. IsLine(ahead)
  <2>1. ASSUME NEW c \in cards, NEW d \in cards, c \in ahead[d] PROVE ahead[c] \subseteq ahead[d]
    <3>1. Ahead(c, d)
      BY <1>2, <2>1
    <3>2. \A e \in cards : e \in ahead[c] => e \in ahead[d]
      BY <1>2, <1>12, <3>1
    <3> QED BY <1>3, <3>2
  <2> QED BY <1>2, <1>3, <1>8, <1>11, <1>13, <2>1 DEF IsLine
<1>16. \A c, d \in cards : c.id = d.id => c = d
  <2>1. \A c, d \in CardsIn(order) : c.id = d.id => c = d
    BY <1>0, CardsOfOrder
  <2>2. \A c, d \in new : c.id = d.id => c = d
    BY DEF Apart
  <2>3. \A c \in CardsIn(order) : c.id \in Ids(order)
    BY <1>0, CardsOfOrder
  <2> QED BY <1>9, <2>1, <2>2, <2>3
<1>17. Sound(LineUp(ahead)) /\ CardsIn(LineUp(ahead)) = DOMAIN ahead
  <2>1. DOMAIN ahead \subseteq HeldSet
    BY <1>2, <1>7
  <2>2. \A c, d \in DOMAIN ahead : d \in ahead[c] => ~Below(c.key, d.key)
    BY <1>2, <1>14
  <2> QED BY <1>2, <1>15, <1>16, <2>1, <2>2, LinedUpOrder
<1> QED BY <1>1, <1>2, <1>9, <1>17

-----------------------------------------------------------------------------
(* What an update leaves of the order.                                     *)

(* A card stands in an order as the projection has it: it is there when it *)
(* is live and of these sources, in its section.                           *)
Right(order, st, sources, c) ==
    /\ (c \in Ids(order)) <=> (st[c].live /\ SourceOf[c] \in sources)
    /\ c \in Ids(order) => CardOf(order, c).section = st[c].section

(* The rows of these words, placed: the held cards and those rows; a row   *)
(* is in its section now unless it is kept where it was.                   *)
LEMMA PlacedIs ==
  ASSUME NEW order, Sound(order), NEW st, InSections(st), NEW sources, NEW words, NEW kept
  PROVE  LET s == Placed(order, st, sources, words, kept)
             rows == {c \in LiveIn(st, sources) : WordOf[c] \in words}
         IN  /\ Sound(s)
             /\ Cardinality(words) > PlacedAtMost =>
                  \A c : /\ c \in Ids(s) <=> c \in LiveIn(st, sources)
                         /\ c \in Ids(s) => CardOf(s, c).section = st[c].section
             /\ ~(Cardinality(words) > PlacedAtMost) =>
                  \A c : /\ c \in Ids(s) <=> c \in Ids(order) \/ c \in rows
                         /\ c \in Ids(s) =>
                              \/ CardOf(s, c).section = st[c].section
                              \/ /\ c \in Ids(order)
                                 /\ CardOf(s, c).section = CardOf(order, c).section
                                 /\ c \in kept \/ c \notin rows
<1> DEFINE s == Placed(order, st, sources, words, kept)
           rows == {c \in LiveIn(st, sources) : WordOf[c] \in words}
           H == HeldCards(rows, st)
           moved == {h \in H : ~ \E c \in Ids(order) :
                                  c = h.id /\ (c \in kept \/ CardOf(order, c) = h)}
           rest == RemoveCards(order, {h.id : h \in moved})
<1>1. s = IF Cardinality(words) > PlacedAtMost THEN OpenedOrder(st, sources)
          ELSE IF moved = {} THEN order ELSE PlaceByKey(rest, moved)
  BY Zenon DEF Placed
<1>2. CASE Cardinality(words) > PlacedAtMost
  <2>1. s = OpenedOrder(st, sources)
    BY <1>1, <1>2
  <2> HIDE DEF s
  <2> QED BY <1>2, <2>1, OpenedOrderIs DEF s
<1>3. CASE ~(Cardinality(words) > PlacedAtMost)
  <2>0. rows \in SUBSET Cards
    BY DEF LiveIn
  <2>1. /\ Apart(H)
        /\ \A h \in H : h.id \in rows /\ h.section = st[h.id].section
        /\ \A c \in rows : \E h \in H : h.id = c
    <3>1. \A c \in rows : st[c].section \in Sections
      BY <2>0 DEF InSections
    <3> HIDE DEF rows
    <3> QED BY <2>0, <3>1, HeldCardsAre
  <2>2. s = IF moved = {} THEN order ELSE PlaceByKey(rest, moved)
    BY <1>1, <1>3
  <2>3. \A h : h \in moved <=> /\ h \in H
                               /\ ~ (h.id \in Ids(order)
                                     /\ (h.id \in kept \/ CardOf(order, h.id) = h))
    OBVIOUS
  <2>4. Apart(moved)
    <3>1. moved \in SUBSET H
      OBVIOUS
    <3> HIDE DEF moved, H
    <3>2. IsFiniteSet(moved)
      BY <2>1, <3>1, FS_Subset DEF Apart
    <3> QED BY <2>1, <3>1, <3>2 DEF Apart
  <2>5. order \in Seq(HeldSet) /\ Once(order)
    BY DEF Sound
  <2>6. /\ Sound(rest)
        /\ \A h : h \in CardsIn(rest) <=> h \in CardsIn(order) /\ \A g \in moved : h.id # g.id
    <3> DEFINE gone == {h.id : h \in moved}
    <3>1. \A c : c \in gone <=> \E g \in moved : c = g.id
      OBVIOUS
    <3> HIDE DEF gone, moved
    <3>2. rest = RemoveCards(order, gone)
      BY DEF gone
    <3> HIDE DEF rest
    <3> QED BY <3>1, <3>2, RemoveCardsIs
  <2> HIDE DEF s, rows, moved, H, rest
  <2>7. rest \in Seq(HeldSet) /\ Once(rest)
    BY <2>6 DEF Sound
  <2>8. \A h \in moved : h.id \notin Ids(rest)
    BY <2>6, <2>7, CardsOfOrder
  <2>9. /\ Sound(s)
        /\ \A h : h \in CardsIn(s) <=>
                     h \in moved \/ (h \in CardsIn(order) /\ \A g \in moved : h.id # g.id)
    <3>1. CASE moved = {}
      BY <2>2, <3>1
    <3>2. CASE moved # {}
      <4>1. Sound(s) /\ CardsIn(s) = CardsIn(rest) \cup moved
        BY <2>2, <2>4, <2>6, <2>8, <3>2, PlaceByKeyIs
      <4> QED BY <2>6, <4>1
    <3> QED BY <3>1, <3>2
  <2>10. s \in Seq(HeldSet) /\ Once(s)
    BY <2>9 DEF Sound
  <2>11. /\ \A h \in CardsIn(s) : h.id \in Ids(s) /\ CardOf(s, h.id) = h
         /\ \A c \in Ids(s) : CardOf(s, c) \in CardsIn(s) /\ CardOf(s, c).id = c
         /\ \A h \in CardsIn(order) : h.id \in Ids(order) /\ CardOf(order, h.id) = h
         /\ \A c \in Ids(order) : CardOf(order, c) \in CardsIn(order) /\ CardOf(order, c).id = c
    BY <2>5, <2>10, CardsOfOrder
  <2>12. ASSUME NEW c
         PROVE  /\ c \in Ids(s) <=> c \in Ids(order) \/ c \in rows
                /\ c \in Ids(s) =>
                     \/ CardOf(s, c).section = st[c].section
                     \/ /\ c \in Ids(order)
                        /\ CardOf(s, c).section = CardOf(order, c).section
                        /\ c \in kept \/ c \notin rows
    <3>1. CASE \E h \in moved : h.id = c
      <4>1. PICK h \in moved : h.id = c
        BY <3>1
      <4>2. h \in CardsIn(s) /\ c \in rows /\ h.section = st[c].section
        BY <2>1, <2>3, <2>9, <4>1
      <4>3. c \in Ids(s) /\ CardOf(s, c) = h
        BY <2>11, <4>1, <4>2
      <4> QED BY <4>2, <4>3
    <3>2. CASE ~ \E h \in moved : h.id = c
      <4>1. \A h : h.id = c => (h \in CardsIn(s) <=> h \in CardsIn(order))
        BY <2>9, <3>2
      <4>2. c \in Ids(s) <=> c \in Ids(order)
        BY <2>11, <4>1
      <4>3. c \in Ids(s) => CardOf(s, c) = CardOf(order, c)
        BY <2>11, <4>1, <4>2
      <4>4. ASSUME c \in rows
            PROVE  c \in Ids(order) /\ (c \in kept \/ CardOf(order, c).section = st[c].section)
        <5>1. PICK h \in H : h.id = c
          BY <2>1, <4>4
        <5>2. h \notin moved
          BY <3>2, <5>1
        <5> QED BY <2>1, <2>3, <5>1, <5>2
      <4> QED BY <4>2, <4>3, <4>4
    <3> QED BY <3>1, <3>2
  <2> QED BY <1>3, <2>9, <2>12 DEF s, rows
<1> QED BY <1>2, <1>3

(* A replacing card stands where the one it replaces stood.                *)
LEMMA SucceededIs ==
  ASSUME NEW order, Sound(order), NEW st, InSections(st), NEW live \in SUBSET Cards,
         NEW old, NEW new, new \notin Ids(order)
  PROVE  LET s == Succeeded(order, st, live, old, new) IN
         /\ Sound(s)
         /\ \A c : c # new /\ c # old =>
               /\ c \in Ids(s) <=> c \in Ids(order)
               /\ c \in Ids(s) => CardOf(s, c) = CardOf(order, c)
         /\ old \in Ids(s) => old = new \/ old \in Ids(order)
         /\ new \in Ids(s) => new \in live /\ CardOf(s, new).section = st[new].section
<1> DEFINE s == Succeeded(order, st, live, old, new)
<1>1. CASE ~(new \in live \ Ids(order) /\ old \in Ids(order))
  <2>1. s = order
    BY <1>1, Zenon DEF Succeeded
  <2> QED BY <2>1
<1>2. CASE new \in live \ Ids(order) /\ old \in Ids(order)
  <2> DEFINE no == <<>>
             card == [id |-> new, section |-> st[new].section, key |-> no]
  <2>1. s = ReplaceCard(order, old, [id |-> new, section |-> st[new].section, key |-> <<>>])
    BY <1>2, Zenon DEF Succeeded
  <2> HIDE DEF s
  <2> DEFINE put == [id |-> new, section |-> st[new].section, key |-> CardOf(order, old).key]
  <2>2. /\ Sound(s)
        /\ \A h : h \in CardsIn(s) <=> h = put \/ (h \in CardsIn(order) /\ h.id # old)
    <3>1. new \in Cards /\ st[new].section \in Sections /\ new \notin Ids(order) /\ old \in Ids(order)
      BY <1>2 DEF InSections
    <3> QED BY <2>1, <3>1, ReplaceCardIs
  <2>3. put.id = new /\ put.section = st[new].section
    OBVIOUS
  <2> HIDE DEF put
  <2>4. s \in Seq(HeldSet) /\ Once(s) /\ order \in Seq(HeldSet) /\ Once(order)
    BY <2>2 DEF Sound
  <2>5. /\ \A h \in CardsIn(s) : h.id \in Ids(s) /\ CardOf(s, h.id) = h
        /\ \A c \in Ids(s) : CardOf(s, c) \in CardsIn(s) /\ CardOf(s, c).id = c
        /\ \A h \in CardsIn(order) : h.id \in Ids(order) /\ CardOf(order, h.id) = h
        /\ \A c \in Ids(order) : CardOf(order, c) \in CardsIn(order) /\ CardOf(order, c).id = c
    BY <2>4, CardsOfOrder
  <2>6. ASSUME NEW c, c # new, c # old
        PROVE  /\ c \in Ids(s) <=> c \in Ids(order)
               /\ c \in Ids(s) => CardOf(s, c) = CardOf(order, c)
    <3>1. \A h : h.id = c => (h \in CardsIn(s) <=> h \in CardsIn(order))
      BY <2>2, <2>3, <2>6
    <3> QED BY <2>5, <3>1
  <2>7. CardOf(s, new).section = st[new].section
    BY <2>2, <2>3, <2>5
  <2> QED BY <1>2, <2>2, <2>6, <2>7 DEF s
<1> QED BY <1>1, <1>2

-----------------------------------------------------------------------------
(* What a request that brings the order up to date leaves of it.           *)

(* The merged order is one, of cards held before and of live ones.         *)
LEMMA MergedIs ==
  ASSUME NEW r, Sound(r.order), NEW st, InSections(st), NEW sources, NEW since, NEW old, NEW new,
         new \notin Ids(r.order)
  PROVE  LET ch == ChangedSince(r, st, sources, since)
             s == Merged(r, st, sources, ch, old, new)
         IN  /\ Sound(s)
             /\ \A c \in Ids(s) : c \in Ids(r.order) \/ st[c].live
<1> DEFINE ch == ChangedSince(r, st, sources, since)
           s == Merged(r, st, sources, ch, old, new)
           one == Succeeded(r.order, st, ch.live, old, new)
           two == RemoveCards(one, ch.removed)
           words == {WordOf[c] : c \in ch.live}
           kept == {new} \ {0}
<1>1. ch.live \in SUBSET Cards /\ \A c \in ch.live : st[c].live
  BY DEF ChangedSince
<1>2. s = Placed(two, st, sources, words, kept)
  BY Zenon DEF Merged
<1> HIDE DEF ch, s, words, kept
<1>3. /\ Sound(one)
      /\ \A c : c # new /\ c # old => (c \in Ids(one) <=> c \in Ids(r.order))
      /\ old \in Ids(one) => old = new \/ old \in Ids(r.order)
      /\ new \in Ids(one) => new \in ch.live
  BY <1>1, SucceededIs
<1> HIDE DEF one
<1>4. Sound(two) /\ \A h : h \in CardsIn(two) <=> h \in CardsIn(one) /\ h.id \notin ch.removed
  BY <1>3, RemoveCardsIs
<1> HIDE DEF two
<1>5. \A c \in Ids(two) : c \in Ids(one)
  <2>1. /\ one \in Seq(HeldSet) /\ Once(one) /\ two \in Seq(HeldSet) /\ Once(two)
    BY <1>3, <1>4 DEF Sound
  <2>2. /\ \A h \in CardsIn(one) : h.id \in Ids(one)
        /\ \A c \in Ids(two) : CardOf(two, c) \in CardsIn(two) /\ CardOf(two, c).id = c
    BY <2>1, CardsOfOrder
  <2> QED BY <1>4, <2>2
<1>6. /\ Sound(s)
      /\ Cardinality(words) > PlacedAtMost => \A c \in Ids(s) : c \in LiveIn(st, sources)
      /\ ~(Cardinality(words) > PlacedAtMost) =>
            \A c \in Ids(s) : c \in Ids(two) \/ c \in LiveIn(st, sources)
  BY <1>2, <1>4, PlacedIs
<1>7. \A c \in LiveIn(st, sources) : st[c].live
  BY DEF LiveIn
<1>8. ASSUME NEW c \in Ids(s) PROVE c \in Ids(r.order) \/ st[c].live
  <2>1. c \in Ids(two) \/ c \in LiveIn(st, sources)
    BY <1>6
  <2>2. CASE c \in LiveIn(st, sources)
    BY <1>7, <2>2
  <2>3. CASE c \in Ids(two)
    <3>1. c \in Ids(one)
      BY <1>5, <2>3
    <3>2. c = new \/ c \in Ids(r.order)
      BY <1>3, <3>1
    <3> QED BY <1>1, <1>3, <3>1, <3>2
  <2> QED BY <2>1, <2>2, <2>3
<1> QED BY <1>6, <1>8 DEF s, ch

(* A card the order had right up to `since` is right after the merge,      *)
(* whatever it changed to; what was replaced changed after that.           *)
LEMMA MergedRight ==
  ASSUME NEW r, Sound(r.order), NEW st, InSections(st), NEW sources, NEW since \in Nat,
         NEW old, NEW new, new \notin Ids(r.order),
         NEW c \in Cards, st[c].rev \in Nat,
         c = old => st[c].rev > since,
         c \in Ids(r.order) => SourceOf[c] \in r.sources,
         st[c].rev <= since => Right(r.order, st, r.sources, c)
  PROVE  Right(Merged(r, st, sources, ChangedSince(r, st, sources, since), old, new),
               st, sources, c)
<1> DEFINE ch == ChangedSince(r, st, sources, since)
           s == Merged(r, st, sources, ch, old, new)
           one == Succeeded(r.order, st, ch.live, old, new)
           two == RemoveCards(one, ch.removed)
           words == {WordOf[d] : d \in ch.live}
           kept == {new} \ {0}
           rows == {d \in LiveIn(st, sources) : WordOf[d] \in words}
           order == r.order
<1>1. ch.live \in SUBSET Cards /\ \A d \in ch.live : st[d].live /\ SourceOf[d] \in sources
  BY DEF ChangedSince
<1>2. /\ c \in ch.removed <=> \/ SourceOf[c] \in sources /\ st[c].rev > since /\ ~st[c].live
                              \/ SourceOf[c] \in r.sources \ sources
      /\ c \in ch.live <=> /\ SourceOf[c] \in sources
                           /\ st[c].rev > since \/ SourceOf[c] \notin r.sources
                           /\ st[c].live
  BY DEF ChangedSince
<1>3. c \in ch.live => c \in rows
  BY <1>1 DEF LiveIn
<1>4. c \in rows => st[c].live /\ SourceOf[c] \in sources
  BY DEF LiveIn
<1>5. s = Placed(two, st, sources, words, kept)
  BY Zenon DEF Merged
<1> HIDE DEF ch, s
<1>6. /\ Sound(one)
      /\ \A d : d # new /\ d # old =>
               /\ d \in Ids(one) <=> d \in Ids(order)
               /\ d \in Ids(one) => CardOf(one, d) = CardOf(order, d)
      /\ old \in Ids(one) => old = new \/ old \in Ids(order)
      /\ new \in Ids(one) => new \in ch.live /\ CardOf(one, new).section = st[new].section
  BY <1>1, SucceededIs
<1> HIDE DEF one
<1>7. Sound(two) /\ \A h : h \in CardsIn(two) <=> h \in CardsIn(one) /\ h.id \notin ch.removed
  BY <1>6, RemoveCardsIs
<1> HIDE DEF two
<1>8. /\ c \in Ids(two) <=> c \in Ids(one) /\ c \notin ch.removed
      /\ c \in Ids(two) => CardOf(two, c) = CardOf(one, c)
  <2>1. /\ one \in Seq(HeldSet) /\ Once(one) /\ two \in Seq(HeldSet) /\ Once(two)
    BY <1>6, <1>7 DEF Sound
  <2>2. /\ \A h \in CardsIn(one) : h.id \in Ids(one) /\ CardOf(one, h.id) = h
        /\ \A d \in Ids(one) : CardOf(one, d) \in CardsIn(one) /\ CardOf(one, d).id = d
        /\ \A h \in CardsIn(two) : h.id \in Ids(two) /\ CardOf(two, h.id) = h
        /\ \A d \in Ids(two) : CardOf(two, d) \in CardsIn(two) /\ CardOf(two, d).id = d
    BY <2>1, CardsOfOrder
  <2> QED BY <1>7, <2>2
<1>9. /\ Cardinality(words) > PlacedAtMost =>
            /\ c \in Ids(s) <=> c \in LiveIn(st, sources)
            /\ c \in Ids(s) => CardOf(s, c).section = st[c].section
      /\ ~(Cardinality(words) > PlacedAtMost) =>
            /\ c \in Ids(s) <=> c \in Ids(two) \/ c \in rows
            /\ c \in Ids(s) => \/ CardOf(s, c).section = st[c].section
                               \/ /\ c \in Ids(two)
                                  /\ CardOf(s, c).section = CardOf(two, c).section
                                  /\ c \in kept \/ c \notin rows
  <2> HIDE DEF words, kept
  <2> QED BY <1>5, <1>7, PlacedIs
<1>10. CASE Cardinality(words) > PlacedAtMost
  BY <1>9, <1>10 DEF LiveIn, Right, s, ch
<1>11. CASE ~(Cardinality(words) > PlacedAtMost)
  <2>0. /\ c \in Ids(s) <=> c \in Ids(two) \/ c \in rows
        /\ c \in Ids(s) => \/ CardOf(s, c).section = st[c].section
                           \/ /\ c \in Ids(two)
                              /\ CardOf(s, c).section = CardOf(two, c).section
                              /\ c \in kept \/ c \notin rows
    BY <1>9, <1>11
  <2> HIDE DEF words, rows, kept
  <2>1. CASE c = new
    <3>1. c \in Ids(two) => c \in ch.live /\ CardOf(two, c).section = st[c].section
      BY <1>6, <1>8, <2>1
    <3>2. c \in Ids(s) => st[c].live /\ SourceOf[c] \in sources
                          /\ CardOf(s, c).section = st[c].section
      BY <1>1, <1>4, <2>0, <3>1
    <3>3. st[c].live /\ SourceOf[c] \in sources => c \in ch.live
      <4>1. c \notin Ids(order)
        BY <2>1
      <4>2. st[c].rev <= since => ~(st[c].live /\ SourceOf[c] \in r.sources)
        BY <4>1 DEF Right
      <4> QED BY <1>2, <4>2
    <3> QED BY <1>3, <2>0, <3>2, <3>3 DEF Right, s, ch
  <2>2. CASE c # new
    <3>0. c \notin kept
      BY <2>2 DEF kept
    <3>1. c # old => /\ c \in Ids(one) <=> c \in Ids(order)
                     /\ c \in Ids(one) => CardOf(one, c) = CardOf(order, c)
      BY <1>6, <2>2
    <3>2. c \in Ids(one) => c \in Ids(order)
      BY <1>6, <2>2
    <3>3. CASE SourceOf[c] \notin sources
      <4>1. c \notin Ids(two) /\ c \notin rows
        BY <1>2, <1>4, <1>8, <3>2, <3>3
      <4> QED BY <2>0, <3>3, <4>1 DEF Right, s, ch
    <3>4. CASE SourceOf[c] \in sources /\ st[c].rev > since
      <4>1. CASE st[c].live
        <5>1. c \in rows
          BY <1>2, <1>3, <3>4, <4>1
        <5> QED BY <2>0, <3>0, <3>4, <4>1, <5>1 DEF Right, s, ch
      <4>2. CASE ~st[c].live
        BY <1>2, <1>4, <1>8, <2>0, <3>4, <4>2 DEF Right, s, ch
      <4> QED BY <4>1, <4>2
    <3>5. CASE SourceOf[c] \in sources /\ ~(st[c].rev > since)
      <4>1. /\ c \in Ids(order) <=> st[c].live /\ SourceOf[c] \in r.sources
            /\ c \in Ids(order) => CardOf(order, c).section = st[c].section
        BY <3>5 DEF Right
      <4>2. c # old
        BY <3>5
      <4>3. c \in Ids(two) <=> c \in Ids(order)
        BY <1>2, <1>8, <3>1, <3>5, <4>2
      <4>4. c \in Ids(two) => CardOf(two, c).section = st[c].section
        BY <1>8, <3>1, <4>1, <4>2, <4>3
      <4>5. st[c].live => c \in Ids(two) \/ c \in rows
        BY <1>2, <1>3, <3>5, <4>1, <4>3
      <4>6. c \in Ids(two) \/ c \in rows => st[c].live
        BY <1>4, <4>1, <4>3
      <4> QED BY <2>0, <3>5, <4>4, <4>5, <4>6 DEF Right, s, ch
    <3> QED BY <3>3, <3>4, <3>5
  <2> QED BY <2>1, <2>2
<1> QED BY <1>10, <1>11

-----------------------------------------------------------------------------
(* The rows of a list.                                                     *)

CardRows(order) == [id : Ids(order), position : Nat]
SectionRows == [section : FoldedByDefault, count : Nat, open : BOOLEAN]

(* A row of a card.                                                        *)
LEMMA CardRowIs ==
  ASSUME NEW order, NEW c \in Ids(order), NEW n \in Nat
  PROVE  CardRow(c, n) \in CardRows(order)
BY DEF CardRow, CardRows

(* A row that opens a section.                                             *)
LEMMA SectionRowIs ==
  ASSUME NEW s \in FoldedByDefault, NEW n \in Nat, NEW open \in BOOLEAN
  PROVE  SectionRow(s, n, open) \in SectionRows
BY DEF SectionRow, SectionRows

(* The two kinds of rows are told apart.                                   *)
LEMMA RowKinds ==
  ASSUME NEW order
  PROVE  /\ \A row \in CardRows(order) : IsCard(row) /\ row.id \in Ids(order)
         /\ \A row \in SectionRows : ~IsCard(row) /\ row.section \in FoldedByDefault
BY DEF IsCard, CardRows, SectionRows

(* Four sets without a common member hold no more than what they are of.   *)
LEMMA FourParts ==
  ASSUME NEW D, IsFiniteSet(D), NEW A \in SUBSET D, NEW B \in SUBSET D, NEW C \in SUBSET D,
         NEW E \in SUBSET D,
         A \cap B = {}, (A \cup B) \cap C = {}, ((A \cup B) \cup C) \cap E = {}
  PROVE  /\ Cardinality(A) \in Nat /\ Cardinality(B) \in Nat /\ Cardinality(C) \in Nat
         /\ Cardinality(E) \in Nat /\ Cardinality(D) \in Nat
         /\ Cardinality(A) + Cardinality(B) + Cardinality(C) + Cardinality(E) <= Cardinality(D)
<1> DEFINE AB == A \cup B
           ABC == AB \cup C
           All == ABC \cup E
<1>1. IsFiniteSet(A) /\ IsFiniteSet(B) /\ IsFiniteSet(C) /\ IsFiniteSet(E)
  BY FS_Subset
<1>2. /\ Cardinality(A) \in Nat /\ Cardinality(B) \in Nat /\ Cardinality(C) \in Nat
      /\ Cardinality(E) \in Nat /\ Cardinality(D) \in Nat
  BY <1>1, FS_CardinalityType
<1>0. Cardinality({}) = 0
  BY FS_EmptySet
<1>3. IsFiniteSet(AB) /\ Cardinality(AB) = Cardinality(A) + Cardinality(B)
  <2>1. IsFiniteSet(AB)
        /\ Cardinality(AB) = Cardinality(A) + Cardinality(B) - Cardinality(A \cap B)
    BY <1>1, FS_Union
  <2> QED BY <1>0, <1>2, <2>1
<1>6. AB \cap C = {} /\ ABC \cap E = {} /\ All \in SUBSET D
  OBVIOUS
<1> HIDE DEF AB
<1>4. IsFiniteSet(ABC) /\ Cardinality(ABC) = Cardinality(AB) + Cardinality(C)
  <2>1. IsFiniteSet(ABC)
        /\ Cardinality(ABC) = Cardinality(AB) + Cardinality(C) - Cardinality(AB \cap C)
    BY <1>1, <1>3, FS_Union
  <2>2. Cardinality(AB \cap C) = 0
    BY <1>0, <1>6
  <2> QED BY <1>2, <1>3, <2>1, <2>2
<1> HIDE DEF ABC
<1>5. IsFiniteSet(All) /\ Cardinality(All) = Cardinality(ABC) + Cardinality(E)
  <2>1. IsFiniteSet(All)
        /\ Cardinality(All) = Cardinality(ABC) + Cardinality(E) - Cardinality(ABC \cap E)
    BY <1>1, <1>4, FS_Union
  <2>2. Cardinality(ABC \cap E) = 0
    BY <1>0, <1>6
  <2> QED BY <1>2, <1>3, <1>4, <2>1, <2>2
<1> HIDE DEF All
<1>7. Cardinality(All) <= Cardinality(D)
  BY <1>6, FS_Subset
<1> QED BY <1>2, <1>3, <1>4, <1>5, <1>7

(* A section's cards are cards of the order.                               *)
LEMMA InSectionIs ==
  ASSUME NEW order, Sound(order), NEW s
  PROVE  LET run == InSection(order, s) IN
         /\ Sound(run)
         /\ Len(run) = Cardinality({i \in DOMAIN order : order[i].section = s})
         /\ \A i \in DOMAIN run : run[i] \in HeldSet /\ run[i].id \in Ids(order)
         /\ DOMAIN run = 1 .. Len(run) /\ Len(run) \in Nat
<1> DEFINE P == {i \in DOMAIN order : order[i].section = s}
           run == InSection(order, s)
<1>1. P \in SUBSET DOMAIN order /\ run = Picked(order, P)
  BY DEF InSection
<1> HIDE DEF run
<1>2. Sound(run) /\ CardsIn(run) = {order[i] : i \in P} /\ Len(run) = Cardinality(P)
  BY <1>1, PickedOrder
<1>3. run \in Seq(HeldSet)
  BY <1>2 DEF Sound
<1>4. \A i \in DOMAIN run : run[i].id \in Ids(order)
  <2> TAKE i \in DOMAIN run
  <2>1. run[i] \in {order[j] : j \in P}
    BY <1>2 DEF CardsIn
  <2> QED BY <1>1, <2>1 DEF Ids
<1>5. /\ \A i \in DOMAIN run : run[i] \in HeldSet
      /\ DOMAIN run = 1 .. Len(run) /\ Len(run) \in Nat
  BY <1>3
<1>6. Len(run) = Cardinality({i \in DOMAIN order : order[i].section = s})
  BY <1>2
<1> HIDE DEF P
<1>7. /\ Sound(run)
      /\ \A i \in DOMAIN run : run[i] \in HeldSet /\ run[i].id \in Ids(order)
  BY <1>2, <1>4, <1>5
<1> QED BY <1>5, <1>6, <1>7, Zenon DEF run

(* Two sequences put together.                                             *)
LEMMA Appended ==
  ASSUME NEW S, NEW s \in Seq(S), NEW t \in Seq(S)
  PROVE  s \o t \in Seq(S) /\ Len(s \o t) = Len(s) + Len(t)
OBVIOUS

(* A list of an order's cards: no row but of them and of folding sections, *)
(* no more than the cards and a row for each folding section.              *)
RowsFor(rows, order) ==
    /\ DOMAIN rows = 1 .. Len(rows)
    /\ Len(rows) \in Nat /\ Len(rows) <= Len(order) + 3
    /\ \A i \in DOMAIN rows : IF IsCard(rows[i]) THEN rows[i].id \in Ids(order)
                              ELSE rows[i].section \in FoldedByDefault

(* The rows with their numbers: cards of the order and heads of sections.  *)
LEMMA NumberedRows ==
  ASSUME NEW order, NEW rows, rows \in Seq(CardRows(order) \cup SectionRows),
         Len(order) \in Nat, Len(rows) <= Len(order) + 3
  PROVE  RowsFor(Numbered(rows), order)
<1> DEFINE place == [i \in DOMAIN rows |-> Cardinality({j \in 1..i : IsCard(rows[j])})]
           t == Numbered(rows)
<1>1. DOMAIN rows = 1 .. Len(rows) /\ Len(rows) \in Nat
      /\ \A i \in DOMAIN rows : rows[i] \in CardRows(order) \cup SectionRows
  OBVIOUS
<1>2. t = [i \in DOMAIN rows |-> IF IsCard(rows[i]) THEN CardRow(rows[i].id, place[i]) ELSE rows[i]]
  BY Zenon DEF Numbered
<1> HIDE DEF place, t
<1>3. DOMAIN t = 1 .. Len(rows)
  BY <1>1, <1>2
<1>4. Len(t) = Len(rows)
  BY <1>1, <1>2, <1>3
<1>5. \A i \in DOMAIN t : IF IsCard(t[i]) THEN t[i].id \in Ids(order)
                          ELSE t[i].section \in FoldedByDefault
  <2> TAKE i \in DOMAIN t
  <2>1. i \in DOMAIN rows /\ rows[i] \in CardRows(order) \cup SectionRows
    BY <1>1, <1>3
  <2>2. CASE rows[i] \in CardRows(order)
    <3>1. IsCard(rows[i]) /\ rows[i].id \in Ids(order)
      BY <2>2, RowKinds
    <3>2. t[i] = CardRow(rows[i].id, place[i])
      BY <1>2, <2>1, <3>1
    <3> QED BY <3>1, <3>2 DEF CardRow, IsCard
  <2>3. CASE rows[i] \in SectionRows
    <3>1. ~IsCard(rows[i]) /\ rows[i].section \in FoldedByDefault
      BY <2>3, RowKinds
    <3>2. t[i] = rows[i]
      BY <1>2, <2>1, <3>1
    <3> QED BY <3>1, <3>2
  <2> QED BY <2>1, <2>2, <2>3
<1> QED BY <1>1, <1>3, <1>4, <1>5 DEF RowsFor, t

(* The rows of a list show cards of the order and heads of sections that   *)
(* fold, no more than there are cards and sections.                        *)
LEMMA LayoutIs ==
  ASSUME NEW order, Sound(order), NEW shown
  PROVE  RowsFor(LayoutOf(order, shown), order)
<1> DEFINE RS == CardRows(order) \cup SectionRows
           Rows(cards) == [i \in DOMAIN cards |-> CardRow(cards[i].id, 0)]
           Block(s) == LET run == InSection(order, s) IN
               IF run = <<>> THEN <<>>
               ELSE <<SectionRow(s, Len(run), s \in shown)>>
                    \o (IF s \in shown THEN Rows(run) ELSE <<>>)
           list == IF ~Sectioned THEN Rows(order)
                   ELSE Rows(InSection(order, "ready"))
                        \o Block("extra") \o Block("probably_known") \o Block("reviewed")
<1>0. LayoutOf(order, shown) = Numbered(list)
  BY Zenon DEF LayoutOf
<1>1. order \in Seq(HeldSet) /\ Len(order) \in Nat /\ DOMAIN order = 1 .. Len(order)
  <2>1. order \in Seq(HeldSet)
    BY DEF Sound
  <2> QED BY <2>1
<1>2. ASSUME NEW run, run \in Seq(HeldSet), \A i \in DOMAIN run : run[i].id \in Ids(order)
      PROVE  Rows(run) \in Seq(RS) /\ Len(Rows(run)) = Len(run)
  <2>1. DOMAIN run = 1 .. Len(run) /\ Len(run) \in Nat
    BY <1>2
  <2>2. \A i \in 1 .. Len(run) : CardRow(run[i].id, 0) \in RS
    BY <1>2, <2>1, CardRowIs
  <2>3. Rows(run) = [i \in 1 .. Len(run) |-> CardRow(run[i].id, 0)]
    BY <2>1
  <2> HIDE DEF RS
  <2> QED BY <2>1, <2>2, <2>3
<1>3. ASSUME NEW s \in FoldedByDefault
      PROVE  Block(s) \in Seq(RS) /\ Len(Block(s)) <= Len(InSection(order, s)) + 1
  <2> DEFINE run == InSection(order, s)
             open == s \in shown
  <2>1. run \in Seq(HeldSet) /\ Len(run) \in Nat /\ \A i \in DOMAIN run : run[i].id \in Ids(order)
    BY InSectionIs DEF Sound
  <2>2. open \in BOOLEAN
    OBVIOUS
  <2> HIDE DEF run
  <2>3. Rows(run) \in Seq(RS) /\ Len(Rows(run)) = Len(run)
    BY <1>2, <2>1
  <2> DEFINE row == SectionRow(s, Len(run), open)
             under == IF open THEN Rows(run) ELSE <<>>
  <2>4. row \in RS
    <3> HIDE DEF open
    <3> QED BY <2>1, <2>2, SectionRowIs
  <2> HIDE DEF RS, Rows
  <2>5. under \in Seq(RS) /\ Len(under) <= Len(run) /\ Len(under) \in Nat
    BY <2>1, <2>3
  <2>6. Block(s) = IF run = <<>> THEN <<>> ELSE <<row>> \o under
    BY Zenon DEF run
  <2> HIDE DEF row, under, Block
  <2>7. CASE run = <<>>
    <3>1. Block(s) = <<>>
      BY <2>6, <2>7
    <3>2. Len(Block(s)) = 0 /\ Block(s) \in Seq(RS)
      BY <3>1
    <3> QED BY <2>1, <3>2 DEF run
  <2>8. CASE run # <<>>
    <3>1. Block(s) = <<row>> \o under
      BY <2>6, <2>8
    <3>2. <<row>> \in Seq(RS) /\ Len(<<row>>) = 1
      BY <2>4
    <3>3. Block(s) \in Seq(RS) /\ Len(Block(s)) = 1 + Len(under)
      BY <2>5, <3>1, <3>2
    <3> QED BY <2>1, <2>5, <3>3 DEF run
  <2> QED BY <2>7, <2>8
<1>4. /\ "ready" \in Sections /\ "extra" \in FoldedByDefault /\ "probably_known" \in FoldedByDefault
      /\ "reviewed" \in FoldedByDefault
  BY DEF FoldedByDefault, Sections, SectionOrder
<1>5. list \in Seq(RS) /\ Len(list) <= Len(order) + 3
  <2>1. CASE ~Sectioned
    <3>1. \A i \in DOMAIN order : order[i].id \in Ids(order)
      BY DEF Ids
    <3>2. list = Rows(order)
      BY <2>1
    <3> HIDE DEF list, Rows, RS
    <3> QED BY <1>1, <1>2, <3>1, <3>2
  <2>2. CASE Sectioned
    <3> DEFINE first == Rows(InSection(order, "ready"))
               b1 == Block("extra")
               b2 == Block("probably_known")
               b3 == Block("reviewed")
               n0 == Len(InSection(order, "ready"))
               n1 == Len(InSection(order, "extra"))
               n2 == Len(InSection(order, "probably_known"))
               n3 == Len(InSection(order, "reviewed"))
    <3>1. list = first \o b1 \o b2 \o b3
      BY <2>2
    <3>2. first \in Seq(RS) /\ Len(first) = n0
      BY <1>2, InSectionIs DEF Sound
    <3>3. /\ b1 \in Seq(RS) /\ Len(b1) <= n1 + 1
          /\ b2 \in Seq(RS) /\ Len(b2) <= n2 + 1
          /\ b3 \in Seq(RS) /\ Len(b3) <= n3 + 1
      <4> HIDE DEF Block, RS
      <4> QED BY <1>3, <1>4
    <3>4. n0 \in Nat /\ n1 \in Nat /\ n2 \in Nat /\ n3 \in Nat /\ n0 + n1 + n2 + n3 <= Len(order)
      <4> DEFINE N == Len(order)
                 P(s) == {i \in DOMAIN order : order[i].section = s}
                 D == 1 .. N
      <4>1. IsFiniteSet(D) /\ Cardinality(D) = N
        <5>1. N \in Nat
          BY <1>1
        <5> HIDE DEF N
        <5>2. 1 \in Int /\ N \in Int
          BY <5>1
        <5> QED BY <5>1, <5>2, FS_Interval
      <4>2. /\ n0 = Cardinality(P("ready")) /\ n1 = Cardinality(P("extra"))
            /\ n2 = Cardinality(P("probably_known")) /\ n3 = Cardinality(P("reviewed"))
        BY InSectionIs
      <4> DEFINE A == P("ready")
                 B == P("extra")
                 C == P("probably_known")
                 E == P("reviewed")
      <4>3. /\ A \in SUBSET D /\ B \in SUBSET D /\ C \in SUBSET D /\ E \in SUBSET D
            /\ A \cap B = {} /\ (A \cup B) \cap C = {} /\ ((A \cup B) \cup C) \cap E = {}
        BY <1>1
      <4> HIDE DEF D, n0, n1, n2, n3
      <4>4. /\ n0 = Cardinality(A) /\ n1 = Cardinality(B) /\ n2 = Cardinality(C)
            /\ n3 = Cardinality(E)
        BY <4>2
      <4> HIDE DEF A, B, C, E
      <4> QED BY <4>1, <4>3, <4>4, FourParts
    <3> HIDE DEF list, first, b1, b2, b3, n0, n1, n2, n3, RS
    <3>5. first \o b1 \in Seq(RS) /\ Len(first \o b1) = Len(first) + Len(b1)
      BY <3>2, <3>3, Appended
    <3>6. (first \o b1) \o b2 \in Seq(RS) /\ Len((first \o b1) \o b2) = Len(first \o b1) + Len(b2)
      BY <3>3, <3>5, Appended
    <3>7. /\ ((first \o b1) \o b2) \o b3 \in Seq(RS)
          /\ Len(((first \o b1) \o b2) \o b3) = Len((first \o b1) \o b2) + Len(b3)
      BY <3>3, <3>6, Appended
    <3>8. Len(first) \in Nat /\ Len(b1) \in Nat /\ Len(b2) \in Nat /\ Len(b3) \in Nat
      BY <3>2, <3>3
    <3> QED BY <1>1, <3>1, <3>2, <3>3, <3>4, <3>5, <3>6, <3>7, <3>8
  <2> QED BY <2>1, <2>2
<1> HIDE DEF list
<1>6. RowsFor(Numbered(list), order)
  BY <1>1, <1>5, NumberedRows
<1> QED BY <1>0, <1>6

-----------------------------------------------------------------------------
(* Where the focus goes.                                                   *)

(* The least and the greatest of some places are among them.               *)
LEMMA EndsAreIn ==
  ASSUME NEW S \in SUBSET Nat, IsFiniteSet(S), S # {}
  PROVE  Min(S) \in S /\ Max(S) \in S
<1>1. PICK m \in S : \A k \in S : m <= k
  BY MinExists
<1>2. PICK n \in S : \A k \in S : k <= n
  BY MaxExists
<1>3. \E x \in S : \A y \in S : x =< y
  BY <1>1
<1>4. \E x \in S : \A y \in S : x >= y
  BY <1>2
<1>5. Min(S) \in S
  BY <1>3 DEF Min
<1>6. Max(S) \in S
  BY <1>4 DEF Max
<1> QED BY <1>5, <1>6

(* Places in a sequence are finitely many.                                 *)
LEMMA PlacesAre ==
  ASSUME NEW rows, DOMAIN rows = 1 .. Len(rows), Len(rows) \in Nat,
         NEW places \in SUBSET DOMAIN rows
  PROVE  places \in SUBSET Nat /\ IsFiniteSet(places)
<1> DEFINE N == Len(rows)
<1>1. N \in Nat /\ DOMAIN rows = 1 .. N
  OBVIOUS
<1> HIDE DEF N
<1>2. 1 \in Int /\ N \in Int /\ 1 .. N \in SUBSET Nat
  BY <1>1
<1>3. IsFiniteSet(1 .. N)
  BY <1>2, FS_Interval
<1> QED BY <1>1, <1>2, <1>3, FS_Subset

(* The first place of some is one of them.                                 *)
LEMMA FirstOfIs ==
  ASSUME NEW run, DOMAIN run = 1 .. Len(run), Len(run) \in Nat,
         NEW places \in SUBSET DOMAIN run
  PROVE  FirstOf(run, places) = 0 \/ \E i \in places : FirstOf(run, places) = run[i].id
<1>1. places \in SUBSET Nat /\ IsFiniteSet(places)
  BY PlacesAre
<1>2. CASE places = {}
  BY <1>2 DEF FirstOf
<1>3. CASE places # {}
  BY <1>1, <1>3, EndsAreIn DEF FirstOf
<1> QED BY <1>2, <1>3

(* A review opens on one of its cards, if it has any.                      *)
LEMMA InitialFocusIs ==
  ASSUME NEW order, Sound(order), NEW done, NEW requested
  PROVE  InitialFocus(order, done, requested) \in Ids(order) \cup {0}
<1> DEFINE pending == {i \in DOMAIN order : order[i].id \notin done}
           places == IF pending # {} THEN pending ELSE DOMAIN order
<1>1. order \in Seq(HeldSet)
  BY DEF Sound
<1>2. DOMAIN order = 1 .. Len(order) /\ Len(order) \in Nat
  BY <1>1
<1>3. InitialFocus(order, done, requested) =
         IF requested \in Ids(order) THEN requested ELSE FirstOf(order, places)
  BY Zenon DEF InitialFocus
<1>4. places \in SUBSET DOMAIN order
  OBVIOUS
<1> HIDE DEF places
<1>5. FirstOf(order, places) = 0 \/ \E i \in places : FirstOf(order, places) = order[i].id
  BY <1>2, <1>4, FirstOfIs
<1>6. FirstOf(order, places) \in Ids(order) \cup {0}
  BY <1>4, <1>5 DEF Ids
<1> QED BY <1>3, <1>6

(* A press moves to a card of the order that is not done.                  *)
LEMMA FocusAfterPressIs ==
  ASSUME NEW order, Sound(order), NEW pressed, NEW wasDone, NEW done
  PROVE  LET f == FocusAfterPress(order, pressed, wasDone, done) IN
         f = 0 \/ (f \in Ids(order) /\ f \notin done)
<1> DEFINE run == IF Sectioned THEN InSection(order, CardOf(order, pressed).section) ELSE order
           pending == {i \in DOMAIN run : run[i].id # pressed /\ run[i].id \notin done}
           after == {i \in pending : i > IndexOf(run, pressed)}
           places == IF after # {} THEN after ELSE pending
           f == FocusAfterPress(order, pressed, wasDone, done)
<1>1. f = 0 \/ f = FirstOf(run, places)
  BY Zenon DEF FocusAfterPress
<1>2. /\ DOMAIN run = 1 .. Len(run) /\ Len(run) \in Nat
      /\ \A i \in DOMAIN run : run[i].id \in Ids(order)
  <2>1. CASE Sectioned
    <3> DEFINE s == CardOf(order, pressed).section
    <3>1. run = InSection(order, s)
      BY <2>1
    <3> HIDE DEF run, s
    <3> QED BY <3>1, InSectionIs
  <2>2. CASE ~Sectioned
    <3>1. run = order
      BY <2>2
    <3> HIDE DEF run
    <3>2. order \in Seq(HeldSet)
      BY DEF Sound
    <3>3. DOMAIN order = 1 .. Len(order) /\ Len(order) \in Nat
      BY <3>2
    <3> QED BY <3>1, <3>3 DEF Ids
  <2> QED BY <2>1, <2>2
<1> HIDE DEF run, f
<1>3. places \in SUBSET DOMAIN run /\ \A i \in places : run[i].id \notin done
  OBVIOUS
<1> HIDE DEF places
<1>4. FirstOf(run, places) = 0 \/ \E i \in places : FirstOf(run, places) = run[i].id
  BY <1>2, <1>3, FirstOfIs
<1>5. f = 0 \/ (f \in Ids(order) /\ f \notin done)
  BY <1>1, <1>2, <1>3, <1>4
<1> QED BY <1>5 DEF f

(* What takes over from a card that is gone is a card row of the list as   *)
(* it stood that is not gone too.                                          *)
LEMMA FocusAfterRemovalIs ==
  ASSUME NEW order, NEW rows, RowsFor(rows, order), NEW current, NEW removed
  PROVE  LET f == FocusAfterRemoval(rows, current, removed) IN
         f = 0 \/ (f \in Ids(order) /\ f \notin removed)
<1> DEFINE places == {i \in DOMAIN rows : IsCard(rows[i]) /\ rows[i].id \notin removed}
           under == {i \in places : i > RowOf(rows, current)}
           above == {i \in places : i < RowOf(rows, current)}
           f == FocusAfterRemoval(rows, current, removed)
<1>1. f = 0 \/ f = (IF under # {} THEN rows[Min(under)].id
                    ELSE IF above # {} THEN rows[Max(above)].id ELSE 0)
  BY Zenon DEF FocusAfterRemoval, NextTo
<1>2. under \in SUBSET DOMAIN rows /\ above \in SUBSET DOMAIN rows
      /\ under \subseteq places /\ above \subseteq places
  OBVIOUS
<1>3. \A i \in places : rows[i].id \in Ids(order) /\ rows[i].id \notin removed
  BY DEF RowsFor
<1> HIDE DEF under, above, places, f
<1>4. /\ under \in SUBSET Nat /\ IsFiniteSet(under)
      /\ above \in SUBSET Nat /\ IsFiniteSet(above)
  BY <1>2, PlacesAre DEF RowsFor
<1>5. under # {} => Min(under) \in under
  BY <1>4, EndsAreIn
<1>6. above # {} => Max(above) \in above
  BY <1>4, EndsAreIn
<1>7. f = 0 \/ (f \in Ids(order) /\ f \notin removed)
  BY <1>1, <1>2, <1>3, <1>5, <1>6
<1> QED BY <1>7 DEF f

-----------------------------------------------------------------------------
(* What an answer may hold.                                                *)

(* Rows as a client may be sent them.                                      *)
RowsTyped(rows) ==
    /\ DOMAIN rows \subseteq 1 .. (Cardinality(Cards) + 4)
    /\ \A i \in DOMAIN rows : IF IsCardRow(rows[i]) THEN rows[i].id \in Cards
                              ELSE rows[i].section \in FoldedByDefault

(* The cards whose rows an answer brings.                                  *)
RowCards(u) ==
    IF u.layout = <<>> THEN {}
    ELSE {u.layout[1].rows[i].id : i \in {j \in DOMAIN u.layout[1].rows :
                                              IsCardRow(u.layout[1].rows[j])}}

(* What a request leaves of the order and the sources, where the focus     *)
(* goes, and that what is sent and counted as served are cards there are,  *)
(* the rows those of the order.                                            *)
OutcomeOf(out, order, sources, focus) ==
    /\ out.review.order = order /\ out.review.sources = sources
    /\ out.review.served \subseteq Cards
    /\ out.answer.focus = focus
    /\ DOMAIN out.answer.cards \subseteq Cards
    /\ out.answer.layout # <<>> => RowsTyped(out.answer.layout[1].rows)
    /\ RowCards(out.answer) \subseteq Ids(order)

(* An answer leaves the order, sends cards there are and the focus it is   *)
(* given.                                                                  *)
LEMMA AnswerHolds ==
  ASSUME NEW r, IsReview(r), Sound(r.order), r.served \subseteq Cards,
         NEW st, NEW window, window \ NoWindow \subseteq DOMAIN RowsOf(r),
         NEW replace, NEW focus, NEW changed, NEW removed
  PROVE  OutcomeOf(Answered(r, st, window, replace, focus, changed, removed),
                   r.order, r.sources, focus)
<1> DEFINE out == Answered(r, st, window, replace, focus, changed, removed)
           rows == RowsOf(r)
           sending == Sending(r, window, replace)
           sent == Sent(r, window, replace, changed)
           l == ListSent(r, window, replace)
<1>1. AnswerOf(out, r, st, window, replace, focus, changed, removed)
  BY AnswerIs, Zenon
<1> HIDE DEF out
<1>2. /\ out.review.sources = r.sources /\ out.review.order = r.order
      /\ out.review.served = Served(r, replace) \cup sent
      /\ out.answer.focus = focus
      /\ out.answer.layout = IF ~replace /\ window = NoWindow THEN <<>> ELSE <<l>>
      /\ out.answer.cards = CardsSent(sent, st)
  BY <1>1 DEF AnswerOf
<1>3. RowsFor(rows, r.order)
  <2>1. rows = LayoutOf(r.order, Unfolded(r.order, r.opened, r.current))
    BY Zenon DEF RowsOf, Layout
  <2> HIDE DEF rows
  <2> QED BY <2>1, LayoutIs
<1>4. r.order \in Seq(HeldSet) /\ Once(r.order)
  BY DEF Sound
<1>5. Ids(r.order) \subseteq Cards /\ Len(r.order) \in Nat /\ Len(r.order) <= Cardinality(Cards)
  <2>1. Ids(r.order) \subseteq Cards
    BY <1>4, CardsOfOrder
  <2>2. Cardinality(Ids(r.order)) = Len(r.order) /\ IsFiniteSet(Ids(r.order))
    BY <1>4, OrderLength
  <2>3. Cardinality(Ids(r.order)) <= Cardinality(Cards) /\ Len(r.order) \in Nat
    BY <1>4, <2>1, FS_Subset, CardsAssumption
  <2> QED BY <2>1, <2>2, <2>3
<1>6. Cardinality(Cards) \in Nat
  BY CardsAssumption, FS_CardinalityType
<1> HIDE DEF rows
<1>7. sending \subseteq DOMAIN rows
  <2>1. WindowAround(rows, r.current) \subseteq DOMAIN rows
    BY DEF WindowAround, RowsFrom
  <2> QED BY <2>1 DEF Sending, rows
<1>8. sent \subseteq Cards
  <2>1. sent = {rows[i].id : i \in {j \in sending : IsCard(rows[j])}}
               \cup (changed \cap Served(r, replace))
    BY Zenon DEF Sent, rows
  <2>2. \A i \in sending : IsCard(rows[i]) => rows[i].id \in Cards
    BY <1>3, <1>5, <1>7 DEF RowsFor
  <2>3. Served(r, replace) \subseteq Cards
    BY DEF Served
  <2> HIDE DEF sending, sent
  <2> QED BY <2>1, <2>2, <2>3
<1>9. out.review.served \subseteq Cards
  <2>1. Served(r, replace) \subseteq Cards
    BY DEF Served
  <2> QED BY <1>2, <1>8, <2>1
<1>10. DOMAIN out.answer.cards \subseteq Cards
  <2> HIDE DEF sent
  <2> QED BY <1>2, <1>8 DEF CardsSent
<1>11. RowsTyped(l.rows)
  <2>1. l.rows = [i \in sending |-> rows[i]]
    BY DEF ListSent, rows
  <2> HIDE DEF l, sending
  <2>2. DOMAIN l.rows = sending /\ \A i \in sending : l.rows[i] = rows[i]
    BY <2>1
  <2>3. \A i \in DOMAIN rows : i \in 1 .. (Cardinality(Cards) + 4)
    BY <1>3, <1>5, <1>6 DEF RowsFor
  <2>4. \A i \in DOMAIN l.rows : IF IsCardRow(l.rows[i]) THEN l.rows[i].id \in Cards
                                 ELSE l.rows[i].section \in FoldedByDefault
    BY <1>3, <1>5, <1>7, <2>2 DEF RowsFor, IsCard, IsCardRow
  <2> QED BY <1>7, <2>2, <2>3, <2>4 DEF RowsTyped
<1>12. out.answer.layout # <<>> => RowsTyped(out.answer.layout[1].rows)
  <2> HIDE DEF l
  <2>1. out.answer.layout # <<>> => out.answer.layout[1] = l
    BY <1>2
  <2> QED BY <1>11, <2>1
<1>13. RowCards(out.answer) \subseteq Ids(r.order)
  <2>1. CASE out.answer.layout = <<>>
    BY <2>1 DEF RowCards
  <2>2. CASE out.answer.layout # <<>>
    <3>1. l.rows = [i \in sending |-> rows[i]]
      BY DEF ListSent, rows
    <3> HIDE DEF l, sending
    <3>2. DOMAIN l.rows = sending /\ \A i \in sending : l.rows[i] = rows[i]
      BY <3>1
    <3>3. out.answer.layout[1] = l
      BY <1>2, <2>2
    <3>4. RowCards(out.answer) = {l.rows[i].id : i \in {j \in DOMAIN l.rows : IsCardRow(l.rows[j])}}
      BY <2>2, <3>3 DEF RowCards
    <3>5. \A i \in DOMAIN l.rows : IsCardRow(l.rows[i]) => l.rows[i].id \in Ids(r.order)
      BY <1>3, <1>7, <3>2 DEF RowsFor, IsCard, IsCardRow
    <3> QED BY <3>4, <3>5
  <2> QED BY <2>1, <2>2
<1> QED BY <1>2, <1>9, <1>10, <1>12, <1>13 DEF OutcomeOf, out

(* The rows of a review's list.                                            *)
LEMMA RowsOfReview ==
  ASSUME NEW r, Sound(r.order)
  PROVE  RowsFor(RowsOf(r), r.order)
<1> DEFINE rows == RowsOf(r)
<1>1. rows = LayoutOf(r.order, Unfolded(r.order, r.opened, r.current))
  BY Zenon DEF RowsOf, Layout
<1> HIDE DEF rows
<1>2. RowsFor(rows, r.order)
  BY <1>1, LayoutIs
<1> QED BY <1>2 DEF rows

(* A read leaves the order as it is.                                       *)
LEMMA ReadsHold ==
  ASSUME NEW r, IsReview(r), Sound(r.order), r.served \subseteq Cards, NEW st
  PROVE  /\ \A ctx, start, count :
               OutcomeOf(ReadRows(r, st, ctx, start, count), r.order, r.sources, 0)
         /\ \A id : OutcomeOf(ReadAround(r, st, id), r.order, r.sources, id)
         /\ \A ctx, section, open :
               OutcomeOf(SetSection(r, st, ctx, section, open), r.order, r.sources, 0)
<1>0. ASSUME NEW now, IsReview(now), now.order = r.order, now.served = r.served,
             now.sources = r.sources,
             NEW window, window \subseteq DOMAIN RowsOf(now), NEW replace, NEW focus
      PROVE  OutcomeOf(Answered(now, st, window, replace, focus, {}, {}), r.order, r.sources, focus)
  <2>1. /\ Sound(now.order) /\ now.served \subseteq Cards
        /\ window \ NoWindow \subseteq DOMAIN RowsOf(now)
    BY <1>0
  <2>2. OutcomeOf(Answered(now, st, window, replace, focus, {}, {}), now.order, now.sources, focus)
    BY <1>0, <2>1, AnswerHolds, Zenon
  <2> QED BY <1>0, <2>2
<1>1. ASSUME NEW ctx, NEW start, NEW count
      PROVE  OutcomeOf(ReadRows(r, st, ctx, start, count), r.order, r.sources, 0)
  <2> DEFINE now == At(r, ctx.current)
             window == RowsFrom(RowsOf(now), start, Min({count, RowsAtMost}))
             replace == now.version # r.version
             out == Answered(now, st, window, replace, 0, {}, {})
  <2>1. IsReview(now) /\ now.order = r.order /\ now.served = r.served /\ now.sources = r.sources
    BY AtIs
  <2> HIDE DEF now
  <2>2. window \subseteq DOMAIN RowsOf(now)
    BY DEF RowsFrom
  <2> HIDE DEF window, replace
  <2>3. OutcomeOf(out, r.order, r.sources, 0)
    BY <1>0, <2>1, <2>2, Zenon
  <2> HIDE DEF out
  <2>4. ReadRows(r, st, ctx, start, count) = out
    BY Zenon DEF ReadRows, out, window, replace, now
  <2> QED BY <2>3, <2>4
<1>2. ASSUME NEW id PROVE OutcomeOf(ReadAround(r, st, id), r.order, r.sources, id)
  <2> DEFINE now == At(r, id)
             window == WindowAround(RowsOf(now), id)
             replace == now.version # r.version
             out == Answered(now, st, window, replace, id, {}, {})
  <2>1. IsReview(now) /\ now.order = r.order /\ now.served = r.served /\ now.sources = r.sources
    BY AtIs
  <2> HIDE DEF now
  <2>2. window \subseteq DOMAIN RowsOf(now)
    BY DEF WindowAround, RowsFrom
  <2> HIDE DEF window, replace
  <2>3. OutcomeOf(out, r.order, r.sources, id)
    BY <1>0, <2>1, <2>2, Zenon
  <2> HIDE DEF out
  <2>4. ReadAround(r, st, id) = out
    BY Zenon DEF ReadAround, out, window, replace, now
  <2> QED BY <2>3, <2>4
<1>3. ASSUME NEW ctx, NEW section, NEW open
      PROVE  OutcomeOf(SetSection(r, st, ctx, section, open), r.order, r.sources, 0)
  <2> DEFINE opened == IF open THEN r.opened \cup {section} ELSE r.opened \ {section}
             q == [r EXCEPT !.opened = opened]
             now == At(q, ctx.current)
             none == {}
             replace == now.version # r.version
             out == Answered(now, st, none, replace, 0, {}, {})
  <2>0. IsReview(q) /\ q.order = r.order /\ q.served = r.served /\ q.sources = r.sources
    <3>1. q = [sources |-> r.sources, order |-> r.order, opened |-> opened,
               served |-> r.served, current |-> r.current, version |-> r.version,
               shown |-> r.shown]
      <4> HIDE DEF opened
      <4> QED BY DEF IsReview
    <3> HIDE DEF q
    <3>2. /\ q.sources = r.sources /\ q.order = r.order /\ q.opened = opened
          /\ q.served = r.served /\ q.current = r.current /\ q.version = r.version
          /\ q.shown = r.shown
      BY <3>1
    <3> QED BY <3>1, <3>2 DEF IsReview
  <2> HIDE DEF q
  <2>1. IsReview(now) /\ now.order = r.order /\ now.served = r.served /\ now.sources = r.sources
    BY <2>0, AtIs
  <2> HIDE DEF now
  <2>2. none \subseteq DOMAIN RowsOf(now)
    OBVIOUS
  <2> HIDE DEF replace
  <2>3. OutcomeOf(out, r.order, r.sources, 0)
    <3> HIDE DEF none
    <3> QED BY <1>0, <2>1, <2>2, Zenon
  <2> HIDE DEF out
  <2>4. SetSection(r, st, ctx, section, open) = out
    BY Zenon DEF SetSection, out, none, replace, now, q
  <2> QED BY <2>3, <2>4
<1> QED BY <1>1, <1>2, <1>3

(* What a request that brings the order up to date leaves, and where the   *)
(* focus goes: where it was asked to, or to a card that stays.             *)
BuildOf(out, r, st, sources, since, asked, old, new) ==
    LET ch == ChangedSince(r, st, sources, since) IN
    \E next : /\ OutcomeOf(out, Merged(r, st, sources, ch, old, new), sources, next)
              /\ asked # 0 => next = asked
              /\ asked = 0 => next = 0 \/ (next \in Ids(r.order) /\ next \notin ch.removed)

(* A build leaves the order brought up to date, with the sources of the    *)
(* set.                                                                    *)
LEMMA BuildHolds ==
  ASSUME NEW r, IsReview(r), Sound(r.order), r.served \subseteq Cards, NEW st, InSections(st),
         NEW sources, NEW ctx, NEW asked, NEW old, NEW new, new \notin Ids(r.order)
  PROVE  BuildOf(Build(r, st, sources, ctx, asked, old, new), r, st, sources, ctx.since,
                 asked, old, new)
<1> DEFINE q == [r EXCEPT !.sources = sources]
           before == At(q, ctx.current)
           ch == ChangedSince(r, st, sources, ctx.since)
           order == Merged(r, st, sources, ch, old, new)
           gone == ch.removed \cap Ids(r.order)
           next == NextFocus(before, ctx, asked, gone)
           placed == IF order # r.order \/ Many(ch.live) THEN Reordered(before, order) ELSE before
           now == At(placed, IF next # 0 THEN next ELSE ctx.current)
           out == Told(r, now, st, next, ch)
<1>1. Build(r, st, sources, ctx, asked, old, new) = out
  BY Zenon DEF Build, Updated, Relaid
<1>0. IsReview(q) /\ q.order = r.order /\ q.sources = sources /\ q.served = r.served
  BY DEF IsReview
<1> HIDE DEF q
<1>2. /\ IsReview(before) /\ before.order = r.order /\ before.sources = sources
      /\ before.served = r.served
  BY <1>0, AtIs
<1>3. Sound(order)
  BY MergedIs
<1> HIDE DEF before, ch, order
<1>4. /\ IsReview(placed) /\ placed.order = order /\ placed.sources = sources
      /\ placed.served = r.served
  BY <1>2, ReorderedIs
<1> HIDE DEF placed
<1>5. IsReview(now) /\ now.order = order /\ now.sources = sources /\ now.served = r.served
  BY <1>4, AtIs
<1> HIDE DEF now
<1>6. /\ asked # 0 => next = asked
      /\ asked = 0 => next = 0 \/ (next \in Ids(r.order) /\ next \notin ch.removed)
  <2>1. RowsFor(RowsOf(before), r.order)
    BY <1>2, RowsOfReview
  <2> DEFINE f == FocusAfterRemoval(RowsOf(before), ctx.current, gone)
  <2>2. f = 0 \/ (f \in Ids(r.order) /\ f \notin gone)
    <3> HIDE DEF gone
    <3> QED BY <2>1, FocusAfterRemovalIs
  <2>3. next = IF asked = 0 /\ ctx.current \in gone THEN f ELSE asked
    BY Zenon DEF NextFocus
  <2> HIDE DEF f, next
  <2> QED BY <2>2, <2>3
<1> HIDE DEF next
<1>7. OutcomeOf(out, order, sources, next)
  <2> DEFINE replace == now.version # r.version
             window == IF ~replace /\ next # 0 /\ next \notin now.served
                       THEN WindowAround(RowsOf(now), next) ELSE NoWindow
             o == Answered(now, st, window, replace, next, ch.live, ch.removed)
  <2>1. window \ NoWindow \subseteq DOMAIN RowsOf(now)
    BY DEF WindowAround, RowsFrom
  <2>2. Sound(now.order) /\ now.served \subseteq Cards
    BY <1>3, <1>5
  <2>3. OutcomeOf(o, now.order, now.sources, next)
    <3> HIDE DEF window, replace
    <3> QED BY <1>5, <2>1, <2>2, AnswerHolds, Zenon
  <2> HIDE DEF o
  <2>4. out = o
    BY Zenon DEF Told, o
  <2> QED BY <1>5, <2>3, <2>4
<1> HIDE DEF out
<1>8. BuildOf(out, r, st, sources, ctx.since, asked, old, new)
  BY <1>6, <1>7, Zenon DEF BuildOf, order, ch
<1> QED BY <1>1, <1>8

-----------------------------------------------------------------------------
(* What a request leaves.                                                  *)

(* The requests that bring the order up to date.                           *)
Focal == {"changes", "press", "replace"}

OldOf(q) == IF q.kind = "replace" THEN q.id ELSE 0
NewOf(q) == IF q.kind = "replace" THEN q.new ELSE 0

Changed(q) == ChangedSince(Found(q), After(q), members, q.since)
Brought(q) == Merged(Found(q), After(q), members, Changed(q), OldOf(q), NewOf(q))

(* A request of cards there are.                                           *)
RequestTyped(q) ==
    /\ q.kind # "open" => q.since \in Nat
    /\ q.kind \in {"around", "press", "replace"} => q.id \in Cards
    /\ q.kind = "press" => q.landed \in Cards \cup {0}
    /\ q.kind = "replace" => q.new \in Cards

(* Where the focus goes.                                                   *)
FocusOf(q, f) ==
    /\ q.kind \in {"rows", "section"} => f = 0
    /\ q.kind = "around" => f = q.id
    /\ q.kind = "replace" => f = q.new
    /\ q.kind \in {"changes", "press"} =>
          \/ f = 0
          \/ f \in Ids(Found(q).order) /\ (f \notin Changed(q).removed \/ f \notin DoneIn(After(q)))

Leaves(q) ==
    \E f : /\ OutcomeOf(Outcome(q),
                        IF q.kind \in Focal THEN Brought(q) ELSE Found(q).order,
                        IF q.kind \in Focal THEN members ELSE Found(q).sources, f)
           /\ FocusOf(q, f)

(* A request that writes leaves sections there are.                        *)
LEMMA AfterSections ==
  ASSUME Projection(stored), InSections(stored), NEW q, RequestTyped(q)
  PROVE  InSections(After(q))
<1> DEFINE st == After(q)
<1>0. "reviewed" \in Sections
  <2>1. SectionOrder[4] = "reviewed" /\ 4 \in DOMAIN SectionOrder
    BY DEF SectionOrder
  <2> QED BY <2>1 DEF Sections
<1>1. CASE q.kind = "press"
  <2> DEFINE yes == TRUE
             next == Revision(stored) + 1
  <2>1. /\ \A c \in Cards \ {q.id} : st[c] = stored[c]
        /\ q.id \in Cards => st[q.id] = [live |-> yes, section |-> "reviewed", rev |-> next]
    BY <1>1, AfterIs, Zenon
  <2> HIDE DEF st, yes, next
  <2>2. q.id \in Cards => st[q.id].section = "reviewed"
    BY <2>1
  <2> QED BY <1>0, <2>1, <2>2 DEF InSections, st
<1>2. CASE q.kind = "replace"
  <2> DEFINE yes == TRUE
             no == FALSE
             next == Revision(stored) + 1
  <2>1. /\ \A c \in Cards \ {q.id, q.new} : st[c] = stored[c]
        /\ q.id \in Cards => st[q.id] = [live |-> no, section |-> stored[q.id].section,
                                         rev |-> next]
        /\ q.new \in Cards \ {q.id} =>
              st[q.new] = [live |-> yes, section |-> stored[q.id].section, rev |-> next]
    BY <1>2, AfterIs, Zenon
  <2>2. q.id \in Cards
    BY <1>2 DEF RequestTyped
  <2> HIDE DEF st, yes, no, next
  <2>3. /\ q.id \in Cards => st[q.id].section = stored[q.id].section
        /\ q.new \in Cards \ {q.id} => st[q.new].section = stored[q.id].section
    BY <2>1
  <2> QED BY <2>1, <2>2, <2>3 DEF InSections, st
<1>3. CASE q.kind # "press" /\ q.kind # "replace"
  <2>1. st = stored
    BY <1>3, AfterIs DEF Writes
  <2> HIDE DEF st
  <2> QED BY <2>1 DEF st
<1> QED BY <1>1, <1>2, <1>3

(* A served request leaves the order as it was or brought up to date.      *)
LEMMA LeavesIs ==
  ASSUME Projection(stored), InSections(stored),
         NEW q, RequestTyped(q), q.kind \in Kinds,
         IsReview(Found(q)), Sound(Found(q).order), Found(q).served \subseteq Cards,
         q.kind = "replace" => q.new \notin Ids(Found(q).order)
  PROVE  Leaves(q)
<1> DEFINE r == Found(q)
           st == After(q)
           out == Outcome(q)
<1>0. ~Writes(q) => st = stored
  BY AfterIs, Zenon
<1>00. InSections(st)
  BY AfterSections
<1>000. 0 \notin Ids(r.order)
  <2>1. r.order \in Seq(HeldSet)
    BY DEF Sound
  <2>2. Ids(r.order) \subseteq Cards
    BY <2>1, CardsOfOrder DEF Sound
  <2> QED BY <2>2, CardsAssumption
<1> HIDE DEF r, st
<1>1. CASE q.kind = "rows"
  <2>1. out = ReadRows(r, stored, q, q.start, RowsPerFetch)
    BY <1>1 DEF Outcome, r
  <2> HIDE DEF out
  <2>2. OutcomeOf(out, r.order, r.sources, 0)
    BY <2>1, ReadsHold, Zenon DEF r
  <2>3. FocusOf(q, 0) /\ q.kind \notin Focal
    BY <1>1 DEF FocusOf, Focal
  <2> QED BY <2>2, <2>3, Zenon DEF Leaves, r, out
<1>2. CASE q.kind = "around"
  <2>1. out = ReadAround(r, stored, q.id)
    BY <1>2 DEF Outcome, r
  <2> HIDE DEF out
  <2>2. OutcomeOf(out, r.order, r.sources, q.id)
    BY <2>1, ReadsHold, Zenon DEF r
  <2>3. FocusOf(q, q.id) /\ q.kind \notin Focal
    BY <1>2 DEF FocusOf, Focal
  <2> QED BY <2>2, <2>3, Zenon DEF Leaves, r, out
<1>3. CASE q.kind = "section"
  <2>1. out = SetSection(r, stored, q, q.section, q.open)
    BY <1>3 DEF Outcome, r
  <2> HIDE DEF out
  <2>2. OutcomeOf(out, r.order, r.sources, 0)
    BY <2>1, ReadsHold, Zenon DEF r
  <2>3. FocusOf(q, 0) /\ q.kind \notin Focal
    BY <1>3 DEF FocusOf, Focal
  <2> QED BY <2>2, <2>3, Zenon DEF Leaves, r, out
<1>4. ASSUME NEW asked, q.kind \in Focal,
             out = Build(r, st, members, q, asked, OldOf(q), NewOf(q)),
             NewOf(q) \notin Ids(r.order),
             asked # 0 => FocusOf(q, asked),
             asked = 0 => q.kind \in {"changes", "press"}
      PROVE  Leaves(q)
  <2> HIDE DEF out
  <2>1. BuildOf(out, r, st, members, q.since, asked, OldOf(q), NewOf(q))
    <3> DEFINE old == OldOf(q)
               new == NewOf(q)
    <3>1. new \notin Ids(r.order) /\ IsReview(r) /\ Sound(r.order) /\ r.served \subseteq Cards
      BY <1>4 DEF r
    <3> HIDE DEF old, new
    <3>2. BuildOf(Build(r, st, members, q, asked, old, new), r, st, members, q.since,
                  asked, old, new)
      BY <1>00, <3>1, BuildHolds, Zenon
    <3> QED BY <1>4, <3>2, Zenon DEF old, new
  <2> DEFINE ch == ChangedSince(r, st, members, q.since)
             order == Merged(r, st, members, ch, OldOf(q), NewOf(q))
  <2>2. PICK next : /\ OutcomeOf(out, order, members, next)
                    /\ asked # 0 => next = asked
                    /\ asked = 0 => next = 0 \/ (next \in Ids(r.order) /\ next \notin ch.removed)
    BY <2>1, Zenon DEF BuildOf
  <2>3. ch = Changed(q) /\ order = Brought(q)
    BY Zenon DEF Changed, Brought, r, st
  <2> HIDE DEF ch, order
  <2>4. FocusOf(q, next)
    BY <1>4, <2>2, <2>3 DEF FocusOf, Focal, r
  <2> QED BY <1>4, <2>2, <2>3, <2>4, Zenon DEF Leaves, out
<1>5. CASE q.kind = "changes"
  <2>1. out = Build(r, stored, members, q, 0, 0, 0)
    BY <1>5 DEF Outcome, Changes, r
  <2>2. st = stored /\ OldOf(q) = 0 /\ NewOf(q) = 0 /\ q.kind \in Focal
    BY <1>0, <1>5 DEF Writes, OldOf, NewOf, Focal
  <2> HIDE DEF out
  <2>3. out = Build(r, st, members, q, 0, OldOf(q), NewOf(q))
    BY <2>1, <2>2
  <2> QED BY <1>4, <1>5, <1>000, <2>2, <2>3
<1>6. CASE q.kind = "press"
  <2> DEFINE wasDone == stored[q.id].live /\ stored[q.id].section = "reviewed"
             done == DoneIn(After(q))
             asked == FocusAfterPress(r.order, q.id, wasDone, done)
  <2>1. out = Build(r, st, members, q, asked, 0, 0)
    BY <1>6 DEF Outcome, Pressed, r, st
  <2>2. OldOf(q) = 0 /\ NewOf(q) = 0 /\ q.kind \in Focal
    BY <1>6 DEF OldOf, NewOf, Focal
  <2>3. asked = 0 \/ (asked \in Ids(r.order) /\ asked \notin done)
    <3> HIDE DEF wasDone, done
    <3>1. Sound(r.order)
      BY DEF r
    <3> QED BY <3>1, FocusAfterPressIs
  <2>4. asked # 0 => FocusOf(q, asked)
    <3> HIDE DEF asked
    <3> QED BY <1>6, <2>3 DEF FocusOf, r
  <2> HIDE DEF out, asked
  <2>5. out = Build(r, st, members, q, asked, OldOf(q), NewOf(q))
    BY <2>1, <2>2
  <2> QED BY <1>4, <1>6, <1>000, <2>2, <2>4, <2>5
<1>7. CASE q.kind = "replace"
  <2>1. out = Build(r, st, members, q, q.new, q.id, q.new)
    BY <1>7 DEF Outcome, Replaced, r, st
  <2>2. OldOf(q) = q.id /\ NewOf(q) = q.new /\ q.kind \in Focal
    BY <1>7 DEF OldOf, NewOf, Focal
  <2> HIDE DEF out
  <2>3. out = Build(r, st, members, q, q.new, OldOf(q), NewOf(q))
    BY <2>1, <2>2
  <2>4. FocusOf(q, q.new) /\ q.new # 0 /\ NewOf(q) \notin Ids(r.order)
    BY <1>7, <2>2, CardsAssumption DEF FocusOf, RequestTyped, r
  <2> QED BY <1>4, <1>7, <2>2, <2>3, <2>4
<1> QED BY <1>1, <1>2, <1>3, <1>5, <1>6, <1>7 DEF Kinds, Reading

-----------------------------------------------------------------------------
(* How the projection goes on: each card as it was, or under the next      *)
(* revision.                                                               *)
Grown(st) ==
    /\ Projection(st)
    /\ \A c \in Cards : st[c] = stored[c] \/ st[c].rev = Revision(stored) + 1

(* A projection gone on keeps every card up to the revision there was.     *)
LEMMA GrownIs ==
  ASSUME Projection(stored), NEW st, Grown(st)
  PROVE  /\ Revision(stored) \in Nat /\ Revision(st) \in Nat
         /\ Revision(stored) <= Revision(st)
         /\ \A c \in Cards : st[c].rev <= Revision(stored) => st[c] = stored[c]
         /\ \A c \in Cards : stored[c].rev <= st[c].rev
<1>1. /\ Revision(stored) \in Nat /\ \A c \in Cards : stored[c].rev <= Revision(stored)
      /\ Revision(stored) # 0 => \E c \in Cards : stored[c].rev = Revision(stored)
  BY RevisionIs
<1>2. Revision(st) \in Nat /\ \A c \in Cards : st[c].rev <= Revision(st)
  BY RevisionIs DEF Grown
<1>3. \A c \in Cards : stored[c].rev \in Nat /\ st[c].rev \in Nat
  BY DEF Grown, Projection
<1>4. \A c \in Cards : stored[c].rev <= st[c].rev
  BY <1>1, <1>3 DEF Grown
<1>5. Revision(stored) <= Revision(st)
  BY <1>1, <1>2, <1>3, <1>4
<1>6. \A c \in Cards : st[c].rev <= Revision(stored) => st[c] = stored[c]
  BY <1>1, <1>3 DEF Grown
<1> QED BY <1>1, <1>2, <1>4, <1>5, <1>6

(* A card that is live was made.                                           *)
LiveMade(st) == \A c \in Cards : st[c].live => Made(st, c)

(* What a write leaves is the projection gone on.                          *)
LEMMA WroteGrown ==
  ASSUME Projection(stored), LiveMade(stored), NEW w, NEW live, NEW section
  PROVE  LET st == Wrote(w, live, section) IN Grown(st) /\ LiveMade(st)
<1> DEFINE st == Wrote(w, live, section)
           next == Revision(stored) + 1
<1>1. /\ Projection(st)
      /\ \A c \in Cards \ {w} : st[c] = stored[c]
      /\ w \in Cards => st[w] = [live |-> live, section |-> section, rev |-> next]
  BY WroteIs
<1>2. Revision(stored) \in Nat
  BY RevisionIs
<1>3. next # 0 /\ next > 0
  BY <1>2
<1> HIDE DEF st, next
<1>4. \A c \in Cards : st[c] = stored[c] \/ st[c].rev = next
  BY <1>1
<1>5. LiveMade(st)
  BY <1>1, <1>3, <1>4 DEF LiveMade, Made
<1> QED BY <1>1, <1>4, <1>5 DEF Grown, st, next

(* What a request leaves is the projection gone on; a replacing card is    *)
(* live.                                                                   *)
LEMMA AfterGrown ==
  ASSUME Projection(stored), LiveMade(stored), NEW q
  PROVE  LET st == After(q) IN
         /\ Grown(st) /\ LiveMade(st)
         /\ q.kind = "replace" /\ q.id \in Cards => st[q.id].rev = Revision(stored) + 1
         /\ q.kind = "replace" /\ q.new \in Cards \ {q.id} => st[q.new].live
<1> DEFINE st == After(q)
           next == Revision(stored) + 1
           yes == TRUE
           no == FALSE
<1>0. Revision(stored) \in Nat
  BY RevisionIs
<1>00. next > 0
  BY <1>0
<1>1. /\ Projection(st)
      /\ ~Writes(q) => st = stored
      /\ q.kind = "press" =>
           /\ \A c \in Cards \ {q.id} : st[c] = stored[c]
           /\ q.id \in Cards => st[q.id] = [live |-> yes, section |-> "reviewed", rev |-> next]
      /\ q.kind = "replace" =>
           /\ \A c \in Cards \ {q.id, q.new} : st[c] = stored[c]
           /\ q.id \in Cards => st[q.id] = [live |-> no, section |-> stored[q.id].section,
                                           rev |-> next]
           /\ q.new \in Cards \ {q.id} =>
                 st[q.new] = [live |-> yes, section |-> stored[q.id].section, rev |-> next]
  BY AfterIs, Zenon
<1>2. yes = TRUE
  OBVIOUS
<1> HIDE DEF st, next, yes, no
<1>3. \A c \in Cards : st[c] = stored[c] \/ st[c].rev = next
  BY <1>1 DEF Writes
<1>4. LiveMade(st)
  BY <1>00, <1>1, <1>3 DEF LiveMade, Made
<1>5. q.kind = "replace" /\ q.id \in Cards => st[q.id].rev = next
  BY <1>1
<1>6. q.kind = "replace" /\ q.new \in Cards \ {q.id} => st[q.new].live
  <2>1. q.kind = "replace" /\ q.new \in Cards \ {q.id} => st[q.new].live = yes
    BY <1>1
  <2> QED BY <1>2, <2>1
<1> QED BY <1>1, <1>3, <1>4, <1>5, <1>6 DEF Grown, st, next

-----------------------------------------------------------------------------
(* What the server keeps and what a client knows.                          *)

(* A source that never leaves the set.                                     *)
Stays(c) == SourceOf[c] \notin MayLeave

(* The cards the order is held to: all of them until a review came back    *)
(* from its folder.                                                        *)
Sure(c) == (held # Nowhere /\ readBacks = 0) \/ Stays(c)

KnownAt(revision) ==
    \A c \in Cards : Sure(c) /\ stored[c].rev <= revision =>
        Right(files.heavy, stored, files.light.sources, c)

(* The files and the memory are of one review, of the client or the next.  *)
FilesInv ==
    /\ held # Nowhere =>
          /\ files # Nowhere /\ files.id = held.id
          /\ mark = held.review.version /\ files.light.version = held.review.version
          /\ files.heavy = held.review.order /\ files.light.sources = held.review.sources
    /\ files # Nowhere => files.id \in {client.review, client.review + 1}
    /\ files # Nowhere /\ files.id = client.review =>
          \A m \in flight : m.q.kind = "open" => m.a = <<>>

ProjectionInv ==
    /\ InSections(stored) /\ LiveMade(stored)
    /\ \A c \in Cards : Stays(c) => SourceOf[c] \in members

(* The revisions the client and its answers know are ones there were.      *)
RevisionInv ==
    /\ client.revision <= Revision(stored)
    /\ \A m \in flight : m.a # <<>> /\ IsAnswer(m.a[1]) => m.a[1].revision <= Revision(stored)
    /\ \A m \in flight : m.q.kind # "open" /\ m.q.review = client.review =>
                            m.q.since <= client.revision

(* An answer whose revision becomes the client's.                          *)
Brings(m) == m.a # <<>> /\ IsAnswer(m.a[1]) /\ m.q.kind \in Focal \cup {"open"}

(* The order and the sources of a review held: whatever the client or an   *)
(* answer knows changed is placed.                                         *)
OrderInv ==
    files # Nowhere =>
        /\ Sound(files.heavy)
        /\ \A c \in Ids(files.heavy) : Made(stored, c)
        /\ \A c \in Ids(files.heavy) : Sure(c) => SourceOf[c] \in files.light.sources
        /\ \A c \in Cards : Stays(c) => SourceOf[c] \in files.light.sources
        /\ files.id = client.review => KnownAt(client.revision)
        /\ \A m \in flight : Brings(m) /\ m.a[1].review = files.id => KnownAt(m.a[1].revision)

(* Requests and answers of cards there are.                                *)
AnswerTyped(u) ==
    /\ u.focus \in Cards \cup {0} /\ DOMAIN u.cards \subseteq Cards
    /\ u.layout # <<>> => RowsTyped(u.layout[1].rows)

MessagesTyped ==
    \A m \in flight : /\ RequestTyped(m.q)
                      /\ m.a # <<>> /\ IsAnswer(m.a[1]) => AnswerTyped(m.a[1])

ServedTyped ==
    /\ held # Nowhere => held.review.served \subseteq Cards
    /\ files # Nowhere => files.light.served \subseteq Cards

ClientTyped ==
    /\ RowsTyped(client.rows) /\ DOMAIN client.cards \subseteq Cards
    /\ client.current \in Cards \cup {0}

(* What a request finds held.                                              *)
LEMMA FoundHas ==
  ASSUME Shapes, FilesInv, OrderInv, ServedTyped,
         NEW q, q.review \in 1 .. client.review, Holds(q)
  PROVE  LET r == Found(q) IN
         /\ files # Nowhere /\ files.id = client.review /\ q.review = client.review
         /\ IsReview(r)
         /\ r.order = files.heavy /\ r.sources = files.light.sources
         /\ r.served \subseteq Cards /\ r.version = MarkOf(q)
         /\ Sound(r.order)
         /\ held.id = q.review => held # Nowhere
         /\ \A m \in flight : m.q.kind = "open" => m.a = <<>>
<1> DEFINE r == Found(q)
<1>0. client.review \in Nat /\ q.review \in Nat \ {0} /\ q.review <= client.review
  BY DEF Shapes, ClientFits
<1>1. /\ IsReview(r)
      /\ held.id = q.review => held # Nowhere /\ r = held.review
      /\ held.id # q.review => files # Nowhere /\ files.id = q.review
                               /\ r = Joined(files.heavy, files.light)
  BY <1>0, FoundIsReview
<1> HIDE DEF r
<1>2. files # Nowhere /\ files.id = q.review
  BY <1>1 DEF FilesInv
<1>3. files.id = client.review /\ q.review = client.review
  BY <1>0, <1>2 DEF FilesInv
<1>4. /\ r.order = files.heavy /\ r.sources = files.light.sources
      /\ r.served \subseteq Cards /\ r.version = MarkOf(q)
  <2>1. CASE held.id = q.review
    BY <1>1, <2>1 DEF FilesInv, ServedTyped, MarkOf
  <2>2. CASE held.id # q.review
    <3> DEFINE s == Joined(files.heavy, files.light)
    <3>1. /\ s.order = files.heavy /\ s.sources = files.light.sources
          /\ s.served = files.light.served /\ s.version = files.light.version
      BY DEF Joined
    <3> HIDE DEF s
    <3> QED BY <1>1, <1>2, <2>2, <3>1 DEF ServedTyped, MarkOf, s
  <2> QED BY <2>1, <2>2
<1>5. Sound(r.order)
  BY <1>2, <1>4 DEF OrderInv
<1> QED BY <1>1, <1>2, <1>3, <1>4, <1>5 DEF FilesInv, r

(* The cards a request is about: the old one changes, the new one was in   *)
(* no order.                                                               *)
LEMMA AboutCards ==
  ASSUME Shapes, FilesInv, ProjectionInv, OrderInv, ServedTyped,
         NEW q, RequestTyped(q), q.review \in 1 .. client.review, Holds(q), MayWrite(q)
  PROVE  /\ q.kind = "replace" => q.new \notin Ids(Found(q).order) /\ q.new \in Cards \ {q.id}
         /\ NewOf(q) \notin Ids(Found(q).order)
         /\ OldOf(q) \in Cards => After(q)[OldOf(q)].rev = Revision(stored) + 1
<1> DEFINE r == Found(q)
<1>1. r.order = files.heavy /\ files # Nowhere /\ Sound(r.order)
  BY FoundHas
<1>2. \A c \in Ids(r.order) : Made(stored, c)
  BY <1>1 DEF OrderInv
<1>3. r.order \in Seq(HeldSet)
  BY <1>1 DEF Sound
<1>4. Ids(r.order) \subseteq Cards
  BY <1>1, <1>3, CardsOfOrder DEF Sound
<1> HIDE DEF r
<1>5. ASSUME q.kind = "replace"
      PROVE  q.new \notin Ids(r.order) /\ q.new \in Cards \ {q.id} /\ q.id \in Cards
  <2>1. stored[q.id].live /\ ~Made(stored, q.new)
    BY <1>5 DEF MayWrite
  <2>2. q.id \in Cards /\ q.new \in Cards
    BY <1>5 DEF RequestTyped
  <2>3. Made(stored, q.id)
    BY <2>1, <2>2 DEF ProjectionInv, LiveMade
  <2> QED BY <1>2, <2>1, <2>2, <2>3
<1>6. OldOf(q) \in Cards => After(q)[OldOf(q)].rev = Revision(stored) + 1
  <2>1. OldOf(q) \in Cards => q.kind = "replace" /\ OldOf(q) = q.id
    BY CardsAssumption DEF OldOf
  <2>2. q.kind = "replace" /\ q.id \in Cards => After(q)[q.id].rev = Revision(stored) + 1
    BY AfterGrown DEF Shapes, ProjectionInv
  <2> QED BY <2>1, <2>2
<1>7. NewOf(q) \notin Ids(r.order)
  BY <1>4, <1>5, CardsAssumption DEF NewOf
<1> QED BY <1>5, <1>6, <1>7 DEF r

(* A request that brings the order up to date leaves it right, of every    *)
(* card it is held to.                                                     *)
LEMMA BroughtIs ==
  ASSUME Shapes, FilesInv, ProjectionInv, RevisionInv, OrderInv, ServedTyped,
         NEW m \in flight, m.q.kind \in Focal, RequestTyped(m.q), Holds(m.q), MayWrite(m.q)
  PROVE  /\ Sound(Brought(m.q))
         /\ \A c \in Ids(Brought(m.q)) : Made(After(m.q), c)
         /\ \A c \in Cards : Sure(c) => Right(Brought(m.q), After(m.q), members, c)
<1> DEFINE q == m.q
           r == Found(q)
           st == After(q)
           old == OldOf(q)
           new == NewOf(q)
           next == Revision(stored) + 1
<1>1. q.review \in 1 .. client.review /\ q.kind # "open"
  BY DEF Shapes, MessageFits, Focal
<1>2. /\ files # Nowhere /\ files.id = client.review /\ q.review = client.review
      /\ r.order = files.heavy /\ r.sources = files.light.sources /\ Sound(r.order)
  BY <1>1, FoundHas
<1>3. new \notin Ids(r.order) /\ (old \in Cards => st[old].rev = next)
  BY <1>1, AboutCards
<1>4. Projection(stored) /\ Grown(st) /\ LiveMade(st)
  BY AfterGrown DEF Shapes, ProjectionInv
<1>5. InSections(st)
  BY AfterSections DEF Shapes, ProjectionInv
<1>6. /\ Revision(stored) \in Nat
      /\ \A c \in Cards : st[c].rev <= Revision(stored) => st[c] = stored[c]
      /\ \A c \in Cards : stored[c].rev <= st[c].rev
      /\ \A c \in Cards : st[c].rev \in Nat /\ stored[c].rev \in Nat
  BY <1>4, GrownIs DEF Grown, Projection
<1>7. q.since \in Nat /\ q.since <= client.revision /\ client.revision <= Revision(stored)
      /\ client.revision \in Nat
  BY <1>1, <1>2 DEF RequestTyped, RevisionInv, Shapes, ClientFits
<1>8. Brought(q) = Merged(r, st, members, ChangedSince(r, st, members, q.since), old, new)
  BY Zenon DEF Brought, Changed
<1> HIDE DEF r, st, old, new, q
<1> DEFINE order == Merged(r, st, members, ChangedSince(r, st, members, q.since), old, new)
<1>9. Sound(order) /\ \A c \in Ids(order) : c \in Ids(r.order) \/ st[c].live
  BY <1>2, <1>3, <1>5, MergedIs
<1>10. Ids(order) \subseteq Cards
  <2>1. order \in Seq(HeldSet) /\ Once(order)
    BY <1>9 DEF Sound
  <2> HIDE DEF order
  <2> QED BY <2>1, CardsOfOrder
<1>11. ASSUME NEW c \in Ids(order) PROVE Made(st, c)
  <2>0. c \in Cards
    BY <1>10
  <2>1. CASE c \in Ids(r.order)
    <3>1. Made(stored, c)
      BY <1>2, <2>1 DEF OrderInv
    <3> QED BY <1>6, <2>0, <3>1 DEF Made
  <2>2. CASE st[c].live
    BY <1>4, <2>0, <2>2 DEF LiveMade
  <2> QED BY <1>9, <2>1, <2>2
<1>12. ASSUME NEW c \in Cards, Sure(c) PROVE Right(order, st, members, c)
  <2>1. st[c].rev \in Nat
    BY <1>6
  <2>2. c = old => st[c].rev > q.since
    BY <1>3, <1>6, <1>7
  <2>3. c \in Ids(r.order) => SourceOf[c] \in r.sources
    BY <1>2, <1>12 DEF OrderInv
  <2>4. ASSUME st[c].rev <= q.since PROVE Right(r.order, st, r.sources, c)
    <3>1. st[c] = stored[c]
      BY <1>6, <1>7, <2>4
    <3>2. stored[c].rev <= client.revision
      BY <1>6, <1>7, <2>4, <3>1
    <3>3. Right(r.order, stored, r.sources, c)
      BY <1>2, <1>12, <3>2 DEF OrderInv, KnownAt
    <3> QED BY <3>1, <3>3 DEF Right
  <2>5. Sound(r.order)
    BY <1>2
  <2> QED BY <1>3, <1>5, <1>7, <2>1, <2>2, <2>3, <2>4, <2>5, MergedRight
<1> HIDE DEF order
<1> QED BY <1>8, <1>9, <1>11, <1>12, Zenon DEF order, q, st

(* Where an answer sends the focus is live unless it changed since.        *)
FocusInv ==
    \A m \in flight : m.a # <<>> /\ IsAnswer(m.a[1]) /\ m.q.kind # "around" =>
        LET f == m.a[1].focus IN
        f # 0 /\ stored[f].rev <= m.a[1].revision /\ (readBacks = 0 \/ Stays(f)) => stored[f].live

Kept ==
    /\ Shapes /\ MessagesTyped /\ ServedTyped /\ FilesInv
    /\ ProjectionInv /\ RevisionInv /\ OrderInv /\ FocusInv

(* The focus of an answer goes to a live card of those the order is held   *)
(* to.                                                                     *)
LEMMA FocusLives ==
  ASSUME Kept, NEW m \in flight, m.q.kind \in Kinds \ {"around"}, Holds(m.q), MayWrite(m.q),
         NEW f \in Cards, FocusOf(m.q, f),
         (held.id = m.q.review /\ readBacks = 0) \/ Stays(f)
  PROVE  After(m.q)[f].live
<1> DEFINE q == m.q
           r == Found(q)
           st == After(q)
           ch == Changed(q)
<1>0. f # 0
  BY CardsAssumption
<1>1. q.review \in 1 .. client.review /\ q.kind # "open" /\ RequestTyped(q)
  BY OpeningIsNoKind DEF Kept, Shapes, MessageFits, MessagesTyped
<1>2. /\ files # Nowhere /\ files.id = client.review /\ q.review = client.review
      /\ r.order = files.heavy /\ r.sources = files.light.sources
      /\ held.id = q.review => held # Nowhere
  BY <1>1, FoundHas DEF Kept
<1>3. Sure(f)
  BY <1>2 DEF Sure
<1>4. Projection(stored) /\ Grown(st)
  BY AfterGrown DEF Kept, Shapes, ProjectionInv
<1>6. /\ Revision(stored) \in Nat
      /\ \A c \in Cards : st[c].rev <= Revision(stored) => st[c] = stored[c]
      /\ \A c \in Cards : st[c].rev \in Nat /\ stored[c].rev \in Nat
  BY <1>4, GrownIs DEF Grown, Projection
<1>5. q.kind \in {"changes", "press", "replace"}
  BY <1>0 DEF Kinds, Reading, FocusOf
<1>7. CASE q.kind = "replace"
  <2>1. q.new \in Cards \ {q.id} /\ f = q.new
    BY <1>1, <1>7, AboutCards DEF Kept, FocusOf
  <2>2. st[q.new].live
    BY <1>7, <2>1, AfterGrown DEF Kept, Shapes, ProjectionInv
  <2> QED BY <2>1, <2>2
<1>8. CASE q.kind \in {"changes", "press"}
  <2>1. f \in Ids(r.order) /\ (f \notin ch.removed \/ f \notin DoneIn(st))
    BY <1>0, <1>8 DEF FocusOf
  <2>2. CASE f \notin DoneIn(st)
    BY <2>2 DEF DoneIn
  <2>3. CASE f \notin ch.removed
    <3> SUFFICES ASSUME ~st[f].live PROVE FALSE
      OBVIOUS
    <3>1. ch.removed = {c \in {d \in Cards : SourceOf[d] \in members /\ st[d].rev > q.since} :
                          ~st[c].live}
                       \cup {c \in Cards : SourceOf[c] \in r.sources \ members}
      BY DEF Changed, ChangedSince
    <3> HIDE DEF ch, st, r
    <3>2. SourceOf[f] \in r.sources
      BY <1>2, <1>3, <2>1 DEF Kept, OrderInv
    <3>3. SourceOf[f] \in members
      BY <2>3, <3>1, <3>2
    <3>4. ~(st[f].rev > q.since)
      BY <2>3, <3>1, <3>3
    <3>5. q.since \in Nat /\ q.since <= client.revision /\ client.revision <= Revision(stored)
          /\ client.revision \in Nat
      BY <1>1, <1>2 DEF Kept, RequestTyped, RevisionInv, Shapes, ClientFits
    <3>6. st[f] = stored[f] /\ stored[f].rev <= client.revision
      BY <1>6, <3>4, <3>5
    <3>7. Right(files.heavy, stored, files.light.sources, f)
      BY <1>2, <1>3, <3>6 DEF Kept, OrderInv, KnownAt
    <3> QED BY <1>2, <2>1, <3>6, <3>7 DEF Right
  <2> QED BY <2>1, <2>2, <2>3
<1> QED BY <1>5, <1>7, <1>8

(* What a served request leaves in its review.                             *)
LEMMA OutcomeLeaves ==
  ASSUME Kept, NEW m \in flight, m.q.kind \in Kinds, Holds(m.q), MayWrite(m.q)
  PROVE  LET q == m.q
             out == Outcome(q)
         IN  /\ Leaves(q) /\ RequestTyped(q)
             /\ HeavyAfter(q, out.review) = out.review.order
             /\ q.kind \notin Focal => After(q) = stored /\ Found(q).order = files.heavy
                                       /\ Found(q).sources = files.light.sources
             /\ files # Nowhere /\ files.id = client.review /\ q.review = client.review
             /\ held.id = q.review => held # Nowhere
             /\ \A n \in flight : n.q.kind = "open" => n.a = <<>>
<1> DEFINE q == m.q
           r == Found(q)
           out == Outcome(q)
<1>1. q.review \in 1 .. client.review /\ q.kind # "open" /\ RequestTyped(q)
  BY OpeningIsNoKind DEF Kept, Shapes, MessageFits, MessagesTyped
<1>2. /\ files # Nowhere /\ files.id = client.review /\ q.review = client.review
      /\ IsReview(r)
      /\ r.order = files.heavy /\ r.sources = files.light.sources
      /\ r.served \subseteq Cards /\ r.version = MarkOf(q)
      /\ Sound(r.order)
      /\ held.id = q.review => held # Nowhere
      /\ \A n \in flight : n.q.kind = "open" => n.a = <<>>
  BY <1>1, FoundHas DEF Kept
<1>3. q.kind = "replace" => q.new \notin Ids(r.order)
  BY <1>1, AboutCards DEF Kept
<1>4. Projection(stored) /\ InSections(stored)
  BY DEF Kept, Shapes, ProjectionInv
<1>5. Leaves(q)
  BY <1>1, <1>2, <1>3, <1>4, LeavesIs
<1>6. Continues(out.review, r)
  BY <1>2, <1>4, OutcomeIs DEF AnswersFor
<1>7. HeavyAfter(q, out.review) = out.review.order
  <2> HIDE DEF out, r
  <2> QED BY <1>2, <1>6 DEF HeavyAfter, Continues
<1>8. q.kind \notin Focal => After(q) = stored
  BY <1>4, AfterIs DEF Focal, Writes
<1> QED BY <1>1, <1>2, <1>5, <1>7, <1>8

(* The order and the sources a request leaves, of every card the order is  *)
(* held to: right, where it was brought up to date or was right before.    *)
LEMMA LeftRight ==
  ASSUME Kept, NEW m \in flight, m.q.kind \in Kinds, Holds(m.q), MayWrite(m.q)
  PROVE  LET q == m.q
             order == Outcome(q).review.order
             sources == Outcome(q).review.sources
             st == After(q)
         IN  /\ Sound(order)
             /\ \A c \in Ids(order) : c \in Cards /\ Made(st, c)
             /\ \A c \in Ids(order) : Sure(c) => SourceOf[c] \in sources
             /\ \A c \in Cards : Stays(c) => SourceOf[c] \in sources /\ SourceOf[c] \in files.light.sources
             /\ \A c \in Cards :
                   Sure(c) /\ (q.kind \in Focal \/ Right(files.heavy, stored, files.light.sources, c))
                   => Right(order, st, sources, c)
<1> DEFINE q == m.q
           r == Found(q)
           out == Outcome(q)
           order == out.review.order
           sources == out.review.sources
           st == After(q)
<1>1. /\ Leaves(q) /\ RequestTyped(q) /\ files # Nowhere
      /\ q.kind \notin Focal => st = stored /\ r.order = files.heavy /\ r.sources = files.light.sources
  BY OutcomeLeaves
<1>2. PICK f : OutcomeOf(out, IF q.kind \in Focal THEN Brought(q) ELSE r.order,
                         IF q.kind \in Focal THEN members ELSE r.sources, f)
  BY <1>1, Zenon DEF Leaves
<1>3. /\ order = IF q.kind \in Focal THEN Brought(q) ELSE r.order
      /\ sources = IF q.kind \in Focal THEN members ELSE r.sources
  BY <1>2 DEF OutcomeOf
<1>4. \A c \in Cards : Stays(c) => SourceOf[c] \in members /\ SourceOf[c] \in files.light.sources
  BY <1>1 DEF Kept, ProjectionInv, OrderInv
<1>5. ASSUME Sound(order) PROVE Ids(order) \subseteq Cards
  <2>1. order \in Seq(HeldSet) /\ Once(order)
    BY <1>5 DEF Sound
  <2> HIDE DEF order
  <2> QED BY <2>1, CardsOfOrder
<1>6. CASE q.kind \in Focal
  <2>1. /\ Sound(order)
        /\ \A c \in Ids(order) : Made(st, c)
        /\ \A c \in Cards : Sure(c) => Right(order, st, members, c)
    <3>1. order = Brought(q)
      BY <1>3, <1>6
    <3>2. /\ Sound(Brought(q))
          /\ \A c \in Ids(Brought(q)) : Made(After(q), c)
          /\ \A c \in Cards : Sure(c) => Right(Brought(q), After(q), members, c)
      BY <1>1, <1>6, BroughtIs DEF Kept
    <3> HIDE DEF order
    <3> QED BY <3>1, <3>2
  <2>2. sources = members
    BY <1>3, <1>6
  <2> HIDE DEF order, sources, st
  <2>3. Ids(order) \subseteq Cards
    BY <1>5, <2>1
  <2>4. \A c \in Ids(order) : Sure(c) => SourceOf[c] \in sources
    BY <2>1, <2>2, <2>3 DEF Right
  <2> QED BY <1>4, <2>1, <2>2, <2>3, <2>4 DEF order, sources, st
<1>7. CASE q.kind \notin Focal
  <2>1. order = files.heavy /\ sources = files.light.sources /\ st = stored
    BY <1>1, <1>3, <1>7
  <2> HIDE DEF order, sources, st
  <2>2. /\ Sound(order) /\ \A c \in Ids(order) : Made(stored, c)
        /\ \A c \in Ids(order) : Sure(c) => SourceOf[c] \in sources
    BY <1>1, <2>1 DEF Kept, OrderInv
  <2>3. Ids(order) \subseteq Cards
    BY <1>5, <2>2
  <2> QED BY <1>4, <1>7, <2>1, <2>2, <2>3 DEF order, sources, st
<1> QED BY <1>6, <1>7

(* The messages once one is answered.                                      *)
LEMMA AnsweredAre ==
  ASSUME Shapes, NEW m \in flight, NEW a, Answering(m, a)
  PROVE  \E n : /\ n.q = m.q /\ n.a = <<a>> /\ n.a[1] = a
                /\ flight' = (flight \ {m}) \cup {n}
<1> DEFINE n == [m EXCEPT !.a = <<a>>]
<1>1. MessageFits(m, client.review)
  BY DEF Shapes
<1>2. n.q = m.q /\ n.a = <<a>> /\ n.a[1] = a
  BY <1>1, AnsweredMessage
<1>3. flight' = (flight \ {m}) \cup {n}
  BY DEF Answering
<1> HIDE DEF n
<1> QED BY <1>2, <1>3

(* What does not concern the store goes on with the projection.            *)
LEMMA KeptAsIs ==
  ASSUME Kept, Grown(stored'), client' = client, members' = members,
         InSections(stored'), LiveMade(stored'), readBacks' \in Nat, readBacks' >= readBacks,
         NEW m \in flight, NEW n, n.q = m.q, n.a = <<n.a[1]>>,
         flight' = (flight \ {m}) \cup {n},
         IsAnswer(n.a[1]) =>
            LET u == n.a[1] IN
            /\ AnswerTyped(u) /\ u.revision <= Revision(stored')
            /\ m.q.kind # "around" /\ u.focus # 0 /\ (readBacks' = 0 \/ Stays(u.focus))
                  => stored'[u.focus].live
  PROVE  MessagesTyped' /\ ProjectionInv' /\ RevisionInv' /\ FocusInv'
<1>1. MessagesTyped'
  BY DEF Kept, MessagesTyped
<1>2. ProjectionInv'
  BY DEF Kept, ProjectionInv, Stays
<1>3. /\ Revision(stored) \in Nat /\ Revision(stored') \in Nat
      /\ Revision(stored) <= Revision(stored')
      /\ \A c \in Cards : stored'[c].rev <= Revision(stored) => stored'[c] = stored[c]
      /\ \A c \in Cards : stored'[c].rev \in Nat
  BY GrownIs DEF Kept, Shapes, Grown, Projection
<1>4. \A o \in flight : o.a # <<>> /\ IsAnswer(o.a[1]) =>
          o.a[1].revision \in Nat /\ o.a[1].revision <= Revision(stored)
  BY DEF Kept, Shapes, MessageFits, Delivered, IsAnswerTo, RevisionInv
<1>5. RevisionInv'
  <2>1. client.revision <= Revision(stored) /\ client.revision \in Nat
    BY DEF Kept, RevisionInv, Shapes, ClientFits
  <2>2. client'.revision <= Revision(stored)'
    BY <1>3, <2>1
  <2>3. \A o \in flight' : o.a # <<>> /\ IsAnswer(o.a[1]) => o.a[1].revision <= Revision(stored)'
    BY <1>3, <1>4
  <2>4. \A o \in flight' : o.q.kind # "open" /\ o.q.review = client'.review =>
                              o.q.since <= client'.revision
    BY DEF Kept, RevisionInv
  <2> QED BY <2>2, <2>3, <2>4 DEF RevisionInv
<1>6. FocusInv'
  <2> SUFFICES ASSUME NEW o \in flight', o.a # <<>>, IsAnswer(o.a[1]), o.q.kind # "around",
                      NEW f, f = o.a[1].focus,
                      f # 0, stored'[f].rev <= o.a[1].revision, readBacks' = 0 \/ Stays(f)
               PROVE  stored'[f].live
    BY DEF FocusInv, Stays
  <2>1. CASE o = n
    BY <2>1
  <2>2. CASE o \in flight
    <3>1. o.a[1].revision \in Nat /\ o.a[1].revision <= Revision(stored)
      BY <1>4, <2>2
    <3>2. f \in Cards
      BY <2>2 DEF Kept, MessagesTyped, AnswerTyped
    <3>3. stored'[f] = stored[f]
      BY <1>3, <3>1, <3>2
    <3>4. readBacks = 0 \/ Stays(f)
      BY DEF Kept, Shapes
    <3>5. stored[f].live
      BY <2>2, <3>3, <3>4 DEF Kept, FocusInv
    <3> QED BY <3>3, <3>5
  <2> QED BY <2>1, <2>2
<1> QED BY <1>1, <1>2, <1>5, <1>6

(* A request served keeps what is kept.                                    *)
LEMMA ServedKept ==
  ASSUME Kept, NEW m \in flight, ServesOne(m)
  PROVE  Kept'
<1> DEFINE q == m.q
           out == Outcome(q)
           a == OfReview(out.answer, q.review)
           order == out.review.order
           sources == out.review.sources
           st == After(q)
<1>1. /\ stored' = st
      /\ held' = [id |-> q.review, review |-> out.review]
      /\ files' = [id |-> q.review, heavy |-> HeavyAfter(q, out.review),
                   light |-> LightOf(out.review)]
      /\ mark' = out.review.version
      /\ readBacks' = IF held.id = q.review THEN readBacks ELSE readBacks + 1
      /\ Answering(m, a)
      /\ client' = client /\ members' = members
      /\ Holds(q) /\ MayWrite(q)
  BY DEF ServesOne, Serves
<1>2. /\ Shapes' /\ q.kind \in Kinds /\ q.review \in Nat \ {0}
      /\ AnswersFor(out, Found(q), st)
  <2>1. /\ Shapes' /\ q.kind \in Kinds /\ q.review \in Nat \ {0}
        /\ AnswersFor(Outcome(m.q), Found(m.q), stored')
    BY ServedShapes DEF Kept
  <2> QED BY <1>1, <2>1
<1>3. IsReview(out.review) /\ out.answer.revision = Revision(st)
  BY <1>2 DEF AnswersFor, Continues
<1>4. /\ Leaves(q) /\ RequestTyped(q)
      /\ HeavyAfter(q, out.review) = out.review.order
      /\ files # Nowhere /\ files.id = client.review /\ q.review = client.review
      /\ held.id = q.review => held # Nowhere
      /\ \A n \in flight : n.q.kind = "open" => n.a = <<>>
  BY <1>1, <1>2, OutcomeLeaves
<1>5. PICK f : /\ OutcomeOf(out, order, sources, f) /\ FocusOf(q, f)
  <2>1. PICK f : /\ OutcomeOf(out, IF q.kind \in Focal THEN Brought(q) ELSE Found(q).order,
                              IF q.kind \in Focal THEN members ELSE Found(q).sources, f)
                 /\ FocusOf(q, f)
    BY <1>4, Zenon DEF Leaves
  <2>2. OutcomeOf(out, order, sources, f)
    BY <2>1 DEF OutcomeOf
  <2> QED BY <2>1, <2>2
<1>6. /\ Sound(order)
      /\ \A c \in Ids(order) : c \in Cards /\ Made(st, c)
      /\ \A c \in Ids(order) : Sure(c) => SourceOf[c] \in sources
      /\ \A c \in Cards : Stays(c) => SourceOf[c] \in sources
      /\ \A c \in Cards :
            Sure(c) /\ (q.kind \in Focal \/ Right(files.heavy, stored, files.light.sources, c))
            => Right(order, st, sources, c)
  BY <1>1, <1>2, LeftRight
<1>7. Projection(stored) /\ Grown(st) /\ LiveMade(st) /\ InSections(st)
  BY <1>4, AfterGrown, AfterSections DEF Kept, Shapes, ProjectionInv
<1>8. /\ IsAnswer(a) /\ a.review = q.review /\ a.revision = out.answer.revision
      /\ a.focus = out.answer.focus /\ a.layout = out.answer.layout /\ a.cards = out.answer.cards
  BY OfReviewIs
<1>9. a.focus = f /\ f \in Cards \cup {0} /\ AnswerTyped(a) /\ out.review.served \subseteq Cards
  <2>1. /\ out.answer.focus = f /\ out.review.served \subseteq Cards
        /\ DOMAIN out.answer.cards \subseteq Cards
        /\ out.answer.layout # <<>> => RowsTyped(out.answer.layout[1].rows)
    BY <1>5 DEF OutcomeOf
  <2>2. f \in Cards \cup {0}
    <3>1. Found(q).order = files.heavy /\ q.review \in 1 .. client.review
      BY <1>1, <1>2, <1>4, FoundHas DEF Kept, Shapes, MessageFits
    <3>2. Sound(files.heavy)
      BY <1>4 DEF Kept, OrderInv
    <3>3. files.heavy \in Seq(HeldSet) /\ Once(files.heavy)
      BY <3>2 DEF Sound
    <3>4. Ids(Found(q).order) \subseteq Cards
      BY <3>1, <3>3, CardsOfOrder
    <3> QED BY <1>2, <1>4, <1>5, <3>4 DEF FocusOf, RequestTyped, Kinds, Reading
  <2> HIDE DEF out, a
  <2>3. AnswerTyped(a)
    BY <1>8, <2>1, <2>2 DEF AnswerTyped
  <2> QED BY <1>8, <2>1, <2>2, <2>3
<1>10. PICK n : n.q = m.q /\ n.a = <<a>> /\ n.a[1] = a /\ flight' = (flight \ {m}) \cup {n}
  <2> HIDE DEF a
  <2> QED BY <1>1, AnsweredAre DEF Kept
<1>11. readBacks' \in Nat /\ readBacks' >= readBacks
       /\ (readBacks' = 0 => readBacks = 0 /\ held.id = q.review)
  BY <1>1 DEF Kept, Shapes
<1>12. MessagesTyped' /\ ProjectionInv' /\ RevisionInv' /\ FocusInv'
  <2>1. m.q.kind # "around" /\ a.focus # 0 /\ (readBacks' = 0 \/ Stays(a.focus))
            => stored'[a.focus].live
    <3> SUFFICES ASSUME m.q.kind # "around", f # 0, readBacks' = 0 \/ Stays(f)
                 PROVE  stored'[f].live
      BY <1>9
    <3>1. After(m.q)[f].live
      BY <1>1, <1>2, <1>5, <1>9, <1>11, FocusLives
    <3> QED BY <1>1, <3>1
  <2>2. /\ Grown(stored') /\ InSections(stored') /\ LiveMade(stored')
        /\ a.revision <= Revision(stored')
    <3>1. Revision(st) \in Nat
      BY <1>7, RevisionIs DEF Grown
    <3> HIDE DEF a, out, st
    <3> QED BY <1>1, <1>3, <1>7, <1>8, <3>1
  <2> HIDE DEF a
  <2> QED BY <1>1, <1>9, <1>10, <1>11, <2>1, <2>2, KeptAsIs
<1> HIDE DEF out, a, st, q
<1>13. /\ files'.id = q.review /\ files'.heavy = order /\ files' # Nowhere
       /\ files'.light.version = out.review.version /\ files'.light.sources = sources
       /\ files'.light.served = out.review.served
  BY <1>1, <1>2, <1>3, <1>4, FilesFitAs
<1>14. held'.id = q.review /\ held'.review = out.review
  BY <1>1
<1>15. FilesInv'
  <2>1. held' # Nowhere =>
          /\ files' # Nowhere /\ files'.id = held'.id
          /\ mark' = held'.review.version /\ files'.light.version = held'.review.version
          /\ files'.heavy = held'.review.order /\ files'.light.sources = held'.review.sources
    BY <1>1, <1>13, <1>14
  <2>2. \A o \in flight' : o.q.kind = "open" => o.a = <<>>
    BY <1>2, <1>4, <1>10, OpeningIsNoKind DEF q
  <2> QED BY <1>1, <1>4, <1>13, <2>1, <2>2 DEF FilesInv
<1>16. ServedTyped'
  BY <1>9, <1>13, <1>14 DEF ServedTyped
<1>17. \A c \in Cards : (Sure(c))' => Sure(c)
  BY <1>4, <1>11 DEF Sure, Stays
<1>18. OrderInv'
  <2>1. ASSUME NEW rev \in Nat,
               q.kind \in Focal \/ KnownAt(rev)
        PROVE  \A c \in Cards : (Sure(c))' /\ stored'[c].rev <= rev =>
                   Right(files'.heavy, stored', files'.light.sources, c)
    <3> TAKE c \in Cards
    <3> HAVE (Sure(c))' /\ stored'[c].rev <= rev
    <3>1. Sure(c)
      BY <1>17
    <3>2. stored[c].rev <= rev
      <4>1. stored[c].rev <= st[c].rev /\ stored[c].rev \in Nat /\ st[c].rev \in Nat
        BY <1>7, GrownIs DEF Grown, Projection
      <4> QED BY <1>1, <4>1
    <3>3. q.kind \in Focal \/ Right(files.heavy, stored, files.light.sources, c)
      BY <2>1, <3>1, <3>2 DEF KnownAt
    <3> QED BY <1>1, <1>6, <1>13, <3>1, <3>3
  <2>2. q.kind \in Focal \/ KnownAt(client.revision)
    BY <1>4 DEF Kept, OrderInv
  <2>3. (KnownAt(client.revision))'
    <3>1. client.revision \in Nat
      BY DEF Kept, Shapes, ClientFits
    <3> QED BY <1>1, <2>1, <2>2, <3>1 DEF KnownAt
  <2>4. ASSUME NEW o \in flight', Brings(o), o.a[1].review = files'.id
        PROVE  (KnownAt(o.a[1].revision))'
    <3>1. o.a[1].revision \in Nat
      BY <1>2, <2>4 DEF Brings, Shapes, MessageFits, Delivered, IsAnswerTo
    <3>2. q.kind \in Focal \/ KnownAt(o.a[1].revision)
      <4>1. CASE o = n
        BY <1>2, <1>10, <2>4, <4>1, OpeningIsNoKind DEF Brings, q
      <4>2. CASE o \in flight
        BY <1>4, <1>13, <2>4, <4>2 DEF Kept, OrderInv
      <4> QED BY <1>10, <4>1, <4>2
    <3> QED BY <2>1, <3>1, <3>2 DEF KnownAt
  <2>5. /\ Sound(files'.heavy)
        /\ \A c \in Ids(files'.heavy) : Made(stored', c)
        /\ \A c \in Ids(files'.heavy) : (Sure(c))' => SourceOf[c] \in files'.light.sources
        /\ \A c \in Cards : Stays(c) => SourceOf[c] \in files'.light.sources
    BY <1>1, <1>6, <1>13, <1>17
  <2> QED BY <2>3, <2>4, <2>5 DEF OrderInv, Brings, Stays
<1> QED BY <1>2, <1>12, <1>15, <1>16, <1>18 DEF Kept

-----------------------------------------------------------------------------
(* What the client knows of the cards.                                     *)

(* The cards an answer sends are as they are stored; its rows' are served  *)
(* now, and sent where they are live.                                      *)
SendsAsStored(out, st) ==
    /\ \A c \in DOMAIN out.answer.cards : out.answer.cards[c] = st[c].rev
    /\ \A c \in RowCards(out.answer) :
          c \in out.review.served /\ (st[c].live => c \in DOMAIN out.answer.cards)

(* While the list stays, what was served stays so, and what changed of it  *)
(* is sent.                                                                *)
SendsServed(out, r, st, changed) ==
    out.review.version = r.version =>
        /\ r.served \subseteq out.review.served
        /\ \A c \in changed \cap r.served : st[c].live => c \in DOMAIN out.answer.cards

(* An answer sends its rows' cards and those that changed.                 *)
LEMMA AnswerSends ==
  ASSUME NEW r, IsReview(r), NEW st, NEW window, NEW replace, NEW focus, NEW changed, NEW removed
  PROVE  LET out == Answered(r, st, window, replace, focus, changed, removed) IN
         /\ SendsAsStored(out, st)
         /\ \A b : r.served = b.served /\ (replace <=> r.version # b.version) =>
                       SendsServed(out, b, st, changed)
<1> DEFINE out == Answered(r, st, window, replace, focus, changed, removed)
           rows == RowsOf(r)
           sending == Sending(r, window, replace)
           sent == Sent(r, window, replace, changed)
           l == ListSent(r, window, replace)
<1>1. AnswerOf(out, r, st, window, replace, focus, changed, removed)
  BY AnswerIs, Zenon
<1> HIDE DEF out
<1>2. /\ out.review.version = r.version
      /\ out.review.served = Served(r, replace) \cup sent
      /\ out.answer.layout = IF ~replace /\ window = NoWindow THEN <<>> ELSE <<l>>
      /\ out.answer.cards = CardsSent(sent, st)
  BY <1>1 DEF AnswerOf
<1>3. sent = {rows[i].id : i \in {j \in sending : IsCard(rows[j])}} \cup (changed \cap Served(r, replace))
  BY Zenon DEF Sent
<1>4. l.rows = [i \in sending |-> rows[i]]
  BY DEF ListSent
<1> HIDE DEF sent, sending, rows, l
<1>5. /\ DOMAIN out.answer.cards = {d \in sent : st[d].live}
      /\ \A c \in DOMAIN out.answer.cards : out.answer.cards[c] = st[c].rev
  BY <1>2 DEF CardsSent
<1>6. DOMAIN l.rows = sending /\ \A i \in sending : l.rows[i] = rows[i]
  BY <1>4
<1>7. RowCards(out.answer) \subseteq sent
  <2>1. CASE out.answer.layout = <<>>
    BY <2>1 DEF RowCards
  <2>2. CASE out.answer.layout # <<>>
    <3>1. out.answer.layout # <<>> /\ out.answer.layout[1] = l
      BY <1>2, <2>2
    <3>2. RowCards(out.answer) = {l.rows[i].id : i \in {j \in DOMAIN l.rows : IsCardRow(l.rows[j])}}
      BY <3>1 DEF RowCards
    <3>3. \A i \in DOMAIN l.rows : IsCardRow(l.rows[i]) => l.rows[i].id \in sent
      BY <1>3, <1>6 DEF IsCard, IsCardRow
    <3> QED BY <3>2, <3>3
  <2> QED BY <2>1, <2>2
<1>8. SendsAsStored(out, st)
  BY <1>2, <1>5, <1>7 DEF SendsAsStored
<1>9. ASSUME NEW b, r.served = b.served, replace <=> r.version # b.version
      PROVE  SendsServed(out, b, st, changed)
  <2>1. ~replace => Served(r, replace) = r.served
    BY DEF Served
  <2> QED BY <1>2, <1>3, <1>5, <1>9, <2>1 DEF SendsServed
<1> QED BY <1>8, <1>9 DEF out

(* What a read of a window sends.                                          *)
LEMMA ReadsSend ==
  ASSUME NEW r, IsReview(r), NEW st
  PROVE  /\ \A ctx, start, count :
               LET out == ReadRows(r, st, ctx, start, count) IN
               SendsAsStored(out, st) /\ SendsServed(out, r, st, {})
         /\ \A id : LET out == ReadAround(r, st, id) IN
                    SendsAsStored(out, st) /\ SendsServed(out, r, st, {})
         /\ \A ctx, section, open :
               LET out == SetSection(r, st, ctx, section, open) IN
               SendsAsStored(out, st) /\ SendsServed(out, r, st, {})
<1> DEFINE none == {}
<1>0. ASSUME NEW now, IsReview(now), now.served = r.served, NEW window, NEW replace, NEW focus,
             replace <=> now.version # r.version,
             NEW out, out = Answered(now, st, window, replace, focus, none, none)
      PROVE  SendsAsStored(out, st) /\ SendsServed(out, r, st, none)
  <2> HIDE DEF none
  <2> QED BY <1>0, AnswerSends
<1>1. ASSUME NEW ctx, NEW start, NEW count
      PROVE  LET out == ReadRows(r, st, ctx, start, count) IN
             SendsAsStored(out, st) /\ SendsServed(out, r, st, none)
  <2> DEFINE now == At(r, ctx.current)
             window == RowsFrom(RowsOf(now), start, Min({count, RowsAtMost}))
             replace == now.version # r.version
             out == ReadRows(r, st, ctx, start, count)
  <2>1. IsReview(now) /\ now.served = r.served
    BY AtIs
  <2>2. out = Answered(now, st, window, replace, 0, none, none)
    BY Zenon DEF ReadRows
  <2>3. replace <=> now.version # r.version
    OBVIOUS
  <2> HIDE DEF now, window, replace, out, none
  <2> QED BY <1>0, <2>1, <2>2, <2>3 DEF out
<1>2. ASSUME NEW id
      PROVE  LET out == ReadAround(r, st, id) IN
             SendsAsStored(out, st) /\ SendsServed(out, r, st, none)
  <2> DEFINE now == At(r, id)
             window == WindowAround(RowsOf(now), id)
             replace == now.version # r.version
             out == ReadAround(r, st, id)
  <2>1. IsReview(now) /\ now.served = r.served
    BY AtIs
  <2>2. out = Answered(now, st, window, replace, id, none, none)
    BY Zenon DEF ReadAround
  <2>3. replace <=> now.version # r.version
    OBVIOUS
  <2> HIDE DEF now, window, replace, out, none
  <2> QED BY <1>0, <2>1, <2>2, <2>3 DEF out
<1>3. ASSUME NEW ctx, NEW section, NEW open
      PROVE  LET out == SetSection(r, st, ctx, section, open) IN
             SendsAsStored(out, st) /\ SendsServed(out, r, st, none)
  <2> DEFINE opened == IF open THEN r.opened \cup {section} ELSE r.opened \ {section}
             q == [r EXCEPT !.opened = opened]
             now == At(q, ctx.current)
             replace == now.version # r.version
             out == SetSection(r, st, ctx, section, open)
  <2>1. IsReview(q) /\ q.served = r.served
    <3>1. q = [sources |-> r.sources, order |-> r.order, opened |-> opened,
               served |-> r.served, current |-> r.current, version |-> r.version,
               shown |-> r.shown]
      <4> HIDE DEF opened
      <4> QED BY DEF IsReview
    <3> HIDE DEF q
    <3>2. /\ q.sources = r.sources /\ q.order = r.order /\ q.opened = opened
          /\ q.served = r.served /\ q.current = r.current /\ q.version = r.version
          /\ q.shown = r.shown
      BY <3>1
    <3> QED BY <3>1, <3>2 DEF IsReview
  <2>2. out = Answered(now, st, none, replace, 0, none, none)
    BY Zenon DEF SetSection
  <2>3. replace <=> now.version # r.version
    OBVIOUS
  <2> HIDE DEF q
  <2>4. IsReview(now) /\ now.served = r.served
    BY <2>1, AtIs
  <2> HIDE DEF now, replace, out, none
  <2> QED BY <1>0, <2>2, <2>3, <2>4 DEF out
<1> QED BY <1>1, <1>2, <1>3

(* A death between the writes of the two files: the change is stored, the  *)
(* heavy file may be ahead of the light one.                               *)
LEMMA DiedKept ==
  ASSUME Kept, DieWriting
  PROVE  Kept'
<1>1. PICK m \in flight :
        /\ Serves(m) /\ held.id = m.q.review
        /\ files' = [files EXCEPT !.heavy = HeavyAfter(m.q, Outcome(m.q).review)]
        /\ stored' = After(m.q)
        /\ Answering(m, Refused)
  BY Zenon DEF DieWriting
<1> DEFINE q == m.q
           out == Outcome(q)
           order == out.review.order
           sources == out.review.sources
           st == After(q)
<1>2. /\ held' = Nowhere
      /\ client' = client /\ members' = members /\ readBacks' = readBacks
      /\ Holds(q) /\ MayWrite(q) /\ q.kind \in Kinds
  <2>1. q.kind \in Kinds
    BY <1>1 DEF Serves, Kept, Shapes, MessageFits
  <2> QED BY <1>1, <2>1 DEF DieWriting, screen, Serves
<1>3. Shapes'
  BY FailedShapes DEF Kept
<1>4. /\ RequestTyped(q)
      /\ HeavyAfter(q, out.review) = out.review.order
      /\ files # Nowhere /\ files.id = client.review /\ q.review = client.review
      /\ \A n \in flight : n.q.kind = "open" => n.a = <<>>
  BY <1>2, OutcomeLeaves
<1>6. /\ Sound(order)
      /\ \A c \in Ids(order) : c \in Cards /\ Made(st, c)
      /\ \A c \in Ids(order) : Sure(c) => SourceOf[c] \in sources
      /\ \A c \in Cards : Stays(c) => SourceOf[c] \in sources /\ SourceOf[c] \in files.light.sources
      /\ \A c \in Cards :
            Sure(c) /\ (q.kind \in Focal \/ Right(files.heavy, stored, files.light.sources, c))
            => Right(order, st, sources, c)
  BY <1>2, LeftRight
<1>7. Projection(stored) /\ Grown(st) /\ LiveMade(st) /\ InSections(st)
  BY <1>4, AfterGrown, AfterSections DEF Kept, Shapes, ProjectionInv
<1>10. PICK n : n.q = m.q /\ n.a = <<n.a[1]>> /\ n.a[1] = Refused /\ flight' = (flight \ {m}) \cup {n}
  <2>1. PICK n : n.q = m.q /\ n.a = <<Refused>> /\ n.a[1] = Refused
                 /\ flight' = (flight \ {m}) \cup {n}
    BY <1>1, AnsweredAre DEF Kept
  <2> QED BY <2>1
<1>11. readBacks' \in Nat /\ readBacks' >= readBacks
  BY <1>2 DEF Kept, Shapes
<1>0. ~IsAnswer(n.a[1])
  BY <1>10, RefusalsAre
<1>12. MessagesTyped' /\ ProjectionInv' /\ RevisionInv' /\ FocusInv'
  BY <1>0, <1>1, <1>2, <1>7, <1>10, <1>11, KeptAsIs
<1> HIDE DEF out, st, q
<1>13. files'.id = files.id /\ files'.heavy = order /\ files'.light = files.light /\ files' # Nowhere
  <2> DEFINE heavy == HeavyAfter(q, out.review)
  <2>1. files' = [files EXCEPT !.heavy = heavy] /\ heavy = order
    BY <1>1, <1>4 DEF q, out
  <2>2. files = [id |-> files.id, heavy |-> files.heavy, light |-> files.light]
        /\ files.id \in Nat \ {0}
    BY <1>4 DEF Kept, Shapes, FilesFit
  <2> HIDE DEF heavy, order
  <2>3. files' = [id |-> files.id, heavy |-> heavy, light |-> files.light]
    BY <2>1, <2>2
  <2>4. files'.id = files.id /\ files'.heavy = heavy /\ files'.light = files.light
    BY <2>3
  <2>5. files' # Nowhere
    BY <2>2, <2>4, NowhereIs
  <2> QED BY <2>1, <2>4, <2>5
<1>15. FilesInv'
  <2>1. \A o \in flight' : o.q.kind = "open" => o.a = <<>>
    BY <1>2, <1>4, <1>10, OpeningIsNoKind DEF q
  <2> QED BY <1>2, <1>4, <1>13, <2>1 DEF FilesInv
<1>16. ServedTyped'
  BY <1>2, <1>4, <1>13 DEF Kept, ServedTyped
<1>17. \A c \in Cards : (Sure(c))' => Stays(c) /\ Sure(c)
  BY <1>2 DEF Sure, Stays
<1>18. OrderInv'
  <2>1. ASSUME NEW rev \in Nat,
               q.kind \in Focal \/ KnownAt(rev)
        PROVE  \A c \in Cards : (Sure(c))' /\ stored'[c].rev <= rev =>
                   Right(files'.heavy, stored', files'.light.sources, c)
    <3> TAKE c \in Cards
    <3> HAVE (Sure(c))' /\ stored'[c].rev <= rev
    <3>1. Sure(c) /\ Stays(c)
      BY <1>17
    <3>2. stored[c].rev <= rev
      <4>1. stored[c].rev <= st[c].rev /\ stored[c].rev \in Nat /\ st[c].rev \in Nat
        BY <1>7, GrownIs DEF Grown, Projection
      <4> QED BY <1>1, <4>1 DEF st, q
    <3>3. q.kind \in Focal \/ Right(files.heavy, stored, files.light.sources, c)
      BY <2>1, <3>1, <3>2 DEF KnownAt
    <3>4. Right(order, st, sources, c)
      BY <1>6, <3>1, <3>3
    <3>5. Right(order, st, files.light.sources, c)
      BY <1>6, <3>1, <3>4 DEF Right
    <3> QED BY <1>1, <1>13, <3>5 DEF st, q
  <2>2. q.kind \in Focal \/ KnownAt(client.revision)
    BY <1>4 DEF Kept, OrderInv
  <2>3. (KnownAt(client.revision))'
    <3>1. client.revision \in Nat
      BY DEF Kept, Shapes, ClientFits
    <3> QED BY <1>2, <2>1, <2>2, <3>1 DEF KnownAt
  <2>4. ASSUME NEW o \in flight', Brings(o), o.a[1].review = files'.id
        PROVE  (KnownAt(o.a[1].revision))'
    <3>1. o.a[1].revision \in Nat
      BY <1>3, <2>4 DEF Brings, Shapes, MessageFits, Delivered, IsAnswerTo
    <3>2. o \in flight
      BY <1>0, <1>10, <2>4 DEF Brings
    <3>3. q.kind \in Focal \/ KnownAt(o.a[1].revision)
      BY <1>4, <1>13, <2>4, <3>2 DEF Kept, OrderInv
    <3> QED BY <2>1, <3>1, <3>3 DEF KnownAt
  <2>5. /\ Sound(files'.heavy)
        /\ \A c \in Ids(files'.heavy) : Made(stored', c)
        /\ \A c \in Cards : Stays(c) => SourceOf[c] \in files'.light.sources
        /\ \A c \in Ids(files'.heavy) : (Sure(c))' => SourceOf[c] \in files'.light.sources
    BY <1>1, <1>6, <1>13, <1>17 DEF st, q
  <2> QED BY <2>3, <2>4, <2>5 DEF OrderInv, Brings, Stays
<1> QED BY <1>3, <1>12, <1>15, <1>16, <1>18 DEF Kept

(* What an opening leaves and answers: the order as the projection has it, *)
(* cards there are, the revision there is.                                 *)
LEMMA OpeningHolds ==
  ASSUME Projection(stored), InSections(stored), NEW sections, NEW current,
         NEW o, o = OpeningOf(sections, current), NEW id \in Nat \ {0},
         NEW a, a = OfReview(o.answer, id), NEW r, r = o.review,
         NEW f, f = Written(id, [r EXCEPT !.served = {}])
  PROVE  /\ IsReview(r) /\ r.version = 0 /\ r.sources = members /\ Sound(r.order)
         /\ \A c : c \in Ids(r.order) <=> c \in LiveIn(stored, members)
         /\ \A c \in Cards : Right(r.order, stored, members, c)
         /\ AnswerTyped(a) /\ r.served \subseteq Cards
         /\ SendsAsStored(o, stored) /\ RowCards(o.answer) \subseteq Ids(r.order)
         /\ a.revision = Revision(stored) /\ a.focus \in LiveIn(stored, members) \cup {0}
         /\ f # Nowhere /\ f.id = id /\ f.heavy = r.order /\ f.light.version = r.version
         /\ f.light.sources = r.sources /\ f.light.served = {}
<1>4. /\ IsReview(r) /\ r.version = 0
      /\ r.sources = members /\ r.order = OpenedOrder(stored, members)
      /\ r.current = InitialFocus(r.order, DoneIn(stored), current)
      /\ o.answer.focus = r.current
      /\ o.answer.revision = Revision(stored)
  BY OpeningIs
<1>5. /\ f.id = id /\ f.heavy = r.order /\ f.light.version = r.version
      /\ f.light.sources = r.sources /\ f.light.served = {}
  <2>1. IsReview(r) /\ f = Written(id, [r EXCEPT !.served = {}])
    BY <1>4
  <2> QED BY <2>1, WrittenIs
<1>6. f # Nowhere
  <2>1. f.id # 0
    BY <1>5
  <2> QED BY <2>1, NowhereIs
<1>7. /\ Sound(r.order)
      /\ \A c : c \in Ids(r.order) <=> c \in LiveIn(stored, members)
      /\ \A c \in Ids(r.order) : CardOf(r.order, c).section = stored[c].section
  <2> DEFINE s == OpenedOrder(stored, members)
  <2>1. /\ Sound(s)
        /\ \A c : c \in Ids(s) <=> c \in LiveIn(stored, members)
        /\ \A c \in Ids(s) : CardOf(s, c).section = stored[c].section
    BY OpenedOrderIs
  <2> HIDE DEF s
  <2>2. r.order = s
    BY <1>4 DEF s
  <2> QED BY <2>1, <2>2
<1>8. \A c \in Cards : Right(r.order, stored, members, c)
  BY <1>7 DEF Right, LiveIn
<1>9. o.answer.focus \in LiveIn(stored, members) \cup {0}
  BY <1>4, <1>7, InitialFocusIs
<1>10. /\ a.revision = o.answer.revision /\ a.focus = o.answer.focus
       /\ a.layout = o.answer.layout /\ a.cards = o.answer.cards
  BY OfReviewIs
<1>11. /\ AnswerTyped(a) /\ r.served \subseteq Cards
       /\ SendsAsStored(o, stored) /\ RowCards(o.answer) \subseteq Ids(r.order)
  <2> DEFINE p == Laid(Opened(stored, members, sections, current))
             yes == TRUE
             none == {}
  <2>1. o = Answered(p, stored, NoWindow, yes, p.current, none, none)
    BY Zenon DEF OpeningOf
  <2>2. IsReview(p) /\ p.order = OpenedOrder(stored, members) /\ p.served = {}
    <3> DEFINE g == Opened(stored, members, sections, current)
               shown == <<Unfolded(g.order, g.opened, g.current)>>
    <3>1. g = [sources |-> members, order |-> OpenedOrder(stored, members),
               opened |-> sections, served |-> {},
               current |-> InitialFocus(OpenedOrder(stored, members), DoneIn(stored), current),
               version |-> 0, shown |-> <<>>]
      BY Zenon DEF Opened
    <3> HIDE DEF g
    <3>2. /\ g.order = OpenedOrder(stored, members) /\ g.served = {} /\ g.version = 0
          /\ g.shown = <<>>
          /\ g = [sources |-> g.sources, order |-> g.order, opened |-> g.opened,
                  served |-> g.served, current |-> g.current, version |-> g.version,
                  shown |-> g.shown]
      BY <3>1
    <3>3. p = [g EXCEPT !.shown = shown, !.version = IF g.shown = <<>> THEN @ ELSE @ + 1]
      <4>1. g.shown # shown
        BY <3>2
      <4>2. p = Laid(g)
        BY Zenon DEF g
      <4> QED BY <4>1, <4>2 DEF Laid
    <3>4. shown = <<shown[1]>>
      OBVIOUS
    <3> HIDE DEF shown, p
    <3>5. p = [sources |-> g.sources, order |-> g.order, opened |-> g.opened,
               served |-> g.served, current |-> g.current, version |-> g.version,
               shown |-> shown]
      BY <3>2, <3>3
    <3>6. /\ p.order = g.order /\ p.served = g.served /\ p.version = g.version
          /\ p.shown = shown /\ p.sources = g.sources /\ p.opened = g.opened
          /\ p.current = g.current
      BY <3>5
    <3>7. IsReview(p)
      BY <3>2, <3>4, <3>5, <3>6 DEF IsReview
    <3> QED BY <3>2, <3>6, <3>7
  <2> HIDE DEF p, yes
  <2>3. Sound(p.order) /\ p.served \subseteq Cards
    BY <1>4, <1>7, <2>2
  <2>4. NoWindow \ NoWindow \subseteq DOMAIN RowsOf(p)
    OBVIOUS
  <2>5. OutcomeOf(Answered(p, stored, NoWindow, yes, p.current, none, none),
                  p.order, p.sources, p.current)
    <3> DEFINE window == NoWindow
    <3>1. window \ NoWindow \subseteq DOMAIN RowsOf(p)
      BY <2>4
    <3> HIDE DEF window, none
    <3>2. OutcomeOf(Answered(p, stored, window, yes, p.current, none, none),
                    p.order, p.sources, p.current)
      BY <2>2, <2>3, <3>1, AnswerHolds, Zenon
    <3> QED BY <3>2 DEF window
  <2>6. OutcomeOf(o, p.order, p.sources, p.current)
    BY <2>1, <2>5
  <2>7. /\ r.served \subseteq Cards
        /\ DOMAIN o.answer.cards \subseteq Cards
        /\ o.answer.layout # <<>> => RowsTyped(o.answer.layout[1].rows)
        /\ RowCards(o.answer) \subseteq Ids(p.order)
    BY <2>6 DEF OutcomeOf
  <2>8. a.focus \in Cards \cup {0}
    BY <1>9, <1>10 DEF LiveIn
  <2>9. SendsAsStored(o, stored)
    <3> DEFINE window == NoWindow
    <3> HIDE DEF none, window
    <3>1. SendsAsStored(Answered(p, stored, window, yes, p.current, none, none), stored)
      BY <2>2, AnswerSends
    <3> QED BY <2>1, <3>1 DEF window
  <2>10. p.order = r.order
    BY <2>6 DEF OutcomeOf
  <2> QED BY <1>10, <2>7, <2>8, <2>9, <2>10 DEF AnswerTyped
<1> QED BY <1>4, <1>5, <1>6, <1>7, <1>8, <1>9, <1>10, <1>11

(* An opening leaves the order as the projection has it.                   *)
LEMMA OpenedKept ==
  ASSUME Kept, NEW m \in flight, OpensOne(m)
  PROVE  Kept'
<1> DEFINE o == OpeningOf(m.q.sections, m.q.current)
           id == client.review + 1
           a == OfReview(o.answer, id)
           r == o.review
<1>1. /\ Shapes' /\ client.review \in Nat \ {0} /\ m.q.review = client.review
      /\ held'.id = id /\ held'.review = r /\ held' # Nowhere
      /\ IsAnswer(a) /\ a.review = id
  BY OpenedShapes DEF Kept
<1>2. /\ m.q.kind = "open" /\ m.a = <<>>
      /\ files' = Written(id, [r EXCEPT !.served = {}])
      /\ mark' = 0 /\ Answering(m, a)
      /\ stored' = stored /\ members' = members /\ client' = client /\ readBacks' = readBacks
  BY <1>1, Zenon DEF OpensOne
<1>3. Projection(stored) /\ InSections(stored) /\ LiveMade(stored)
  BY DEF Kept, Shapes, ProjectionInv
<1>4. /\ IsReview(r) /\ r.version = 0 /\ r.sources = members /\ Sound(r.order)
      /\ \A c : c \in Ids(r.order) <=> c \in LiveIn(stored, members)
      /\ \A c \in Cards : Right(r.order, stored, members, c)
      /\ AnswerTyped(a) /\ r.served \subseteq Cards
      /\ a.revision = Revision(stored) /\ a.focus \in LiveIn(stored, members) \cup {0}
      /\ files' # Nowhere /\ files'.id = id /\ files'.heavy = r.order
      /\ files'.light.version = r.version
      /\ files'.light.sources = r.sources /\ files'.light.served = {}
  <2>1. id \in Nat \ {0}
    BY <1>1
  <2> HIDE DEF id
  <2> QED BY <1>2, <1>3, <2>1, OpeningHolds
<1>12. PICK n : n.q = m.q /\ n.a = <<n.a[1]>> /\ n.a[1] = a /\ flight' = (flight \ {m}) \cup {n}
  <2> HIDE DEF a
  <2>1. PICK n : n.q = m.q /\ n.a = <<a>> /\ n.a[1] = a /\ flight' = (flight \ {m}) \cup {n}
    BY <1>2, AnsweredAre DEF Kept
  <2> QED BY <2>1
<1>13. MessagesTyped' /\ ProjectionInv' /\ RevisionInv' /\ FocusInv'
  <2>1. Grown(stored') /\ readBacks' \in Nat /\ readBacks' >= readBacks
    BY <1>2, <1>3 DEF Grown, Kept, Shapes
  <2>2. Revision(stored) \in Nat
    BY <1>3, RevisionIs
  <2>3. a.revision <= Revision(stored')
    <3> HIDE DEF a
    <3> QED BY <1>2, <1>4, <2>2
  <2>4. a.focus # 0 => stored'[a.focus].live
    <3> HIDE DEF a
    <3> QED BY <1>2, <1>4 DEF LiveIn
  <2> HIDE DEF a
  <2> QED BY <1>2, <1>3, <1>4, <1>12, <2>1, <2>3, <2>4, KeptAsIs
<1> HIDE DEF a
<1>14. FilesInv'
  <2>1. files'.id = client'.review + 1 /\ files'.id # client'.review
    BY <1>1, <1>2, <1>4
  <2>2. /\ held'.id = id /\ held'.review = r /\ files'.id = id /\ files'.heavy = r.order
        /\ files'.light.version = r.version /\ files'.light.sources = r.sources
        /\ mark' = r.version
    BY <1>1, <1>2, <1>4
  <2> HIDE DEF id, r
  <2> QED BY <1>4, <2>1, <2>2 DEF FilesInv
<1>15. ServedTyped'
  BY <1>1, <1>4 DEF ServedTyped
<1>16. OrderInv'
  <2>1. \A c \in Cards : Right(files'.heavy, stored', files'.light.sources, c)
    BY <1>2, <1>4
  <2>2. /\ Sound(files'.heavy)
        /\ \A c \in Ids(files'.heavy) : Made(stored', c)
        /\ \A c \in Ids(files'.heavy) : SourceOf[c] \in files'.light.sources
    BY <1>2, <1>3, <1>4 DEF LiveIn, LiveMade
  <2>3. \A c \in Cards : Stays(c) => SourceOf[c] \in files'.light.sources
    BY <1>4 DEF Kept, ProjectionInv
  <2> QED BY <2>1, <2>2, <2>3 DEF OrderInv, KnownAt, Stays
<1> QED BY <1>1, <1>13, <1>14, <1>15, <1>16 DEF Kept

(* A message that asks or tells nothing new: it was there, or it is a      *)
(* request or a refusal.                                                   *)
Quiet(n) ==
    \/ n \in flight
    \/ /\ RequestTyped(n.q)
       /\ n.a = <<>> \/ (n.q.kind # "open" /\ ~IsAnswer(n.a[1]))
       /\ n.q.kind # "open" /\ n.q.review = client.review => n.q.since <= client.revision

(* Steps that leave the projection and the order alone.                    *)
LEMMA QuietKept ==
  ASSUME Kept, Shapes', stored' = stored, readBacks' = readBacks,
         \/ held' \in {held, Nowhere} /\ files' = files /\ mark' = mark
         \/ held' = Nowhere /\ files' = Nowhere,
         client'.review = client.review, client'.revision = client.revision,
         \A c \in Cards : Stays(c) /\ SourceOf[c] \in members => SourceOf[c] \in members',
         \A n \in flight' : Quiet(n)
  PROVE  Kept'
<1>1. MessagesTyped'
  BY DEF Kept, MessagesTyped, Quiet
<1>2. ServedTyped'
  BY DEF Kept, ServedTyped
<1>3. FilesInv'
  BY DEF Kept, FilesInv, Quiet
<1>4. ProjectionInv'
  BY DEF Kept, ProjectionInv, Stays
<1>5. RevisionInv'
  BY DEF Kept, RevisionInv, Quiet
<1>6. \A c \in Cards : (Sure(c))' => Sure(c)
  BY DEF Sure, Stays
<1>7. OrderInv'
  <2> SUFFICES ASSUME files' # Nowhere PROVE OrderInv'
    BY DEF OrderInv
  <2>1. files' = files /\ files # Nowhere
    OBVIOUS
  <2>2. \A rev : KnownAt(rev) => (\A c \in Cards : (Sure(c))' /\ stored'[c].rev <= rev =>
                   Right(files'.heavy, stored', files'.light.sources, c))
    BY <1>6, <2>1 DEF KnownAt
  <2>3. files'.id = client'.review => (KnownAt(client.revision))'
    <3>1. files.id = client.review => KnownAt(client.revision)
      BY <2>1 DEF Kept, OrderInv
    <3> QED BY <2>1, <2>2, <3>1 DEF KnownAt
  <2>4. ASSUME NEW n \in flight', Brings(n), n.a[1].review = files'.id
        PROVE  (KnownAt(n.a[1].revision))'
    <3>1. n \in flight
      BY <2>4 DEF Brings, Quiet
    <3>2. KnownAt(n.a[1].revision)
      BY <2>1, <2>4, <3>1 DEF Kept, OrderInv
    <3> QED BY <2>2, <3>2 DEF KnownAt
  <2>5. /\ Sound(files'.heavy)
        /\ \A c \in Ids(files'.heavy) : Made(stored', c)
        /\ \A c \in Cards : Stays(c) => SourceOf[c] \in files'.light.sources
        /\ \A c \in Ids(files'.heavy) : Sure(c) => SourceOf[c] \in files'.light.sources
    BY <2>1 DEF Kept, OrderInv
  <2>6. \A c \in Ids(files'.heavy) : (Sure(c))' => SourceOf[c] \in files'.light.sources
    <3>1. files'.heavy \in Seq(HeldSet) /\ Once(files'.heavy)
      BY <2>5 DEF Sound
    <3>2. Ids(files'.heavy) \subseteq Cards
      BY <3>1, CardsOfOrder
    <3> QED BY <1>6, <2>5, <3>2
  <2> QED BY <2>3, <2>4, <2>5, <2>6 DEF OrderInv, Brings, Stays
<1>8. FocusInv'
  BY DEF Kept, FocusInv, Quiet, Stays
<1> QED BY <1>1, <1>2, <1>3, <1>4, <1>5, <1>7, <1>8 DEF Kept

(* The set, the card on the screen, the store's memory.                    *)
LEMMA OtherKept ==
  ASSUME Kept, SetChanges \/ MoveTo \/ LetGo \/ NewCode
  PROVE  Kept'
<1>0. Shapes' /\ IsClient(client)
  BY OtherShapes DEF Kept, Shapes, ClientFits
<1>1. CASE SetChanges
  <2>1. UNCHANGED <<stored, client, held, files, mark, flight, readBacks>>
    BY <1>1 DEF SetChanges, Outside, store, screen
  <2>2. \E s \in MayLeave : members' = IF s \in members THEN members \ {s} ELSE members \cup {s}
    BY <1>1 DEF SetChanges
  <2>3. \A c \in Cards : Stays(c) /\ SourceOf[c] \in members => SourceOf[c] \in members'
    BY <2>2 DEF Stays
  <2> QED BY <1>0, <2>1, <2>3, QuietKept DEF Quiet
<1>2. CASE MoveTo
  <2>1. PICK c \in Loaded(client) \ {client.current} : client' = WithCurrent(client, c)
    BY <1>2, Zenon DEF MoveTo
  <2>2. OnlyMoved(client', client)
    BY <1>0, <2>1, WithCurrentIs
  <2>3. UNCHANGED <<stored, members, held, files, mark, flight, readBacks>>
    BY <1>2 DEF MoveTo, store
  <2> QED BY <1>0, <2>2, <2>3, QuietKept DEF Quiet, OnlyMoved
<1>3. CASE LetGo
  <2>1. held' = Nowhere /\ UNCHANGED <<stored, members, files, mark, client, flight, readBacks>>
    BY <1>3 DEF LetGo, screen
  <2> QED BY <1>0, <2>1, QuietKept DEF Quiet
<1>4. CASE NewCode
  <2>1. /\ held' = Nowhere /\ files' = Nowhere
        /\ UNCHANGED <<stored, members, client, flight, readBacks>>
    BY <1>4 DEF NewCode, screen
  <2> QED BY <1>0, <2>1, QuietKept DEF Quiet
<1> QED BY <1>1, <1>2, <1>3, <1>4

(* The cards of the loaded rows are cards there are.                       *)
LEMMA LoadedAre ==
  ASSUME ClientTyped
  PROVE  Loaded(client) \subseteq Cards
BY DEF ClientTyped, RowsTyped, Loaded

(* The client sends.                                                       *)
LEMMA SentKept ==
  ASSUME Kept, ClientTyped, SendSteps
  PROVE  Kept' /\ ClientTyped'
<1>1. PICK q : SendsOne(q)
  BY SendsAre
<1>2. /\ Sendable(q) /\ flight' = flight \cup {Asked(q)}
      /\ client' = client \/ \E c \in {client.current} \cup Loaded(client) : client' = WithCurrent(client, c)
      /\ UNCHANGED <<stored, members, held, files, mark, readBacks>>
  BY <1>1 DEF SendsOne
<1>3. Asked(q).q = q /\ Asked(q).a = <<>>
  BY DEF Asked
<1>4. Loaded(client) \subseteq Cards /\ client.current \in Cards \cup {0}
      /\ DOMAIN client.cards \subseteq Cards
  BY LoadedAre DEF ClientTyped
<1>5. RequestTyped(q) /\ q.since = client.revision /\ q.kind # "open"
  <2>1. client.revision \in Nat
    BY DEF Kept, Shapes, ClientFits
  <2> QED BY <1>2, <1>4, <2>1 DEF Sendable, RequestTyped
<1>6. Quiet(Asked(q))
  <2>1. client.revision <= client.revision
    BY DEF Kept, Shapes, ClientFits
  <2> QED BY <1>3, <1>5, <2>1 DEF Quiet
<1>7. \A n \in flight' : Quiet(n)
  BY <1>2, <1>6 DEF Quiet
<1>8. OnlyMoved(client', client) /\ client'.current \in Cards \cup {0}
  <2>1. IsClient(client)
    BY DEF Kept, Shapes, ClientFits
  <2>2. CASE client' = client
    BY <1>4, <2>1, <2>2 DEF OnlyMoved
  <2>3. CASE client' # client
    <3>1. PICK c \in {client.current} \cup Loaded(client) : client' = WithCurrent(client, c)
      BY <1>2, <2>3
    <3> QED BY <1>4, <2>1, <3>1, WithCurrentIs
  <2> QED BY <2>2, <2>3
<1>9. Shapes'
  BY SentShapes DEF Kept
<1>10. Kept'
  BY <1>2, <1>7, <1>8, <1>9, QuietKept DEF OnlyMoved
<1>11. ClientTyped'
  BY <1>8 DEF ClientTyped, OnlyMoved
<1> QED BY <1>10, <1>11

(* A refusal, and an answer that comes to nothing.                         *)
LEMMA RefusedKept ==
  ASSUME Kept, Refuse
  PROVE  Kept'
<1>1. PICK m \in flight :
        /\ m.q.kind # "open"
        /\ Answering(m, Refused) \/ Answering(m, Expired)
        /\ UNCHANGED <<stored, members, held, files, mark, client, readBacks>>
  BY Zenon DEF Refuse, store, screen
<1>2. PICK a : Answering(m, a) /\ ~IsAnswer(a)
  BY <1>1, RefusalsAre
<1>3. PICK n : n.q = m.q /\ n.a[1] = a /\ flight' = (flight \ {m}) \cup {n}
  BY <1>2, AnsweredAre DEF Kept
<1>4. Quiet(n)
  BY <1>1, <1>2, <1>3 DEF Quiet, Kept, MessagesTyped, RevisionInv
<1>5. \A o \in flight' : Quiet(o)
  BY <1>3, <1>4 DEF Quiet
<1>6. Shapes'
  BY FailedShapes DEF Kept
<1> QED BY <1>1, <1>5, <1>6, QuietKept

(* A failure leaves the review kept.                                       *)
LEMMA FallenKept ==
  ASSUME Kept, NEW m \in flight, Falls(m)
  PROVE  Kept'
<1>1. PICK more :
        /\ flight' = (flight \ {m}) \cup more
        /\ \A n \in more : n.a = <<>> /\ n.q.kind = "open"
  BY DEF Falls
<1>2. \A n \in flight' : Quiet(n)
  BY <1>1 DEF Quiet, RequestTyped
<1>3. /\ OnlyMoved(client', client)
      /\ UNCHANGED <<stored, members, held, files, mark, readBacks>>
  BY DEF Falls
<1>4. Shapes'
  BY FallenShapes DEF Kept
<1> QED BY <1>2, <1>3, <1>4, QuietKept DEF OnlyMoved

(* Work elsewhere leaves what a client knows as it is: a changed card has  *)
(* a revision nobody knows.                                                *)
LEMMA ElsewhereKept ==
  ASSUME Kept, Elsewhere
  PROVE  Kept'
<1>1. PICK c \in MayGo, live \in BOOLEAN, s \in {"ready", "reviewed"} :
        stored' = Wrote(c, live, s)
  BY Zenon DEF Elsewhere
<1>2. UNCHANGED <<members, client, held, files, mark, flight, readBacks>>
  BY DEF Elsewhere, Outside, store, screen
<1>3. Shapes'
  BY OtherShapes DEF Kept
<1>4. Projection(stored) /\ LiveMade(stored) /\ InSections(stored)
  BY DEF Kept, Shapes, ProjectionInv
<1>5. Grown(stored') /\ LiveMade(stored')
  <2>1. LET st == Wrote(c, live, s) IN Grown(st) /\ LiveMade(st)
    BY <1>4, WroteGrown
  <2> QED BY <1>1, <2>1
<1>6. InSections(stored')
  <2>1. SectionOrder[4] = "reviewed" /\ SectionOrder[1] = "ready" /\ {1, 4} \subseteq DOMAIN SectionOrder
    BY DEF SectionOrder
  <2>2. s \in Sections
    BY <2>1 DEF Sections
  <2>3. LET st == Wrote(c, live, s) IN
        /\ \A d \in Cards \ {c} : st[d] = stored[d]
        /\ c \in Cards => st[c] = [live |-> live, section |-> s, rev |-> Revision(stored) + 1]
    BY <1>4, WroteIs
  <2>4. /\ \A d \in Cards \ {c} : stored'[d] = stored[d]
        /\ c \in Cards => stored'[c].section = s
    BY <1>1, <2>3
  <2> QED BY <1>4, <2>2, <2>4 DEF InSections
<1>7. /\ Revision(stored) \in Nat /\ Revision(stored') \in Nat
      /\ Revision(stored) <= Revision(stored')
      /\ \A d \in Cards : stored'[d].rev <= Revision(stored) => stored'[d] = stored[d]
      /\ \A d \in Cards : stored'[d].rev \in Nat /\ stored[d].rev \in Nat
      /\ \A d \in Cards : stored[d].rev <= stored'[d].rev
  BY <1>4, <1>5, GrownIs DEF Grown, Projection
<1>8. \A m \in flight : m.a # <<>> /\ IsAnswer(m.a[1]) =>
          m.a[1].revision \in Nat /\ m.a[1].revision <= Revision(stored)
  BY DEF Kept, Shapes, MessageFits, Delivered, IsAnswerTo, RevisionInv
<1>9. client.revision \in Nat /\ client.revision <= Revision(stored)
  BY DEF Kept, Shapes, ClientFits, RevisionInv
<1>10. MessagesTyped' /\ ServedTyped' /\ FilesInv'
  BY <1>2 DEF Kept, MessagesTyped, ServedTyped, FilesInv
<1>11. ProjectionInv'
  BY <1>2, <1>5, <1>6 DEF Kept, ProjectionInv, Stays
<1>12. RevisionInv'
  <2>1. client'.revision <= Revision(stored)'
    BY <1>2, <1>7, <1>9
  <2>2. \A m \in flight' : m.a # <<>> /\ IsAnswer(m.a[1]) => m.a[1].revision <= Revision(stored)'
    BY <1>2, <1>7, <1>8
  <2> QED BY <1>2, <2>1, <2>2 DEF Kept, RevisionInv
<1>13. FocusInv'
  <2> SUFFICES ASSUME NEW m \in flight, m.a # <<>>, IsAnswer(m.a[1]), m.q.kind # "around",
                      NEW f, f = m.a[1].focus, f # 0, stored'[f].rev <= m.a[1].revision,
                      readBacks = 0 \/ Stays(f)
               PROVE  stored'[f].live
    BY <1>2 DEF FocusInv, Stays
  <2>1. f \in Cards
    BY DEF Kept, MessagesTyped, AnswerTyped
  <2>2. stored'[f] = stored[f]
    BY <1>7, <1>8, <2>1
  <2> QED BY <2>2 DEF Kept, FocusInv
<1>14. OrderInv'
  <2> SUFFICES ASSUME files # Nowhere PROVE OrderInv'
    BY <1>2 DEF OrderInv
  <2>1. ASSUME NEW rev \in Nat, rev <= Revision(stored), KnownAt(rev)
        PROVE  \A d \in Cards : (Sure(d))' /\ stored'[d].rev <= rev =>
                   Right(files'.heavy, stored', files'.light.sources, d)
    <3> TAKE d \in Cards
    <3> HAVE (Sure(d))' /\ stored'[d].rev <= rev
    <3>1. Sure(d)
      BY <1>2 DEF Sure, Stays
    <3>2. stored'[d] = stored[d]
      BY <1>7, <2>1
    <3>3. Right(files.heavy, stored, files.light.sources, d)
      BY <2>1, <3>1, <3>2 DEF KnownAt
    <3> QED BY <1>2, <3>2, <3>3 DEF Right
  <2>2. files'.id = client'.review => (KnownAt(client.revision))'
    <3>1. files.id = client.review => KnownAt(client.revision)
      BY DEF Kept, OrderInv
    <3> QED BY <1>2, <1>9, <2>1, <3>1 DEF KnownAt
  <2>3. ASSUME NEW m \in flight', Brings(m), m.a[1].review = files'.id
        PROVE  (KnownAt(m.a[1].revision))'
    <3>1. KnownAt(m.a[1].revision)
      BY <1>2, <2>3 DEF Kept, OrderInv
    <3> QED BY <1>2, <1>8, <2>1, <2>3, <3>1 DEF KnownAt, Brings
  <2>4. /\ Sound(files.heavy)
        /\ \A d \in Ids(files.heavy) : Made(stored, d)
        /\ \A d \in Cards : Stays(d) => SourceOf[d] \in files.light.sources
        /\ \A d \in Ids(files.heavy) : Sure(d) => SourceOf[d] \in files.light.sources
    BY DEF Kept, OrderInv
  <2>5. Ids(files.heavy) \subseteq Cards
    <3>1. files.heavy \in Seq(HeldSet) /\ Once(files.heavy)
      BY <2>4 DEF Sound
    <3> QED BY <3>1, CardsOfOrder
  <2>6. \A d \in Ids(files'.heavy) : Made(stored', d)
    BY <1>2, <1>7, <2>4, <2>5 DEF Made
  <2>7. \A d \in Ids(files'.heavy) : (Sure(d))' => SourceOf[d] \in files'.light.sources
    BY <1>2, <2>4 DEF Sure, Stays
  <2> QED BY <1>2, <2>2, <2>3, <2>4, <2>6, <2>7 DEF OrderInv, Brings, Stays
<1> QED BY <1>3, <1>10, <1>11, <1>12, <1>13, <1>14 DEF Kept

(* An answer lands: what it told is known, and asked for again is asked    *)
(* from there on.                                                          *)
LEMMA ReceivedKept ==
  ASSUME Kept, ClientTyped, NEW m \in flight, NEW window \in BOOLEAN, NEW keep \in BOOLEAN,
         Receives(m, window, keep)
  PROVE  Kept' /\ ClientTyped'
<1> DEFINE u == m.a[1]
           after == Applied(client, u, window, keep)
<1>1. /\ m.a # <<>> /\ IsAnswer(u) /\ m.q.kind \in Kinds
      /\ window <=> m.q.kind \in {"rows", "around", "section"}
      /\ flight' = (flight \ {m}) \cup Recentering(u, after)
      /\ UNCHANGED <<stored, members, held, files, mark, readBacks>>
  BY DEF Receives
<1>2. /\ Shapes' /\ IsAnswerTo(m.q, u) /\ u.review = m.q.review
      /\ OnlyMoved(client', after) /\ client'.current \in {after.current, u.focus}
      /\ after.review = client.review
  BY ReceivedShapes DEF Kept
<1>3. AnswerTyped(u)
  BY <1>1 DEF Kept, MessagesTyped
<1>4. ClientFits
  BY DEF Kept, Shapes
<1> HIDE DEF u
<1>5. /\ after.current \in Cards \cup {0} /\ RowsTyped(after.rows) /\ DOMAIN after.cards \subseteq Cards
      /\ after.revision \in {client.revision, u.revision}
      /\ after.revision # client.revision => /\ ~window /\ u.review = client.review
      /\ after.revision >= client.revision
  <2>1. CASE Ignored(client, u)
    <3>1. after = client
      BY <2>1 DEF Applied
    <3> HIDE DEF after
    <3> QED BY <1>4, <3>1 DEF ClientTyped, ClientFits
  <2>2. CASE ~Ignored(client, u)
    <3>1. /\ after.revision = IF window \/ Stale(client, u) THEN client.revision ELSE u.revision
          /\ after.current = IF Stale(client, u) \/ keep \/ u.focus = 0 THEN client.current ELSE u.focus
          /\ \A i \in DOMAIN after.rows :
                IF Lands(client, u) /\ i \in DOMAIN u.layout[1].rows
                THEN after.rows[i] = u.layout[1].rows[i]
                ELSE i \in DOMAIN client.rows /\ after.rows[i] = client.rows[i]
          /\ \A c \in DOMAIN after.cards : IF c \in DOMAIN u.cards THEN TRUE
                                           ELSE c \in DOMAIN client.cards
      BY <2>2, AppliedIs
    <3> HIDE DEF after
    <3>2. u.review = client.review
      BY <1>4, <2>2 DEF Ignored, Foreign, ClientFits
    <3>3. u.revision \in Nat /\ client.revision \in Nat
      BY <1>2, <1>4 DEF IsAnswerTo, ClientFits
    <3>4. after.revision >= client.revision
      BY <3>1, <3>3 DEF Stale
    <3>5. Lands(client, u) => RowsTyped(u.layout[1].rows)
      BY <1>3 DEF Lands, AnswerTyped
    <3>6. RowsTyped(after.rows)
      <4>1. \A i \in DOMAIN after.rows :
               /\ i \in 1 .. (Cardinality(Cards) + 4)
               /\ IF IsCardRow(after.rows[i]) THEN after.rows[i].id \in Cards
                  ELSE after.rows[i].section \in FoldedByDefault
        BY <3>1, <3>5 DEF ClientTyped, RowsTyped
      <4> QED BY <4>1 DEF RowsTyped
    <3>7. DOMAIN after.cards \subseteq Cards
      BY <1>3, <3>1 DEF AnswerTyped, ClientTyped
    <3>8. after.current \in Cards \cup {0}
      BY <1>3, <3>1 DEF AnswerTyped, ClientTyped
    <3> QED BY <3>1, <3>2, <3>4, <3>6, <3>7, <3>8
  <2> QED BY <2>1, <2>2
<1> HIDE DEF after
<1>6. /\ client'.review = client.review /\ client'.revision = after.revision
      /\ client'.rows = after.rows /\ client'.cards = after.cards
  BY <1>2 DEF OnlyMoved
<1>7. ClientTyped'
  BY <1>2, <1>3, <1>5, <1>6 DEF ClientTyped, AnswerTyped
<1>8. \A n \in Recentering(u, after) :
        /\ n.a = <<>> /\ n.q.kind = "around" /\ n.q.review = client.review
        /\ n.q.since = after.revision /\ n.q.id \in Cards
  BY <1>2, <1>4, <1>5, RecenteringIs
<1>9. u.revision \in Nat /\ client.revision \in Nat /\ after.revision \in Nat
  BY <1>2, <1>4, <1>5 DEF IsAnswerTo, ClientFits
<1>10. MessagesTyped'
  <2>1. \A n \in Recentering(u, after) : RequestTyped(n.q)
    BY <1>8, <1>9 DEF RequestTyped
  <2> QED BY <1>1, <1>8, <2>1 DEF Kept, MessagesTyped
<1>11. ServedTyped' /\ ProjectionInv'
  BY <1>1 DEF Kept, ServedTyped, ProjectionInv, Stays
<1>12. FilesInv'
  BY <1>1, <1>6, <1>8 DEF Kept, FilesInv
<1>13. FocusInv'
  BY <1>1, <1>8 DEF Kept, FocusInv, Stays
<1>14. RevisionInv'
  <2>1. u.revision <= Revision(stored) /\ client.revision <= Revision(stored)
    BY <1>1 DEF Kept, RevisionInv, u
  <2>2. client'.revision <= Revision(stored)'
    BY <1>1, <1>5, <1>6, <2>1
  <2>3. \A n \in flight' : n.a # <<>> /\ IsAnswer(n.a[1]) => n.a[1].revision <= Revision(stored)'
    BY <1>1, <1>8 DEF Kept, RevisionInv
  <2>4. ASSUME NEW n \in flight', n.q.kind # "open", n.q.review = client'.review
        PROVE  n.q.since <= client'.revision
    <3>1. CASE n \in flight
      <4>1. n.q.since <= client.revision /\ n.q.since \in Nat
        BY <1>6, <2>4, <3>1 DEF Kept, RevisionInv, MessagesTyped, RequestTyped
      <4> QED BY <1>5, <1>6, <1>9, <4>1
    <3>2. CASE n \in Recentering(u, after)
      BY <1>6, <1>8, <1>9, <3>2
    <3> QED BY <1>1, <3>1, <3>2
  <2> QED BY <2>2, <2>3, <2>4 DEF RevisionInv
<1>15. OrderInv'
  <2> SUFFICES ASSUME files # Nowhere PROVE OrderInv'
    BY <1>1 DEF OrderInv
  <2>1. files.id = client.review => KnownAt(after.revision)
    <3>1. files.id = client.review => KnownAt(client.revision)
      BY DEF Kept, OrderInv
    <3>2. CASE after.revision # client.revision
      <4>1. Brings(m) /\ u.review = client.review /\ after.revision = u.revision
        BY <1>1, <1>5, <3>2 DEF Brings, Focal, Kinds, Reading, u
      <4>2. \A n \in flight : Brings(n) /\ n.a[1].review = files.id => KnownAt(n.a[1].revision)
        BY DEF Kept, OrderInv
      <4> QED BY <4>1, <4>2 DEF u
    <3> QED BY <3>1, <3>2
  <2>2. files'.id = client'.review => (KnownAt(client.revision))'
    BY <1>1, <1>6, <2>1 DEF KnownAt, Sure, Stays
  <2>3. \A n \in flight' : Brings(n) /\ n.a[1].review = files'.id => (KnownAt(n.a[1].revision))'
    BY <1>1, <1>8 DEF Kept, OrderInv, Brings, KnownAt, Sure, Stays
  <2> QED BY <1>1, <2>2, <2>3 DEF Kept, OrderInv, Brings, Sure, Stays
<1> QED BY <1>2, <1>7, <1>10, <1>11, <1>12, <1>13, <1>14, <1>15 DEF Kept

(* The next review is the client's.                                        *)
LEMMA ReopenedKept ==
  ASSUME Kept, NEW m \in flight, OpenedAt(m)
  PROVE  Kept' /\ ClientTyped'
<1> DEFINE u == m.a[1]
           l == u.layout[1]
<1>1. /\ m.a # <<>> /\ m.q.kind = "open" /\ flight' = flight \ {m}
      /\ UNCHANGED <<stored, members, held, files, mark, readBacks>>
  BY DEF OpenedAt
<1>2. /\ Shapes' /\ IsAnswer(u) /\ IsAnswerTo(m.q, u)
      /\ u.review = client.review + 1 /\ client'.review = u.review
      /\ u.layout = <<l>>
      /\ client'.revision = u.revision /\ client'.current = u.focus
      /\ \A i \in DOMAIN client'.rows : i \in DOMAIN l.rows /\ client'.rows[i] = l.rows[i]
      /\ \A c \in DOMAIN client'.cards : c \in DOMAIN u.cards
      /\ \A n \in flight' : n.q.kind # "open" /\ n.q.review <= client.review
  BY ReopenedShapes DEF Kept
<1>3. AnswerTyped(u)
  BY <1>1, <1>2 DEF Kept, MessagesTyped
<1>4. client.review \in Nat
  BY DEF Kept, Shapes, ClientFits
<1>0. \A n \in flight : MessageFits(n, client.review)
  BY DEF Kept, Shapes
<1> HIDE DEF u
<1>5. ClientTyped'
  <2>1. RowsTyped(l.rows)
    BY <1>2, <1>3 DEF AnswerTyped
  <2> HIDE DEF l
  <2>2. RowsTyped(client'.rows)
    BY <1>2, <2>1 DEF RowsTyped
  <2> QED BY <1>2, <1>3, <2>2 DEF ClientTyped, AnswerTyped
<1>6. files # Nowhere => files.id = client.review + 1
  BY <1>1 DEF Kept, FilesInv
<1>7. FilesInv'
  BY <1>1, <1>2, <1>4, <1>6 DEF Kept, FilesInv
<1>8. MessagesTyped' /\ ServedTyped' /\ ProjectionInv' /\ FocusInv'
  BY <1>1 DEF Kept, MessagesTyped, ServedTyped, ProjectionInv, FocusInv, Stays
<1>9. RevisionInv'
  <2>1. u.revision <= Revision(stored)
    BY <1>1, <1>2 DEF Kept, RevisionInv, u
  <2>2. \A n \in flight' : n.q.review # client'.review
    <3>1. \A n \in flight' : n.q.review \in Nat
      BY <1>0, <1>1 DEF MessageFits
    <3> QED BY <1>2, <1>4, <3>1
  <2> QED BY <1>1, <1>2, <2>1, <2>2 DEF Kept, RevisionInv
<1>10. OrderInv'
  <2> SUFFICES ASSUME files # Nowhere PROVE OrderInv'
    BY <1>1 DEF OrderInv
  <2>1. KnownAt(u.revision)
    <3>1. Brings(m) /\ u.review = files.id
      BY <1>1, <1>2, <1>6 DEF Brings, u
    <3>2. \A n \in flight : Brings(n) /\ n.a[1].review = files.id => KnownAt(n.a[1].revision)
      BY DEF Kept, OrderInv
    <3> QED BY <3>1, <3>2 DEF u
  <2>2. (KnownAt(client.revision))'
    BY <1>1, <1>2, <2>1 DEF KnownAt, Sure, Stays
  <2>3. \A n \in flight' : Brings(n) /\ n.a[1].review = files'.id => (KnownAt(n.a[1].revision))'
    BY <1>1 DEF Kept, OrderInv, Brings, KnownAt, Sure, Stays
  <2> QED BY <1>1, <2>2, <2>3 DEF Kept, OrderInv, Brings, Sure, Stays
<1> QED BY <1>2, <1>5, <1>7, <1>8, <1>9, <1>10 DEF Kept

(* What a client shows stays cards there are while it sends, moves on or   *)
(* fails.                                                                  *)
LEMMA ClientTypedStep ==
  ASSUME Kept, ClientTyped,
         \/ Elsewhere \/ SetChanges \/ MoveTo \/ LetGo \/ NewCode
         \/ Refuse \/ DieWriting
         \/ \E m \in flight : ServesOne(m)
         \/ \E m \in flight : OpensOne(m)
         \/ \E m \in flight : Falls(m)
  PROVE  ClientTyped'
<1>0. IsClient(client)
  BY DEF Kept, Shapes, ClientFits
<1>1. CASE client' = client
  BY <1>1 DEF ClientTyped
<1>2. CASE MoveTo
  <2>1. PICK c \in Loaded(client) \ {client.current} : client' = WithCurrent(client, c)
    BY <1>2, Zenon DEF MoveTo
  <2>2. OnlyMoved(client', client) /\ client'.current = c
    BY <1>0, <2>1, WithCurrentIs
  <2>3. c \in Cards
    BY LoadedAre
  <2> QED BY <2>2, <2>3 DEF ClientTyped, OnlyMoved
<1>3. CASE \E m \in flight : Falls(m)
  <2>1. PICK m \in flight : Falls(m)
    BY <1>3
  <2>2. /\ OnlyMoved(client', client)
        /\ client'.current \in {client.current, m.q.id}
        /\ client'.current = client.current \/ m.q.kind = "press"
    BY <2>1 DEF Falls
  <2>3. m.q.kind = "press" => m.q.id \in Cards
    BY DEF Kept, MessagesTyped, RequestTyped
  <2> QED BY <2>2, <2>3 DEF ClientTyped, OnlyMoved
<1>4. CASE Elsewhere \/ SetChanges
  BY <1>1, <1>4 DEF Elsewhere, SetChanges, Outside, screen
<1>5. CASE LetGo \/ NewCode \/ Refuse \/ DieWriting
  BY <1>1, <1>5, Zenon DEF LetGo, NewCode, Refuse, DieWriting, screen
<1>6. CASE \E m \in flight : ServesOne(m)
  BY <1>1, <1>6 DEF ServesOne
<1>7. CASE \E m \in flight : OpensOne(m)
  BY <1>1, <1>7, Zenon DEF OpensOne
<1> QED BY <1>2, <1>3, <1>4, <1>5, <1>6, <1>7

(* What the program starts with.                                           *)
LEMMA InitKept ==
  ASSUME Init
  PROVE  Kept /\ ClientTyped
<1> DEFINE o == OpeningOf({}, 0)
           a == OfReview(o.answer, 1)
           r == o.review
<1>1. /\ held = [id |-> 1, review |-> r] /\ files = Written(1, [r EXCEPT !.served = {}])
      /\ client = Reopened(a) /\ flight = {} /\ mark = 0 /\ readBacks = 0 /\ members = Sources
  BY Zenon DEF Init
<1>2. Shapes
  BY InitShapes
<1>3. \A c \in Cards : /\ stored[c].live <=> c \in FirstCards
                       /\ stored[c].section = "ready"
                       /\ stored[c].rev = IF c \in FirstCards THEN 1 ELSE 0
  BY DEF Init
<1>4. InSections(stored) /\ LiveMade(stored)
  <2>1. SectionOrder[1] = "ready" /\ 1 \in DOMAIN SectionOrder
    BY DEF SectionOrder
  <2>2. "ready" \in Sections
    BY <2>1 DEF Sections
  <2> QED BY <1>3, <2>2 DEF InSections, LiveMade, Made
<1>5. Projection(stored) /\ 1 \in Nat \ {0}
  BY <1>2 DEF Shapes
<1>6. /\ IsReview(r) /\ r.version = 0 /\ r.sources = members /\ Sound(r.order)
      /\ \A c : c \in Ids(r.order) <=> c \in LiveIn(stored, members)
      /\ \A c \in Cards : Right(r.order, stored, members, c)
      /\ AnswerTyped(a) /\ r.served \subseteq Cards
      /\ a.revision = Revision(stored) /\ a.focus \in LiveIn(stored, members) \cup {0}
      /\ files # Nowhere /\ files.id = 1 /\ files.heavy = r.order
      /\ files.light.version = r.version
      /\ files.light.sources = r.sources /\ files.light.served = {}
  <2> DEFINE none == {}
             id == 1
             p == OpeningOf(none, 0)
             f == Written(id, [p.review EXCEPT !.served = {}])
             b == OfReview(p.answer, id)
  <2>1. id \in Nat \ {0} /\ o = p /\ a = b /\ files = f /\ r = p.review
    BY <1>1
  <2> HIDE DEF none, id, p, o, a
  <2>2. /\ IsReview(p.review) /\ p.review.version = 0 /\ p.review.sources = members
        /\ Sound(p.review.order)
        /\ \A c : c \in Ids(p.review.order) <=> c \in LiveIn(stored, members)
        /\ \A c \in Cards : Right(p.review.order, stored, members, c)
        /\ AnswerTyped(b) /\ p.review.served \subseteq Cards
        /\ b.revision = Revision(stored) /\ b.focus \in LiveIn(stored, members) \cup {0}
        /\ f # Nowhere /\ f.id = id /\ f.heavy = p.review.order
        /\ f.light.version = p.review.version
        /\ f.light.sources = p.review.sources /\ f.light.served = {}
    BY <1>4, <1>5, <2>1, OpeningHolds DEF p
  <2> HIDE DEF b, f
  <2> QED BY <2>1, <2>2 DEF id
<1>7. o.answer.layout = <<o.answer.layout[1]>> /\ o.answer.layout[1].version \in Nat
  BY <1>5, OpeningIs DEF Tells
<1>8. a.review = 1 /\ a.layout = o.answer.layout
  BY OfReviewIs
<1> HIDE DEF o, a
<1>9. /\ a.layout = <<a.layout[1]>> /\ a.layout[1].version \in Nat /\ a.revision \in Nat
  BY <1>5, <1>6, <1>7, <1>8, RevisionIs
<1>10. /\ client.review = 1 /\ client.revision = Revision(stored)
       /\ client.current = a.focus
       /\ \A i \in DOMAIN client.rows : i \in DOMAIN a.layout[1].rows
                                        /\ client.rows[i] = a.layout[1].rows[i]
       /\ \A c \in DOMAIN client.cards : c \in DOMAIN a.cards
  BY <1>1, <1>6, <1>8, <1>9, ReopenedIs
<1>11. held.id = 1 /\ held.review = r
  BY <1>1
<1>12. ClientTyped
  <2>1. RowsTyped(a.layout[1].rows)
    BY <1>6, <1>9 DEF AnswerTyped
  <2>2. RowsTyped(client.rows)
    BY <1>10, <2>1 DEF RowsTyped
  <2> QED BY <1>6, <1>10, <2>2 DEF ClientTyped, AnswerTyped
<1>13. MessagesTyped /\ FocusInv
  BY <1>1 DEF MessagesTyped, FocusInv
<1>14. ServedTyped
  BY <1>6, <1>11 DEF ServedTyped
<1>15. FilesInv
  <2>1. files.id = client.review /\ mark = held.review.version
    BY <1>1, <1>6, <1>10, <1>11
  <2> HIDE DEF r
  <2> QED BY <1>1, <1>6, <1>10, <1>11, <2>1 DEF FilesInv
<1>16. ProjectionInv
  BY <1>1, <1>4 DEF ProjectionInv, Sources
<1>17. RevisionInv
  BY <1>1, <1>5, <1>10, RevisionIs DEF RevisionInv
<1>18. OrderInv
  <2>1. \A c \in Cards : Right(files.heavy, stored, files.light.sources, c)
    BY <1>6
  <2>2. /\ Sound(files.heavy)
        /\ \A c \in Ids(files.heavy) : Made(stored, c)
        /\ \A c \in Ids(files.heavy) : SourceOf[c] \in files.light.sources
    BY <1>4, <1>6 DEF LiveIn, LiveMade
  <2>3. \A c \in Cards : Stays(c) => SourceOf[c] \in files.light.sources
    BY <1>1, <1>6 DEF Sources
  <2> QED BY <1>1, <2>1, <2>2, <2>3 DEF OrderInv, KnownAt
<1> QED BY <1>2, <1>12, <1>13, <1>14, <1>15, <1>16, <1>17, <1>18 DEF Kept

(* Every step leaves the review kept.                                      *)
LEMMA KeptStep ==
  ASSUME Kept, ClientTyped, [Next]_vars
  PROVE  Kept' /\ ClientTyped'
<1>1. CASE UNCHANGED vars
  <2>1. UNCHANGED <<stored, members, held, files, mark, client, flight, readBacks>>
    BY <1>1 DEF vars, store, screen
  <2>2. Shapes'
    BY <1>1, StutterShapes DEF Kept
  <2>3. Kept'
    BY <2>1, <2>2, QuietKept DEF Quiet
  <2> QED BY <2>1, <2>3 DEF ClientTyped
<1>2. CASE Next
  <2>0. StepKinds
    BY <1>2, StepsAre
  <2>1. CASE Elsewhere
    BY <2>1, ElsewhereKept, ClientTypedStep
  <2>2. CASE SetChanges \/ MoveTo \/ LetGo \/ NewCode
    BY <2>2, OtherKept, ClientTypedStep
  <2>3. CASE SendSteps
    BY <2>3, SentKept
  <2>4. CASE \E m \in flight : ServesOne(m)
    BY <2>4, ServedKept, ClientTypedStep
  <2>5. CASE Refuse
    BY <2>5, RefusedKept, ClientTypedStep
  <2>6. CASE \E m \in flight : OpensOne(m)
    BY <2>6, OpenedKept, ClientTypedStep
  <2>7. CASE DieWriting
    BY <2>7, DiedKept, ClientTypedStep
  <2>8. CASE \E m \in flight : \E window, keep \in BOOLEAN : Receives(m, window, keep)
    BY <2>8, ReceivedKept
  <2>9. CASE \E m \in flight : OpenedAt(m)
    BY <2>9, ReopenedKept
  <2>10. CASE Fail \/ ReceiveExpired
    <3>1. PICK m \in flight : Falls(m)
      BY <2>10, FallsAre DEF Kept
    <3> QED BY <3>1, FallenKept, ClientTypedStep
  <2> QED BY <2>0, <2>1, <2>2, <2>3, <2>4, <2>5, <2>6, <2>7, <2>8, <2>9, <2>10, Zenon
          DEF StepKinds
<1> QED BY <1>1, <1>2

(* The order is the set of its sources as far as the client was told:      *)
(* joined, moved, replaced and gone cards are placed, for a source that    *)
(* stays also after a death at any moment (ReviewUpdates.build,            *)
(* FileReviewOrderStore).                                                  *)
THEOREM OrderAlwaysTheSet == Spec => []OrderIsTheSet
<1>1. Init => Kept /\ ClientTyped
  BY InitKept
<1>2. Kept /\ ClientTyped /\ [Next]_vars => (Kept /\ ClientTyped)'
  BY KeptStep
<1>3. Kept /\ ClientTyped => OrderIsTheSet
  <2> SUFFICES ASSUME Kept, held # Nowhere, held.id = client.review,
                      NEW c \in Cards, stored[c].rev <= client.revision,
                      readBacks = 0 \/ SourceOf[c] \notin MayLeave
               PROVE  LET order == held.review.order IN
                      /\ (c \in Ids(order)) <=> (stored[c].live /\ SourceOf[c] \in held.review.sources)
                      /\ c \in Ids(order) => CardOf(order, c).section = stored[c].section
    BY DEF OrderIsTheSet
  <2>1. /\ files # Nowhere /\ files.id = client.review
        /\ files.heavy = held.review.order /\ files.light.sources = held.review.sources
    BY DEF Kept, FilesInv
  <2>2. Sure(c)
    BY DEF Sure, Stays
  <2>3. Right(files.heavy, stored, files.light.sources, c)
    BY <2>1, <2>2 DEF Kept, OrderInv, KnownAt
  <2> QED BY <2>1, <2>3 DEF Right
<1> QED BY <1>1, <1>2, <1>3, PTL DEF Spec

(* The focus of an answer goes to a live card (focus_after_press,          *)
(* focus_after_removal).                                                   *)
THEOREM FocusAlwaysLive == Spec => []FocusIsLive
<1>1. Init => Kept /\ ClientTyped
  BY InitKept
<1>2. Kept /\ ClientTyped /\ [Next]_vars => (Kept /\ ClientTyped)'
  BY KeptStep
<1>3. Kept /\ ClientTyped => FocusIsLive
  BY DEF Kept, FocusInv, FocusIsLive, Answers, Stays
<1> QED BY <1>1, <1>2, <1>3, PTL DEF Spec

-----------------------------------------------------------------------------
(* What is bounded: the projection's records and what is under way.        *)
RecordsIn(st) ==
    \A c \in Cards : st[c].live \in BOOLEAN /\ st[c].section \in Sections /\ st[c].rev \in 0 .. MaxRevision

Counted == IsFiniteSet(flight) /\ Cardinality(flight) <= MaxFlight

Bounded ==
    /\ RecordsIn(stored) /\ members \subseteq Sources
    /\ unfolded \subseteq FoldedByDefault
    /\ acts \in 0 .. MaxActs /\ mark \in Nat /\ readBacks \in 0 .. MaxReadBacks
    /\ Counted

(* A message answered, taken away or followed by one more.                 *)
LEMMA CountedStep ==
  ASSUME Counted,
         \/ flight' = flight
         \/ \E n : flight' = flight \cup {n} /\ Cardinality(flight) < MaxFlight
         \/ \E m \in flight : flight' = flight \ {m} \/ \E n : flight' = (flight \ {m}) \cup {n}
  PROVE  Counted'
<1>0. Cardinality(flight) \in Nat /\ MaxFlight \in Nat
  BY FS_CardinalityType, BoundsAssumption DEF Counted
<1>1. CASE flight' = flight
  BY <1>1 DEF Counted
<1>2. CASE \E n : flight' = flight \cup {n} /\ Cardinality(flight) < MaxFlight
  <2>1. PICK n : flight' = flight \cup {n} /\ Cardinality(flight) < MaxFlight
    BY <1>2
  <2>2. /\ IsFiniteSet(flight \cup {n})
        /\ Cardinality(flight \cup {n}) = IF n \in flight THEN Cardinality(flight)
                                          ELSE Cardinality(flight) + 1
    BY FS_AddElement DEF Counted
  <2> QED BY <1>0, <2>1, <2>2 DEF Counted
<1>3. ASSUME NEW m \in flight PROVE IsFiniteSet(flight \ {m}) /\ Cardinality(flight \ {m}) = Cardinality(flight) - 1
  BY <1>3, FS_RemoveElement DEF Counted
<1>4. CASE \E m \in flight : flight' = flight \ {m} \/ \E n : flight' = (flight \ {m}) \cup {n}
  <2>1. PICK m \in flight : flight' = flight \ {m} \/ \E n : flight' = (flight \ {m}) \cup {n}
    BY <1>4
  <2>2. CASE flight' = flight \ {m}
    BY <1>0, <1>3, <2>2 DEF Counted
  <2>3. CASE \E n : flight' = (flight \ {m}) \cup {n}
    <3> DEFINE rest == flight \ {m}
    <3>1. PICK n : flight' = rest \cup {n}
      BY <2>3
    <3>2. IsFiniteSet(rest) /\ Cardinality(rest) = Cardinality(flight) - 1
      BY <1>3
    <3> HIDE DEF rest
    <3>3. /\ IsFiniteSet(rest \cup {n})
          /\ Cardinality(rest \cup {n}) = IF n \in rest THEN Cardinality(rest)
                                          ELSE Cardinality(rest) + 1
      BY <3>2, FS_AddElement
    <3> QED BY <1>0, <3>1, <3>2, <3>3 DEF Counted
  <2> QED BY <2>1, <2>2, <2>3
<1> QED BY <1>1, <1>2, <1>4

(* A write leaves records within the bounds.                               *)
LEMMA RecordsAfter ==
  ASSUME Kept, RecordsIn(stored), NEW q, RequestTyped(q),
         Writes(q) => Revision(stored) < MaxRevision
  PROVE  RecordsIn(After(q))
<1> DEFINE st == After(q)
           yes == TRUE
           no == FALSE
           next == Revision(stored) + 1
<1>0. Projection(stored) /\ InSections(stored) /\ LiveMade(stored)
  BY DEF Kept, Shapes, ProjectionInv
<1>1. Revision(stored) \in Nat /\ MaxRevision \in Nat
  BY <1>0, RevisionIs, BoundsAssumption
<1>2. InSections(st)
  BY <1>0, AfterSections
<1>3. /\ ~Writes(q) => st = stored
      /\ q.kind = "press" =>
           /\ \A c \in Cards \ {q.id} : st[c] = stored[c]
           /\ q.id \in Cards => st[q.id] = [live |-> yes, section |-> "reviewed", rev |-> next]
      /\ q.kind = "replace" =>
           /\ \A c \in Cards \ {q.id, q.new} : st[c] = stored[c]
           /\ q.id \in Cards => st[q.id] = [live |-> no, section |-> stored[q.id].section,
                                           rev |-> next]
           /\ q.new \in Cards \ {q.id} =>
                 st[q.new] = [live |-> yes, section |-> stored[q.id].section, rev |-> next]
  BY <1>0, AfterIs, Zenon
<1>4. yes \in BOOLEAN /\ no \in BOOLEAN
  OBVIOUS
<1> HIDE DEF st, yes, no
<1>5. Writes(q) => next \in 0 .. MaxRevision
  BY <1>1
<1> HIDE DEF next
<1>6. \A c \in Cards : \/ st[c] = stored[c]
                       \/ /\ Writes(q) /\ st[c].rev = next
                          /\ st[c].live = yes \/ st[c].live = no
  BY <1>3 DEF Writes
<1>7. ASSUME NEW c \in Cards
      PROVE  st[c].live \in BOOLEAN /\ st[c].rev \in 0 .. MaxRevision
  BY <1>4, <1>5, <1>6 DEF RecordsIn
<1> QED BY <1>2, <1>7 DEF RecordsIn, InSections, st

(* The bounds hold at the start.                                           *)
LEMMA InitBounded ==
  ASSUME Init
  PROVE  Bounded
<1>1. \A c \in Cards : /\ stored[c].live = (c \in FirstCards)
                       /\ stored[c].section = "ready"
                       /\ stored[c].rev = IF c \in FirstCards THEN 1 ELSE 0
  BY DEF Init
<1>2. MaxRevision \in Nat \ {0} /\ {MaxActs, MaxFlight, MaxReadBacks} \subseteq Nat
  BY BoundsAssumption
<1>3. "ready" \in Sections
  <2>1. SectionOrder[1] = "ready" /\ 1 \in DOMAIN SectionOrder
    BY DEF SectionOrder
  <2> QED BY <2>1 DEF Sections
<1>4. ASSUME NEW c \in Cards PROVE stored[c].live \in BOOLEAN
  <2> DEFINE first == c \in FirstCards
  <2>1. first \in BOOLEAN
    OBVIOUS
  <2>2. stored[c].live = first
    BY <1>1, Zenon
  <2> HIDE DEF first
  <2> QED BY <2>1, <2>2
<1>5. RecordsIn(stored)
  BY <1>1, <1>2, <1>3, <1>4 DEF RecordsIn
<1>6. /\ members = Sources /\ unfolded = {} /\ acts = 0 /\ mark = 0 /\ readBacks = 0
      /\ flight = {}
  BY DEF Init
<1>7. Counted
  BY <1>2, <1>6, FS_EmptySet DEF Counted
<1> QED BY <1>2, <1>5, <1>6, <1>7 DEF Bounded

(* A section the user folds or unfolds is one that folds.                  *)
LEMMA UnfoldedStep ==
  ASSUME ClientTyped, unfolded \subseteq FoldedByDefault, SendSteps
  PROVE  unfolded' \subseteq FoldedByDefault
<1>1. CASE Poll \/ LoadRows \/ GoTo \/ Press \/ ReplacePhrase
  BY <1>1 DEF Poll, LoadRows, GoTo, Press, ReplacePhrase, Still
<1>2. CASE Toggle
  <2>1. PICK i \in DOMAIN client.rows :
          /\ ~IsCardRow(client.rows[i])
          /\ unfolded' = IF client.rows[i].open THEN unfolded \ {client.rows[i].section}
                         ELSE unfolded \cup {client.rows[i].section}
    BY <1>2, Zenon DEF Toggle
  <2>2. client.rows[i].section \in FoldedByDefault
    BY <2>1 DEF ClientTyped, RowsTyped
  <2> QED BY <2>1, <2>2
<1> QED BY <1>1, <1>2 DEF SendSteps

(* What is under way after a message was answered, received or failed.     *)
LEMMA OneForOne ==
  ASSUME Kept, NEW m \in flight,
         \/ \E a : Answering(m, a)
         \/ OpenedAt(m) \/ Falls(m)
         \/ \E window, keep \in BOOLEAN : Receives(m, window, keep)
  PROVE  flight' = flight \ {m} \/ \E n : flight' = (flight \ {m}) \cup {n}
<1>1. CASE \E a : Answering(m, a)
  BY <1>1, AnsweredAre DEF Kept
<1>2. CASE OpenedAt(m)
  BY <1>2 DEF OpenedAt
<1>3. CASE Falls(m)
  <2>1. PICK more : flight' = (flight \ {m}) \cup more /\ \A n \in more : \A o \in more : o = n
    BY <1>3 DEF Falls
  <2>2. CASE more = {}
    BY <2>1, <2>2
  <2>3. CASE more # {}
    <3>1. PICK n : n \in more
      BY <2>3
    <3>2. more = {n}
      BY <2>1, <3>1
    <3> QED BY <2>1, <3>2
  <2> QED BY <2>2, <2>3
<1>4. CASE \E window, keep \in BOOLEAN : Receives(m, window, keep)
  <2>1. PICK window, keep \in BOOLEAN : Receives(m, window, keep)
    BY <1>4
  <2> DEFINE after == Applied(client, m.a[1], window, keep)
             more == Recentering(m.a[1], after)
  <2>2. flight' = (flight \ {m}) \cup more
    BY <2>1 DEF Receives
  <2>3. more = {} \/ \E n : more = {n}
    <3> DEFINE n == Asked([kind |-> "around", review |-> after.review, since |-> after.revision,
                           current |-> after.current, id |-> after.current, keep |-> TRUE])
    <3>1. more = {} \/ more = {n}
      BY Zenon DEF Recentering
    <3> HIDE DEF n, more
    <3> QED BY <3>1
  <2> HIDE DEF more, after
  <2> QED BY <2>2, <2>3
<1> QED BY <1>1, <1>2, <1>3, <1>4

(* Every step stays within the bounds.                                     *)
LEMMA BoundedStep ==
  ASSUME Kept, ClientTyped, Bounded, [Next]_vars
  PROVE  Bounded'
<1>0. /\ Kept' /\ RecordsIn(stored) /\ Counted /\ members \subseteq Sources
      /\ unfolded \subseteq FoldedByDefault
      /\ acts \in 0 .. MaxActs /\ mark \in Nat /\ readBacks \in 0 .. MaxReadBacks
      /\ {MaxActs, MaxReadBacks, MaxRevision} \subseteq Nat
  BY KeptStep, BoundsAssumption DEF Bounded
<1>00. held' # Nowhere => mark' \in Nat
  <2>1. held' # Nowhere => held'.review.version \in Nat
    BY <1>0 DEF Kept, Shapes, HeldFits, IsReview
  <2> QED BY <1>0, <2>1 DEF Kept, FilesInv
<1>1. CASE UNCHANGED vars
  BY <1>1 DEF vars, store, screen, Bounded, Counted, RecordsIn
<1>2. ASSUME RecordsIn(stored'), members' \subseteq Sources, unfolded' \subseteq FoldedByDefault,
             acts' \in 0 .. MaxActs, mark' = mark \/ mark' = 0 \/ held' # Nowhere,
             readBacks' \in 0 .. MaxReadBacks,
             \/ flight' = flight
             \/ \E n : flight' = flight \cup {n} /\ Cardinality(flight) < MaxFlight
             \/ \E m \in flight : flight' = flight \ {m} \/ \E n : flight' = (flight \ {m}) \cup {n}
      PROVE  Bounded'
  <2>1. Counted'
    BY <1>0, <1>2, CountedStep
  <2>2. mark' \in Nat
    BY <1>0, <1>00, <1>2
  <2> QED BY <1>2, <2>1, <2>2 DEF Bounded, RecordsIn
<1>3. acts < MaxActs => acts + 1 \in 0 .. MaxActs
  BY <1>0
<1>4. CASE Next
  <2>0. StepKinds
    BY <1>4, StepsAre
  <2>1. CASE Elsewhere
    <3>1. PICK c \in MayGo, live \in BOOLEAN, s \in {"ready", "reviewed"} :
            stored' = Wrote(c, live, s)
      BY <2>1, Zenon DEF Elsewhere
    <3>2. /\ Revision(stored) < MaxRevision
          /\ UNCHANGED <<members, unfolded, acts, held, files, mark, flight, readBacks>>
      BY <2>1 DEF Elsewhere, Outside, store, screen
    <3> DEFINE next == Revision(stored) + 1
    <3>3. /\ \A d \in Cards \ {c} : stored'[d] = stored[d]
          /\ c \in Cards => stored'[c] = [live |-> live, section |-> s, rev |-> next]
      BY <1>0, <3>1, WroteIs DEF Kept, Shapes
    <3>4. next \in 0 .. MaxRevision
      BY <1>0, <3>2, RevisionIs DEF Kept, Shapes
    <3> HIDE DEF next
    <3>5. c \in Cards => stored'[c].rev = next /\ stored'[c].live = live
      BY <3>3
    <3>6. ASSUME NEW d \in Cards
          PROVE  stored'[d].live \in BOOLEAN /\ stored'[d].rev \in 0 .. MaxRevision
      BY <1>0, <3>3, <3>4, <3>5 DEF RecordsIn
    <3>7. \A d \in Cards : stored'[d].section \in Sections
      BY <1>0 DEF Kept, ProjectionInv, InSections
    <3>8. RecordsIn(stored')
      BY <3>6, <3>7 DEF RecordsIn
    <3> QED BY <1>0, <1>2, <3>2, <3>8
  <2>2. CASE SetChanges
    <3>1. /\ UNCHANGED <<stored, unfolded, held, files, mark, flight, readBacks>>
          /\ acts < MaxActs /\ acts' = acts + 1
      BY <2>2 DEF SetChanges, Outside, store, screen, Acts
    <3>2. members' \subseteq Sources
      BY <1>0, <2>2, BoundsAssumption DEF SetChanges
    <3> QED BY <1>0, <1>2, <1>3, <3>1, <3>2
  <2>3. CASE MoveTo
    <3>1. /\ UNCHANGED <<stored, members, unfolded, held, files, mark, flight, readBacks>>
          /\ acts < MaxActs /\ acts' = acts + 1
      BY <2>3 DEF MoveTo, store, Acts
    <3> QED BY <1>0, <1>2, <1>3, <3>1
  <2>4. CASE LetGo
    <3>1. UNCHANGED <<stored, members, unfolded, acts, mark, flight, readBacks>>
      BY <2>4 DEF LetGo, screen
    <3> QED BY <1>0, <1>2, <3>1
  <2>5. CASE NewCode
    <3>1. /\ UNCHANGED <<stored, members, unfolded, mark, flight, readBacks>>
          /\ acts < MaxActs /\ acts' = acts + 1
      BY <2>5 DEF NewCode, screen, Acts
    <3> QED BY <1>0, <1>2, <1>3, <3>1
  <2>6. CASE SendSteps
    <3>1. PICK q : SendsOne(q)
      BY <2>6, SendsAre
    <3>2. /\ flight' = flight \cup {Asked(q)} /\ Cardinality(flight) < MaxFlight
          /\ acts < MaxActs /\ acts' = acts + 1
          /\ UNCHANGED <<stored, members, held, files, mark, readBacks>>
      BY <3>1 DEF SendsOne
    <3>3. unfolded' \subseteq FoldedByDefault
      BY <1>0, <2>6, UnfoldedStep
    <3> QED BY <1>0, <1>2, <1>3, <3>2, <3>3
  <2>7. CASE \E m \in flight : ServesOne(m)
    <3>1. PICK m \in flight : ServesOne(m)
      BY <2>7
    <3> DEFINE out == Outcome(m.q)
               a == OfReview(out.answer, m.q.review)
    <3>2. /\ Serves(m) /\ stored' = After(m.q) /\ mark' = out.review.version
          /\ held' = [id |-> m.q.review, review |-> out.review]
          /\ readBacks' = IF held.id = m.q.review THEN readBacks ELSE readBacks + 1
          /\ Answering(m, a)
          /\ UNCHANGED <<members, unfolded, acts>>
      BY <3>1 DEF ServesOne
    <3> HIDE DEF out, a
    <3>3. RequestTyped(m.q) /\ m.q.kind \in Kinds /\ m.q.review \in Nat \ {0}
      <4>1. m.q.kind \in Kinds \cup {"open"} /\ m.q.review \in 1 .. client.review
            /\ client.review \in Nat
        BY DEF Kept, Shapes, MessageFits, ClientFits
      <4>2. m.q.kind # "open"
        BY <3>2 DEF Serves
      <4> QED BY <4>1, <4>2 DEF Kept, MessagesTyped
    <3>4. held' # Nowhere
      <4>1. held'.id = m.q.review
        BY <3>2
      <4> QED BY <3>3, <4>1, NowhereIs
    <3>5. RecordsIn(stored')
      BY <1>0, <3>2, <3>3, RecordsAfter DEF Serves
    <3>6. readBacks' \in 0 .. MaxReadBacks
      BY <1>0, <3>2 DEF Serves
    <3>7. flight' = flight \ {m} \/ \E n : flight' = (flight \ {m}) \cup {n}
      BY <3>2, OneForOne
    <3> QED BY <1>0, <1>2, <3>2, <3>4, <3>5, <3>6, <3>7
  <2>8. CASE Refuse
    <3>1. PICK m \in flight : \E a : Answering(m, a)
      BY <2>8, Zenon DEF Refuse
    <3>2. UNCHANGED <<stored, members, unfolded, acts, mark, readBacks>>
      BY <2>8, Zenon DEF Refuse, store, screen
    <3>3. flight' = flight \ {m} \/ \E n : flight' = (flight \ {m}) \cup {n}
      BY <3>1, OneForOne
    <3> QED BY <1>0, <1>2, <3>2, <3>3
  <2>9. CASE \E m \in flight : OpensOne(m)
    <3>1. PICK m \in flight : OpensOne(m)
      BY <2>9
    <3>2. /\ mark' = 0 /\ \E a : Answering(m, a)
          /\ UNCHANGED <<stored, members, unfolded, acts, readBacks>>
      BY <3>1, Zenon DEF OpensOne
    <3>3. flight' = flight \ {m} \/ \E n : flight' = (flight \ {m}) \cup {n}
      BY <3>2, OneForOne
    <3> QED BY <1>0, <1>2, <3>2, <3>3
  <2>10. CASE DieWriting
    <3>1. PICK m \in flight : Serves(m) /\ stored' = After(m.q) /\ Answering(m, Refused)
      BY <2>10, Zenon DEF DieWriting
    <3>2. UNCHANGED <<members, unfolded, acts, mark, readBacks>>
      BY <2>10 DEF DieWriting, screen
    <3>3. RequestTyped(m.q)
      BY DEF Kept, MessagesTyped
    <3>4. RecordsIn(stored')
      BY <1>0, <3>1, <3>3, RecordsAfter DEF Serves
    <3>5. flight' = flight \ {m} \/ \E n : flight' = (flight \ {m}) \cup {n}
      BY <3>1, OneForOne
    <3> QED BY <1>0, <1>2, <3>2, <3>4, <3>5
  <2>11. CASE \E m \in flight : \E window, keep \in BOOLEAN : Receives(m, window, keep)
    <3>1. PICK m \in flight : \E window, keep \in BOOLEAN : Receives(m, window, keep)
      BY <2>11
    <3>2. UNCHANGED <<stored, members, unfolded, acts, mark, readBacks>>
      BY <3>1 DEF Receives
    <3>3. flight' = flight \ {m} \/ \E n : flight' = (flight \ {m}) \cup {n}
      BY <3>1, OneForOne
    <3> QED BY <1>0, <1>2, <3>2, <3>3
  <2>12. CASE \E m \in flight : OpenedAt(m) \/ Falls(m)
    <3>1. PICK m \in flight : OpenedAt(m) \/ Falls(m)
      BY <2>12
    <3>2. UNCHANGED <<stored, members, unfolded, acts, mark, readBacks>>
      BY <3>1 DEF OpenedAt, Falls
    <3>3. flight' = flight \ {m} \/ \E n : flight' = (flight \ {m}) \cup {n}
      BY <3>1, OneForOne
    <3> QED BY <1>0, <1>2, <3>2, <3>3
  <2>13. CASE Fail \/ ReceiveExpired
    BY <2>12, <2>13, FallsAre DEF Kept
  <2> QED BY <2>0, <2>1, <2>2, <2>3, <2>4, <2>5, <2>6, <2>7, <2>8, <2>9, <2>10, <2>11, <2>12,
             <2>13, Zenon DEF StepKinds
<1> QED BY <1>1, <1>4

(* A review kept within the bounds is sound.                               *)
LEMMA KeptIsSound ==
  ASSUME Kept, ClientTyped, Bounded
  PROVE  OrderIsSound
<1>1. /\ held # Nowhere => /\ Sound(held.review.order) /\ held.review.version \in Nat
                           /\ held.review.served \subseteq Cards
      /\ files # Nowhere => Sound(files.heavy)
  <2>1. files # Nowhere => Sound(files.heavy)
    BY DEF Kept, OrderInv
  <2>2. held # Nowhere => files # Nowhere /\ files.heavy = held.review.order
    BY DEF Kept, FilesInv
  <2>3. held # Nowhere => held.review.version \in Nat /\ held.review.served \subseteq Cards
    BY DEF Kept, Shapes, HeldFits, IsReview, ServedTyped
  <2> QED BY <2>1, <2>2, <2>3
<1>2. \A order : Sound(order) => /\ Ids(order) \subseteq Cards /\ Ordered(order)
                                 /\ Cardinality(Ids(order)) = Len(order)
  BY CardsOfOrder, OrderLength DEF Sound
<1>3. stored \in [Cards -> CardRecords]
  <2>1. stored = [c \in Cards |-> stored[c]]
        /\ \A c \in Cards : stored[c] = [live |-> stored[c].live, section |-> stored[c].section,
                                         rev |-> stored[c].rev]
    BY DEF Kept, Shapes, Projection
  <2>2. \A c \in Cards : stored[c] \in CardRecords
    BY <2>1 DEF CardRecords, Bounded, RecordsIn
  <2> QED BY <2>1, <2>2
<1>4. Cardinality(flight) <= MaxFlight + 1
  <2>1. Cardinality(flight) \in Nat /\ MaxFlight \in Nat /\ Cardinality(flight) <= MaxFlight
    BY FS_CardinalityType, BoundsAssumption DEF Bounded, Counted
  <2> QED BY <2>1
<1>5. Len(SectionOrder) = 4
  BY DEF SectionOrder
<1>6. /\ DOMAIN client.rows \subseteq 1 .. (Cardinality(Cards) + Len(SectionOrder))
      /\ DOMAIN client.cards \subseteq Cards /\ client.current \in Cards \cup {0}
  BY <1>5 DEF ClientTyped, RowsTyped
<1>7. TypeOK
  BY <1>1, <1>2, <1>3, <1>4, <1>6 DEF TypeOK, Bounded
<1>8. OrderInKeyOrder
  BY <1>1, <1>2 DEF OrderInKeyOrder
<1> QED BY <1>7, <1>8 DEF OrderIsSound

(* The order held is of cards there are, each once, in the order of their  *)
(* keys, within the bounds (ReviewOrder.key_at).                           *)
THEOREM OrderAlwaysSound == Spec => []OrderIsSound
<1>1. Init => Kept /\ ClientTyped /\ Bounded
  BY InitKept, InitBounded
<1>2. Kept /\ ClientTyped /\ Bounded /\ [Next]_vars => (Kept /\ ClientTyped /\ Bounded)'
  BY KeptStep, BoundedStep
<1>3. Kept /\ ClientTyped /\ Bounded => OrderIsSound
  BY KeptIsSound
<1> QED BY <1>1, <1>2, <1>3, PTL DEF Spec

(* What a request that brings the order up to date sends: its rows' cards, *)
(* and those that changed of what was served.                              *)
LEMMA BuildSends ==
  ASSUME NEW r, IsReview(r), NEW st, NEW sources, NEW ctx, NEW asked, NEW old, NEW new
  PROVE  LET out == Build(r, st, sources, ctx, asked, old, new) IN
         /\ SendsAsStored(out, st)
         /\ SendsServed(out, r, st, ChangedSince(r, st, sources, ctx.since).live)
<1> DEFINE q == [r EXCEPT !.sources = sources]
           before == At(q, ctx.current)
           ch == ChangedSince(r, st, sources, ctx.since)
           order == Merged(r, st, sources, ch, old, new)
           next == NextFocus(before, ctx, asked, ch.removed \cap Ids(r.order))
           placed == IF order # r.order \/ Many(ch.live) THEN Reordered(before, order) ELSE before
           now == At(placed, IF next # 0 THEN next ELSE ctx.current)
           replace == now.version # r.version
           window == IF ~replace /\ next # 0 /\ next \notin now.served
                     THEN WindowAround(RowsOf(now), next) ELSE NoWindow
           out == Answered(now, st, window, replace, next, ch.live, ch.removed)
<1>1. Build(r, st, sources, ctx, asked, old, new) = out
  BY Zenon DEF Build, Updated, Relaid, Told
<1>2. IsReview(q) /\ q.served = r.served
  BY DEF IsReview
<1> HIDE DEF q
<1>3. IsReview(before) /\ before.served = r.served
  BY <1>2, AtIs
<1> HIDE DEF before, ch, order, next
<1>4. IsReview(placed) /\ placed.served = r.served
  <2>1. placed = before \/ placed = Reordered(before, order)
    OBVIOUS
  <2> QED BY <1>3, <2>1, ReorderedIs
<1> HIDE DEF placed
<1>5. IsReview(now) /\ now.served = r.served
  BY <1>4, AtIs
<1>6. replace <=> now.version # r.version
  OBVIOUS
<1> HIDE DEF now, replace, window
<1>7. SendsAsStored(out, st) /\ SendsServed(out, r, st, ch.live)
  BY <1>5, <1>6, AnswerSends
<1> HIDE DEF out
<1> QED BY <1>1, <1>7 DEF ch

(* What is asked to have changed since: nothing for a read.                *)
ChangedFor(q) == IF q.kind \in Focal THEN Changed(q).live ELSE {}

(* The same of every request.                                              *)
LEMMA OutcomeSends ==
  ASSUME Projection(stored), NEW q, q.kind \in Kinds, IsReview(Found(q))
  PROVE  /\ SendsAsStored(Outcome(q), After(q))
         /\ SendsServed(Outcome(q), Found(q), After(q), ChangedFor(q))
<1> DEFINE r == Found(q)
           none == {}
<1>0. ~Writes(q) => After(q) = stored
  BY AfterIs, Zenon
<1>00. ASSUME NEW st, NEW asked, NEW old, NEW new, st = After(q), q.kind \in Focal,
              Outcome(q) = Build(r, st, members, q, asked, old, new)
       PROVE  /\ SendsAsStored(Outcome(q), After(q))
              /\ SendsServed(Outcome(q), Found(q), After(q), ChangedFor(q))
  <2>1. /\ SendsAsStored(Build(r, st, members, q, asked, old, new), st)
        /\ SendsServed(Build(r, st, members, q, asked, old, new), r, st,
                       ChangedSince(r, st, members, q.since).live)
    BY BuildSends
  <2>2. ChangedFor(q) = ChangedSince(r, st, members, q.since).live
    BY <1>00 DEF ChangedFor, Changed
  <2> QED BY <1>00, <2>1, <2>2
<1>01. ASSUME q.kind \notin Focal, NEW out, out = Outcome(q),
              SendsAsStored(out, stored), SendsServed(out, r, stored, none)
       PROVE  /\ SendsAsStored(Outcome(q), After(q))
              /\ SendsServed(Outcome(q), Found(q), After(q), ChangedFor(q))
  <2>1. After(q) = stored /\ ChangedFor(q) = none
    BY <1>0, <1>01 DEF Focal, Writes, ChangedFor
  <2> QED BY <1>01, <2>1
<1> HIDE DEF none
<1>1. CASE q.kind = "changes"
  <2>1. Outcome(q) = Build(r, stored, members, q, 0, 0, 0)
    BY <1>1 DEF Outcome, Changes
  <2>2. After(q) = stored /\ q.kind \in Focal
    BY <1>0, <1>1 DEF Writes, Focal
  <2> QED BY <1>00, <2>1, <2>2
<1>2. CASE q.kind = "rows"
  <2>1. Outcome(q) = ReadRows(r, stored, q, q.start, RowsPerFetch) /\ q.kind \notin Focal
    BY <1>2 DEF Outcome, Focal
  <2>2. /\ SendsAsStored(ReadRows(r, stored, q, q.start, RowsPerFetch), stored)
        /\ SendsServed(ReadRows(r, stored, q, q.start, RowsPerFetch), r, stored, none)
    BY ReadsSend, Zenon DEF none
  <2> QED BY <1>01, <2>1, <2>2
<1>3. CASE q.kind = "around"
  <2>1. Outcome(q) = ReadAround(r, stored, q.id) /\ q.kind \notin Focal
    BY <1>3 DEF Outcome, Focal
  <2>2. /\ SendsAsStored(ReadAround(r, stored, q.id), stored)
        /\ SendsServed(ReadAround(r, stored, q.id), r, stored, none)
    BY ReadsSend, Zenon DEF none
  <2> QED BY <1>01, <2>1, <2>2
<1>4. CASE q.kind = "section"
  <2>1. Outcome(q) = SetSection(r, stored, q, q.section, q.open) /\ q.kind \notin Focal
    BY <1>4 DEF Outcome, Focal
  <2>2. /\ SendsAsStored(SetSection(r, stored, q, q.section, q.open), stored)
        /\ SendsServed(SetSection(r, stored, q, q.section, q.open), r, stored, none)
    BY ReadsSend, Zenon DEF none
  <2> QED BY <1>01, <2>1, <2>2
<1>5. CASE q.kind = "press"
  <2> DEFINE wasDone == stored[q.id].live /\ stored[q.id].section = "reviewed"
             asked == FocusAfterPress(r.order, q.id, wasDone, DoneIn(After(q)))
             st == After(q)
  <2>1. Outcome(q) = Build(r, st, members, q, asked, 0, 0)
    BY <1>5 DEF Outcome, Pressed
  <2>2. q.kind \in Focal /\ st = After(q)
    BY <1>5 DEF Focal
  <2> HIDE DEF asked, st
  <2> QED BY <1>00, <2>1, <2>2
<1>6. CASE q.kind = "replace"
  <2> DEFINE st == After(q)
  <2>1. Outcome(q) = Build(r, st, members, q, q.new, q.id, q.new)
    BY <1>6 DEF Outcome, Replaced
  <2>2. q.kind \in Focal /\ st = After(q)
    BY <1>6 DEF Focal
  <2> HIDE DEF st
  <2> QED BY <1>00, <2>1, <2>2
<1> QED BY <1>1, <1>2, <1>3, <1>4, <1>5, <1>6 DEF Kinds, Reading

-----------------------------------------------------------------------------
(* What the client and its answers know of the cards.                      *)

AnswerAt(m) == m.a # <<>> /\ IsAnswer(m.a[1])

(* An answer has no card older than its revision, and its rows' live cards *)
(* but those that changed later.                                           *)
CardsFresh(u, st) ==
    /\ \A c \in DOMAIN u.cards :
          /\ u.cards[c] \in Nat /\ u.cards[c] <= st[c].rev
          /\ st[c].rev <= u.revision => u.cards[c] = st[c].rev
    /\ \A c \in RowCards(u) :
          c \in Cards /\ (st[c].rev <= u.revision /\ st[c].live => c \in DOMAIN u.cards)

FreshInv ==
    /\ \A m \in flight : AnswerAt(m) => CardsFresh(m.a[1], stored)
    /\ \A c \in DOMAIN client.cards : client.cards[c] \in Nat /\ client.cards[c] <= stored[c].rev

(* An answer with rows of a review's list.                                 *)
OfList(u, h) == u.review = h.id /\ u.layout # <<>> /\ u.layout[1].version = h.review.version

(* The rows of the list that are under way or loaded count as served.      *)
ListInv ==
    readBacks = 0 /\ held # Nowhere =>
        /\ \A m \in flight : AnswerAt(m) /\ OfList(m.a[1], held) =>
              RowCards(m.a[1]) \subseteq held.review.served \cap Ids(held.review.order)
        /\ SameReview => Loaded(client) \subseteq held.review.served \cap Ids(held.review.order)

Has(c) == c \in DOMAIN client.cards /\ client.cards[c] = stored[c].rev

(* A loaded card is known up to the client's revision; an answer with a    *)
(* later one brings the cards that changed until then.                     *)
HasInv ==
    readBacks = 0 /\ ~overtaken /\ SameReview =>
        \A c \in Loaded(client) :
            /\ stored[c].rev <= client.revision => Has(c)
            /\ \A m \in flight :
                  /\ Brings(m) /\ m.a[1].review = client.review
                  /\ stored[c].rev <= m.a[1].revision
                  => c \in DOMAIN m.a[1].cards \/ Has(c)

(* It brings those of the rows under way as well.                          *)
PairInv ==
    readBacks = 0 /\ ~overtaken /\ held # Nowhere /\ held.id = client.review =>
        \A m, n \in flight :
            /\ Brings(m) /\ m.a[1].review = client.review
            /\ AnswerAt(n) /\ OfList(n.a[1], held) /\ client.revision <= n.a[1].revision
            => \A c \in RowCards(n.a[1]) :
                  n.a[1].revision < stored[c].rev /\ stored[c].rev <= m.a[1].revision
                      => c \in DOMAIN m.a[1].cards

CardsInv == FreshInv /\ ListInv /\ HasInv /\ PairInv

(* A card that an answer knows of is as it was while nobody changes it.    *)
LEMMA FreshGoes ==
  ASSUME Projection(stored), NEW st, Grown(st), NEW u, u.revision \in Nat,
         u.revision <= Revision(stored), DOMAIN u.cards \subseteq Cards, CardsFresh(u, stored)
  PROVE  CardsFresh(u, st)
<1>1. /\ Revision(stored) \in Nat
      /\ \A c \in Cards : st[c].rev <= Revision(stored) => st[c] = stored[c]
      /\ \A c \in Cards : stored[c].rev <= st[c].rev
      /\ \A c \in Cards : stored[c].rev \in Nat /\ st[c].rev \in Nat
  BY GrownIs DEF Grown, Projection
<1>2. \A c \in Cards : st[c].rev <= u.revision => st[c] = stored[c]
  BY <1>1
<1>3. ASSUME NEW c \in DOMAIN u.cards
      PROVE  /\ u.cards[c] \in Nat /\ u.cards[c] <= st[c].rev
             /\ st[c].rev <= u.revision => u.cards[c] = st[c].rev
  <2>1. /\ c \in Cards /\ u.cards[c] \in Nat /\ u.cards[c] <= stored[c].rev
        /\ stored[c].rev <= u.revision => u.cards[c] = stored[c].rev
    BY DEF CardsFresh
  <2> QED BY <1>1, <1>2, <2>1
<1>4. ASSUME NEW c \in RowCards(u)
      PROVE  c \in Cards /\ (st[c].rev <= u.revision /\ st[c].live => c \in DOMAIN u.cards)
  <2>1. c \in Cards /\ (stored[c].rev <= u.revision /\ stored[c].live => c \in DOMAIN u.cards)
    BY DEF CardsFresh
  <2> QED BY <1>2, <2>1
<1> QED BY <1>3, <1>4 DEF CardsFresh

(* What the answers under way and the client have stays fresh.             *)
LEMMA FreshStays ==
  ASSUME Kept, ClientTyped, FreshInv, Grown(stored'), client'.cards = client.cards,
         \A n \in flight' : n \in flight \/ (AnswerAt(n) => CardsFresh(n.a[1], stored'))
  PROVE  FreshInv'
<1>1. Projection(stored)
  BY DEF Kept, Shapes
<1>2. ASSUME NEW m \in flight, AnswerAt(m) PROVE CardsFresh(m.a[1], stored')
  <2> DEFINE u == m.a[1]
  <2>1. u.revision \in Nat /\ u.revision <= Revision(stored)
    BY <1>2 DEF Kept, Shapes, MessageFits, Delivered, IsAnswerTo, RevisionInv, AnswerAt
  <2>2. DOMAIN u.cards \subseteq Cards
    BY <1>2 DEF Kept, MessagesTyped, AnswerTyped, AnswerAt
  <2>3. CardsFresh(u, stored)
    BY <1>2 DEF FreshInv
  <2> HIDE DEF u
  <2>4. CardsFresh(u, stored')
    BY <1>1, <2>1, <2>2, <2>3, FreshGoes
  <2> QED BY <2>4 DEF u
<1>3. \A c \in DOMAIN client'.cards : client'.cards[c] \in Nat /\ client'.cards[c] <= stored'[c].rev
  <2> TAKE c \in DOMAIN client'.cards
  <2>1. c \in Cards /\ client'.cards[c] \in Nat /\ client'.cards[c] <= stored[c].rev
    BY DEF FreshInv, ClientTyped
  <2>2. stored[c].rev <= stored'[c].rev /\ stored[c].rev \in Nat /\ stored'[c].rev \in Nat
    BY <1>1, <2>1, GrownIs DEF Grown, Projection
  <2> QED BY <2>1, <2>2
<1>4. \A n \in flight' : AnswerAt(n) => CardsFresh(n.a[1], stored')
  BY <1>2
<1> QED BY <1>3, <1>4 DEF FreshInv, AnswerAt

(* Steps that leave the list and what the client has of it: at most the    *)
(* projection goes on, the memory lets go, an answer is gone.              *)
LEMMA CardsCarried ==
  ASSUME Kept, ClientTyped, CardsInv, Grown(stored'), OnlyMoved(client', client),
         overtaken => overtaken', readBacks' = readBacks, held' = held \/ held' = Nowhere,
         \A n \in flight' : n \in flight \/ ~AnswerAt(n)
  PROVE  CardsInv'
<1>1. /\ client'.review = client.review /\ client'.revision = client.revision
      /\ client'.version = client.version /\ client'.rows = client.rows
      /\ client'.cards = client.cards
  BY DEF OnlyMoved
<1>2. FreshInv'
  BY <1>1, FreshStays DEF CardsInv
<1>3. Loaded(client') = Loaded(client)
  BY <1>1 DEF Loaded
<1>4. ListInv'
  BY <1>1, <1>3 DEF CardsInv, ListInv, SameReview, AnswerAt, OfList
<1>5. /\ \A c \in Cards : stored'[c].rev <= Revision(stored) => stored'[c] = stored[c]
      /\ \A c \in Cards : stored'[c].rev \in Nat
      /\ Revision(stored) \in Nat
  BY GrownIs DEF Kept, Shapes, Grown, Projection
<1>6. /\ client.revision \in Nat /\ client.revision <= Revision(stored)
      /\ \A m \in flight : AnswerAt(m) => m.a[1].revision \in Nat
                                          /\ m.a[1].revision <= Revision(stored)
  BY DEF Kept, Shapes, ClientFits, MessageFits, Delivered, IsAnswerTo, RevisionInv, AnswerAt
<1>7. \A m : Brings(m) => AnswerAt(m)
  BY DEF Brings, AnswerAt
<1>8. HasInv'
  <2> SUFFICES ASSUME readBacks = 0, ~overtaken, SameReview, NEW c \in Loaded(client)
               PROVE  /\ stored'[c].rev <= client.revision => Has(c)'
                      /\ \A m \in flight' :
                            /\ Brings(m) /\ m.a[1].review = client.review
                            /\ stored'[c].rev <= m.a[1].revision
                            => c \in DOMAIN m.a[1].cards \/ Has(c)'
    BY <1>1, <1>3 DEF HasInv, SameReview, Brings
  <2>1. c \in Cards
    BY LoadedAre
  <2>2. stored'[c] = stored[c] /\ Has(c) => Has(c)'
    BY <1>1 DEF Has
  <2>3. /\ stored[c].rev <= client.revision => Has(c)
        /\ \A m \in flight :
              /\ Brings(m) /\ m.a[1].review = client.review
              /\ stored[c].rev <= m.a[1].revision
              => c \in DOMAIN m.a[1].cards \/ Has(c)
    BY DEF CardsInv, HasInv
  <2>4. stored'[c].rev <= client.revision => Has(c)'
    BY <1>5, <1>6, <2>1, <2>2, <2>3
  <2>5. ASSUME NEW m \in flight', Brings(m), m.a[1].review = client.review,
               stored'[c].rev <= m.a[1].revision
        PROVE  c \in DOMAIN m.a[1].cards \/ Has(c)'
    <3>1. m \in flight
      BY <1>7, <2>5
    <3>2. stored'[c] = stored[c]
      BY <1>5, <1>6, <1>7, <2>1, <2>5, <3>1
    <3> QED BY <2>2, <2>3, <2>5, <3>1, <3>2
  <2> QED BY <2>4, <2>5
<1>9. PairInv'
  <2> SUFFICES ASSUME readBacks = 0, ~overtaken, held # Nowhere, held.id = client.review,
                      held' = held,
                      NEW m \in flight', NEW n \in flight',
                      Brings(m), m.a[1].review = client.review,
                      AnswerAt(n), OfList(n.a[1], held), client.revision <= n.a[1].revision,
                      NEW c \in RowCards(n.a[1]), n.a[1].revision < stored'[c].rev,
                      stored'[c].rev <= m.a[1].revision
               PROVE  c \in DOMAIN m.a[1].cards
    BY <1>1 DEF PairInv, Brings, AnswerAt
  <2>1. m \in flight /\ n \in flight
    BY <1>7
  <2>2. c \in Cards
    BY <2>1 DEF CardsInv, FreshInv, CardsFresh
  <2>3. stored'[c] = stored[c]
    BY <1>5, <1>6, <1>7, <2>1, <2>2
  <2> QED BY <2>1, <2>3 DEF CardsInv, PairInv
<1> QED BY <1>2, <1>4, <1>8, <1>9 DEF CardsInv

(* An opening: nobody has of the new list but its answer.                  *)
LEMMA OpenedCards ==
  ASSUME Kept, ClientTyped, CardsInv, NEW m \in flight, OpensOne(m)
  PROVE  CardsInv'
<1> DEFINE o == OpeningOf(m.q.sections, m.q.current)
           id == client.review + 1
           a == OfReview(o.answer, id)
           n == [q |-> m.q, a |-> <<a>>]
           f == Written(id, [o.review EXCEPT !.served = {}])
<1>1. /\ client.review \in Nat \ {0}
      /\ held'.id = id /\ held'.review = o.review
      /\ flight' = (flight \ {m}) \cup {n}
  BY OpenedShapes DEF Kept
<1>2. /\ client' = client /\ stored' = stored /\ overtaken' = overtaken /\ m.q.kind = "open"
  BY DEF OpensOne
<1>3. n.a = <<a>> /\ n.a[1] = a
  OBVIOUS
<1>4. Projection(stored) /\ InSections(stored) /\ id \in Nat \ {0}
  BY <1>1 DEF Kept, Shapes, ProjectionInv
<1>5. /\ a.review = id /\ a.cards = o.answer.cards /\ a.layout = o.answer.layout
      /\ a.revision = o.answer.revision
  BY OfReviewIs
<1>6. /\ SendsAsStored(o, stored) /\ RowCards(o.answer) \subseteq Ids(o.review.order)
      /\ AnswerTyped(a) /\ Sound(o.review.order) /\ a.revision = Revision(stored)
  <2>1. o = OpeningOf(m.q.sections, m.q.current) /\ a = OfReview(o.answer, id)
        /\ f = Written(id, [o.review EXCEPT !.served = {}])
    OBVIOUS
  <2> HIDE DEF o, a, f, id
  <2> DEFINE r == o.review
  <2>2. r = o.review /\ f = Written(id, [r EXCEPT !.served = {}])
    BY <2>1
  <2> HIDE DEF r
  <2>3. /\ SendsAsStored(o, stored) /\ RowCards(o.answer) \subseteq Ids(r.order)
        /\ AnswerTyped(a) /\ Sound(r.order) /\ a.revision = Revision(stored)
    BY <1>4, <2>1, <2>2, OpeningHolds
  <2> QED BY <2>2, <2>3
<1> HIDE DEF o, a, n
<1>7. RowCards(a) = RowCards(o.answer)
  BY <1>5 DEF RowCards
<1>8. Ids(o.review.order) \subseteq Cards
  <2>1. o.review.order \in Seq(HeldSet) /\ Once(o.review.order)
    BY <1>6 DEF Sound
  <2> QED BY <2>1, CardsOfOrder
<1>9. CardsFresh(a, stored)
  <2>1. \A c \in Cards : stored[c].rev \in Nat
    BY <1>4 DEF Projection
  <2>2. DOMAIN a.cards \subseteq Cards
    BY <1>6 DEF AnswerTyped
  <2>3. \A c \in DOMAIN a.cards : a.cards[c] = stored[c].rev
    BY <1>5, <1>6 DEF SendsAsStored
  <2>4. \A c \in RowCards(a) : c \in Cards /\ (stored[c].live => c \in DOMAIN a.cards)
    BY <1>5, <1>6, <1>7, <1>8 DEF SendsAsStored
  <2> QED BY <2>1, <2>2, <2>3, <2>4 DEF CardsFresh
<1>10. FreshInv'
  <2>1. Grown(stored')
    BY <1>2, <1>4 DEF Grown
  <2>2. \A p \in flight' : p \in flight \/ (AnswerAt(p) => CardsFresh(p.a[1], stored'))
    BY <1>1, <1>2, <1>3, <1>9
  <2> QED BY <1>2, <2>1, <2>2, FreshStays DEF CardsInv
<1>11. ASSUME NEW p \in flight, p # m, AnswerAt(p) PROVE ~OfList(p.a[1], held')
  <2>1. p.q.kind # "open"
    BY <1>2, <1>11 DEF Kept, Shapes, OneOpening
  <2>2. p.a[1].review = p.q.review /\ p.q.review \in 1 .. client.review
    BY <1>11, <2>1 DEF Kept, Shapes, MessageFits, Delivered, IsAnswerTo, AnswerAt
  <2> QED BY <1>1, <2>2 DEF OfList
<1>12. held'.id # client'.review
  BY <1>1, <1>2
<1>13. ListInv'
  <2>1. RowCards(a) \subseteq held'.review.served \cap Ids(held'.review.order)
    BY <1>1, <1>6, <1>7 DEF SendsAsStored
  <2> QED BY <1>1, <1>3, <1>11, <1>12, <2>1 DEF ListInv, SameReview, AnswerAt, OfList
<1>14. HasInv' /\ PairInv'
  BY <1>12 DEF HasInv, PairInv, SameReview
<1> QED BY <1>10, <1>13, <1>14 DEF CardsInv

(* What a request sends is fresh.                                          *)
LEMMA ServedFresh ==
  ASSUME Kept, NEW m \in flight, ServesOne(m),
         NEW a, a = OfReview(Outcome(m.q).answer, m.q.review)
  PROVE  /\ CardsFresh(a, stored') /\ Grown(stored')
         /\ a.revision = Revision(stored')
         /\ RowCards(a) \subseteq Outcome(m.q).review.served \cap Ids(Outcome(m.q).review.order)
<1> DEFINE q == m.q
           out == Outcome(q)
           st == After(q)
<1>1. stored' = st /\ Holds(q) /\ MayWrite(q)
  BY DEF ServesOne, Serves
<1>2. /\ q.kind \in Kinds /\ IsReview(Found(q))
      /\ AnswersFor(out, Found(q), stored') /\ Projection(stored)
  <2>1. /\ m.q.kind \in Kinds /\ IsReview(Found(m.q))
        /\ AnswersFor(Outcome(m.q), Found(m.q), stored')
    BY ServedShapes DEF Kept
  <2> QED BY <2>1 DEF Kept, Shapes
<1>3. Leaves(q)
  BY <1>1, <1>2, OutcomeLeaves
<1>4. Grown(st)
  BY <1>2, AfterGrown DEF Kept, ProjectionInv
<1>5. SendsAsStored(out, st)
  BY <1>2, OutcomeSends
<1>6. /\ a.cards = out.answer.cards /\ a.layout = out.answer.layout
      /\ a.revision = out.answer.revision
  BY OfReviewIs
<1>7. /\ DOMAIN out.answer.cards \subseteq Cards
      /\ RowCards(out.answer) \subseteq Ids(out.review.order)
  <2>1. PICK order, sources, f : OutcomeOf(out, order, sources, f)
    BY <1>3 DEF Leaves
  <2> QED BY <2>1 DEF OutcomeOf
<1>8. Sound(out.review.order)
  BY <1>1, <1>2, LeftRight
<1>9. Ids(out.review.order) \subseteq Cards
  <2>1. out.review.order \in Seq(HeldSet) /\ Once(out.review.order)
    BY <1>8 DEF Sound
  <2> QED BY <2>1, CardsOfOrder
<1>10. \A c \in Cards : st[c].rev \in Nat
  BY <1>4 DEF Grown, Projection
<1> HIDE DEF out, st
<1>11. RowCards(a) = RowCards(out.answer)
  BY <1>6 DEF RowCards
<1>12. CardsFresh(a, st)
  BY <1>5, <1>6, <1>7, <1>9, <1>10, <1>11 DEF CardsFresh, SendsAsStored
<1>13. RowCards(a) \subseteq out.review.served \cap Ids(out.review.order)
  BY <1>5, <1>7, <1>11 DEF SendsAsStored
<1> QED BY <1>1, <1>2, <1>4, <1>6, <1>12, <1>13 DEF AnswersFor, out

(* A change of the order sends what changed of the list it leaves as it    *)
(* was.                                                                    *)
LEMMA ServedChanges ==
  ASSUME Kept, NEW m \in flight, ServesOne(m), held.id = m.q.review, readBacks = 0,
         Outcome(m.q).review.version = held.review.version
  PROVE  /\ held.review.served \subseteq Outcome(m.q).review.served
         /\ Outcome(m.q).review.order = held.review.order
         /\ m.q.kind \in Focal =>
               \A c \in held.review.served \cap Ids(held.review.order) :
                  m.q.since < stored'[c].rev => c \in DOMAIN Outcome(m.q).answer.cards
<1> DEFINE q == m.q
           out == Outcome(q)
           r == Found(q)
           st == After(q)
<1>1. stored' = st /\ Holds(q) /\ MayWrite(q)
  BY DEF ServesOne, Serves
<1>2. /\ q.kind \in Kinds /\ IsReview(r)
      /\ AnswersFor(out, r, stored') /\ Projection(stored) /\ q.review \in Nat \ {0}
  <2>1. /\ m.q.kind \in Kinds /\ IsReview(Found(m.q)) /\ m.q.review \in Nat \ {0}
        /\ AnswersFor(Outcome(m.q), Found(m.q), stored')
    BY ServedShapes DEF Kept
  <2> QED BY <2>1 DEF Kept, Shapes
<1>3. r = held.review /\ held # Nowhere
  BY <1>1, <1>2, FoundIsReview DEF Kept
<1>4. Leaves(q)
  BY <1>1, <1>2, OutcomeLeaves
<1>5. SendsServed(out, r, st, ChangedFor(q))
  BY <1>2, OutcomeSends
<1>6. Continues(out.review, r)
  BY <1>2 DEF AnswersFor
<1>7. /\ Sound(out.review.order)
      /\ \A c \in Cards : Sure(c) /\ q.kind \in Focal
                          => Right(out.review.order, st, out.review.sources, c)
  BY <1>1, <1>2, LeftRight
<1>8. q.kind \in Focal => out.review.sources = members
  BY <1>4 DEF Leaves, OutcomeOf
<1>9. Ids(out.review.order) \subseteq Cards
  <2>1. out.review.order \in Seq(HeldSet) /\ Once(out.review.order)
    BY <1>7 DEF Sound
  <2> QED BY <2>1, CardsOfOrder
<1>10. \A c : Sure(c)
  BY <1>3 DEF Sure
<1> HIDE DEF out, r, st
<1>11. out.review.version = r.version /\ out.review.order = r.order
  BY <1>3, <1>6 DEF Continues, out
<1>12. r.served \subseteq out.review.served
  BY <1>5, <1>11 DEF SendsServed
<1>13. ASSUME q.kind \in Focal, NEW c \in r.served \cap Ids(r.order), q.since < st[c].rev
       PROVE  c \in DOMAIN out.answer.cards
  <2>1. c \in Cards /\ st[c].live /\ SourceOf[c] \in members
    BY <1>7, <1>8, <1>9, <1>10, <1>11, <1>13 DEF Right
  <2>2. c \in ChangedFor(q)
    <3>1. /\ ChangedFor(q) = ChangedSince(r, st, members, q.since).live
          /\ q.since \in Nat /\ st[c].rev \in Nat
      <4>1. ChangedFor(q) = ChangedSince(r, st, members, q.since).live
        BY <1>13 DEF ChangedFor, Changed, r, st
      <4>2. Projection(st)
        BY <1>1, ServedFresh DEF Grown
      <4>3. q.since \in Nat
        BY <1>2, OpeningIsNoKind DEF Kept, MessagesTyped, RequestTyped
      <4> QED BY <2>1, <4>1, <4>2, <4>3 DEF Projection
    <3>2. st[c].rev > q.since
      BY <1>13, <3>1
    <3> QED BY <2>1, <3>1, <3>2 DEF ChangedSince
  <2> QED BY <1>5, <1>11, <1>13, <2>1, <2>2 DEF SendsServed
<1> QED BY <1>1, <1>3, <1>11, <1>12, <1>13 DEF out

(* A request served: its answer tells what the client may lack.            *)
LEMMA ServedCards ==
  ASSUME Kept, ClientTyped, RowsInv, CardsInv, NEW m \in flight, ServesOne(m)
  PROVE  CardsInv'
<1> DEFINE q == m.q
           out == Outcome(q)
           a == OfReview(out.answer, q.review)
<1>1. /\ stored' = After(q)
      /\ held' = [id |-> q.review, review |-> out.review]
      /\ readBacks' = IF held.id = q.review THEN readBacks ELSE readBacks + 1
      /\ Answering(m, a)
      /\ client' = client /\ overtaken' = overtaken
      /\ Holds(q) /\ MayWrite(q)
  BY DEF ServesOne, Serves
<1>2. /\ q.kind \in Kinds /\ q.review \in Nat \ {0} /\ IsReview(Found(q))
      /\ AnswersFor(out, Found(q), stored')
  <2>1. /\ m.q.kind \in Kinds /\ m.q.review \in Nat \ {0} /\ IsReview(Found(m.q))
        /\ AnswersFor(Outcome(m.q), Found(m.q), stored')
    BY ServedShapes DEF Kept
  <2> QED BY <2>1
<1>3. q.review = client.review /\ (held.id = q.review => held # Nowhere)
  BY <1>1, <1>2, OutcomeLeaves
<1>4. /\ CardsFresh(a, stored') /\ Grown(stored') /\ a.revision = Revision(stored')
      /\ RowCards(a) \subseteq out.review.served \cap Ids(out.review.order)
  BY ServedFresh
<1>5. a.review = q.review /\ a.cards = out.answer.cards /\ IsAnswer(a)
  BY OfReviewIs
<1>6. PICK n : n.q = m.q /\ n.a = <<a>> /\ n.a[1] = a /\ flight' = (flight \ {m}) \cup {n}
  <2> HIDE DEF a
  <2> QED BY <1>1, AnsweredAre DEF Kept
<1>7. held.id = q.review /\ readBacks = 0 /\ out.review.version = held.review.version =>
         /\ held.review.served \subseteq out.review.served
         /\ out.review.order = held.review.order
         /\ q.kind \in Focal =>
               \A c \in held.review.served \cap Ids(held.review.order) :
                  q.since < stored'[c].rev => c \in DOMAIN out.answer.cards
  BY ServedChanges
<1>8. FreshInv'
  <2> HIDE DEF a
  <2>1. \A p \in flight' : p \in flight \/ (AnswerAt(p) => CardsFresh(p.a[1], stored'))
    BY <1>4, <1>6
  <2> QED BY <1>1, <1>4, <2>1, FreshStays DEF CardsInv
<1>9. AnswersFor(out, Found(q), stored') /\ (held.id = q.review => Found(q) = held.review)
  BY <1>1, <1>2, FoundIsReview DEF Kept
<1> HIDE DEF out, a, q
<1>10. SUFFICES ASSUME readBacks' = 0
                PROVE  ListInv' /\ HasInv' /\ PairInv'
  BY <1>8 DEF CardsInv, ListInv, HasInv, PairInv
<1>11. /\ held.id = q.review /\ readBacks = 0 /\ held # Nowhere
       /\ held'.id = held.id /\ held'.review = out.review
  <2>1. readBacks \in Nat
    BY DEF Kept, Shapes
  <2>2. held.id = q.review /\ readBacks = 0
    BY <1>1, <1>10, <2>1
  <2> QED BY <1>1, <1>3, <2>2
<1>12. /\ out.review.version \in Nat /\ held.review.version \in Nat
       /\ out.review.version >= held.review.version
       /\ client.version \in Nat /\ client.version <= held.review.version
  <2>1. Continues(out.review, held.review)
    BY <1>9, <1>11 DEF AnswersFor
  <2>2. IsReview(held.review)
    BY <1>11 DEF Kept, Shapes, HeldFits
  <2>3. client.version <= held.review.version
    BY <1>3, <1>11 DEF RowsInv, RowsHeld
  <2> QED BY <2>1, <2>2, <2>3 DEF Continues, IsReview, Kept, Shapes, ClientFits
<1>13. ASSUME NEW p \in flight, AnswerAt(p), OfList(p.a[1], held')
       PROVE  OfList(p.a[1], held) /\ out.review.version = held.review.version
  <2>1. p.a[1].layout[1].version \in Nat
    BY <1>13 DEF Kept, Shapes, MessageFits, Delivered, IsAnswerTo, AnswerAt, OfList
  <2>2. p.a[1].layout[1].version <= held.review.version
    BY <1>11, <1>13 DEF RowsInv, RowsSent, OfList, AnswerAt
  <2> QED BY <1>11, <1>12, <1>13, <2>1, <2>2 DEF OfList
<1>14. SameReview' => SameReview /\ out.review.version = held.review.version
  BY <1>1, <1>11, <1>12 DEF SameReview
<1>15. ListInv'
  <2>1. ASSUME NEW p \in flight', AnswerAt(p), OfList(p.a[1], held')
        PROVE  RowCards(p.a[1]) \subseteq held'.review.served \cap Ids(held'.review.order)
    <3>1. CASE p = n
      BY <1>4, <1>6, <1>11, <3>1
    <3>2. CASE p \in flight
      <4>1. OfList(p.a[1], held) /\ out.review.version = held.review.version
        BY <1>13, <2>1, <3>2
      <4>2. RowCards(p.a[1]) \subseteq held.review.served \cap Ids(held.review.order)
        BY <1>11, <2>1, <3>2, <4>1 DEF CardsInv, ListInv
      <4> QED BY <1>7, <1>11, <4>1, <4>2
    <3> QED BY <1>6, <3>1, <3>2
  <2>2. ASSUME SameReview'
        PROVE  Loaded(client') \subseteq held'.review.served \cap Ids(held'.review.order)
    <3>1. SameReview /\ out.review.version = held.review.version
      BY <1>14, <2>2
    <3>2. Loaded(client) \subseteq held.review.served \cap Ids(held.review.order)
      BY <1>11, <3>1 DEF CardsInv, ListInv
    <3> QED BY <1>1, <1>7, <1>11, <3>1, <3>2
  <2> QED BY <2>1, <2>2 DEF ListInv, AnswerAt, OfList
<1>16. /\ \A c \in Cards : stored'[c].rev <= Revision(stored) => stored'[c] = stored[c]
       /\ \A c \in Cards : stored'[c].rev \in Nat
       /\ Revision(stored) \in Nat
  BY <1>4, GrownIs DEF Kept, Shapes, Grown, Projection
<1>17. /\ client.revision \in Nat /\ client.revision <= Revision(stored)
       /\ \A p \in flight : AnswerAt(p) => p.a[1].revision \in Nat
                                           /\ p.a[1].revision <= Revision(stored)
       /\ q.since \in Nat /\ q.since <= client.revision
  <2>1. /\ client.revision \in Nat /\ client.revision <= Revision(stored)
        /\ \A p \in flight : AnswerAt(p) => p.a[1].revision \in Nat
                                            /\ p.a[1].revision <= Revision(stored)
    BY DEF Kept, Shapes, ClientFits, MessageFits, Delivered, IsAnswerTo, RevisionInv, AnswerAt
  <2>2. q.kind # "open"
    BY <1>2, OpeningIsNoKind
  <2> QED BY <1>3, <2>1, <2>2 DEF Kept, RevisionInv, MessagesTyped, RequestTyped, q
<1>18. \A p : Brings(p) => AnswerAt(p)
  BY DEF Brings, AnswerAt
<1>19. Brings(n) => q.kind \in Focal
  BY <1>2, <1>6, OpeningIsNoKind DEF Brings, q
<1>20. HasInv'
  <2> SUFFICES ASSUME ~overtaken, SameReview', NEW c \in Loaded(client)
               PROVE  /\ stored'[c].rev <= client.revision => Has(c)'
                      /\ \A p \in flight' :
                            /\ Brings(p) /\ p.a[1].review = client.review
                            /\ stored'[c].rev <= p.a[1].revision
                            => c \in DOMAIN p.a[1].cards \/ Has(c)'
    BY <1>1 DEF HasInv, Brings
  <2>1. c \in Cards
    BY LoadedAre
  <2>2. stored'[c] = stored[c] /\ Has(c) => Has(c)'
    BY <1>1 DEF Has
  <2>3. SameReview /\ out.review.version = held.review.version
    BY <1>14
  <2>4. /\ stored[c].rev <= client.revision => Has(c)
        /\ \A p \in flight :
              /\ Brings(p) /\ p.a[1].review = client.review
              /\ stored[c].rev <= p.a[1].revision
              => c \in DOMAIN p.a[1].cards \/ Has(c)
    BY <1>11, <2>3 DEF CardsInv, HasInv
  <2>5. stored'[c].rev <= client.revision => Has(c)'
    BY <1>16, <1>17, <2>1, <2>2, <2>4
  <2>6. ASSUME NEW p \in flight', Brings(p), p.a[1].review = client.review,
               stored'[c].rev <= p.a[1].revision
        PROVE  c \in DOMAIN p.a[1].cards \/ Has(c)'
    <3>1. CASE p = n
      <4>1. c \in held.review.served \cap Ids(held.review.order)
        BY <1>11, <2>3 DEF CardsInv, ListInv
      <4>2. q.since < stored'[c].rev => c \in DOMAIN a.cards
        BY <1>5, <1>7, <1>11, <1>19, <2>3, <2>6, <3>1, <4>1
      <4>3. stored'[c].rev <= client.revision \/ q.since < stored'[c].rev
        BY <1>16, <1>17, <2>1
      <4> QED BY <1>6, <2>5, <3>1, <4>2, <4>3
    <3>2. CASE p \in flight
      <4>1. stored'[c] = stored[c]
        BY <1>16, <1>17, <1>18, <2>1, <2>6, <3>2
      <4> QED BY <2>2, <2>4, <2>6, <3>2, <4>1
    <3> QED BY <1>6, <3>1, <3>2
  <2> QED BY <2>5, <2>6
<1>21. PairInv'
  <2> SUFFICES ASSUME ~overtaken, held'.id = client.review,
                      NEW p \in flight', NEW o \in flight',
                      Brings(p), p.a[1].review = client.review,
                      AnswerAt(o), OfList(o.a[1], held'), client.revision <= o.a[1].revision,
                      NEW c \in RowCards(o.a[1]), o.a[1].revision < stored'[c].rev,
                      stored'[c].rev <= p.a[1].revision
               PROVE  c \in DOMAIN p.a[1].cards
    BY <1>1 DEF PairInv, Brings, AnswerAt, OfList
  <2>1. CardsFresh(o.a[1], stored')
    BY <1>8 DEF FreshInv, AnswerAt
  <2>2. c \in Cards
    BY <2>1 DEF CardsFresh
  <2>3. CASE o = n
    <3>1. Revision(stored') < stored'[c].rev
      BY <1>4, <1>6, <2>3
    <3>2. Revision(stored') \in Nat /\ stored'[c].rev <= Revision(stored')
      BY <1>4, <2>2, RevisionIs DEF Grown
    <3> QED BY <1>16, <2>2, <3>1, <3>2
  <2>4. CASE o \in flight
    <3>1. OfList(o.a[1], held) /\ out.review.version = held.review.version
      BY <1>13, <2>4
    <3>2. CASE p = n
      <4>1. c \in held.review.served \cap Ids(held.review.order)
        BY <1>11, <2>4, <3>1 DEF CardsInv, ListInv
      <4>2. o.a[1].revision \in Nat
        BY <1>17, <2>4
      <4>3. q.since < stored'[c].rev
        BY <1>16, <1>17, <2>2, <4>2
      <4> QED BY <1>5, <1>6, <1>7, <1>11, <1>19, <3>1, <3>2, <4>1, <4>3
    <3>3. CASE p \in flight
      <4>1. stored'[c] = stored[c]
        BY <1>16, <1>17, <1>18, <2>2, <3>3
      <4> QED BY <1>11, <2>4, <3>1, <3>3, <4>1 DEF CardsInv, PairInv
    <3> QED BY <1>6, <3>2, <3>3
  <2> QED BY <1>6, <2>3, <2>4
<1> QED BY <1>15, <1>20, <1>21

(* Where the cards and the rows of a client come from after an answer      *)
(* landed.                                                                 *)
AppliedFrom(t, s, u, window) ==
    /\ t.review = u.review
    /\ t.revision = IF window \/ Stale(s, u) THEN s.revision ELSE u.revision
    /\ t.version = IF Lands(s, u) THEN u.layout[1].version ELSE s.version
    /\ \A c \in Loaded(t) :
          /\ c \in DOMAIN u.cards => c \in DOMAIN t.cards
          /\ \/ Lands(s, u) /\ c \in RowCards(u)
             \/ /\ c \in Loaded(s) /\ t.version = s.version
                /\ c \in DOMAIN s.cards => c \in DOMAIN t.cards
    /\ \A c \in DOMAIN t.cards :
          IF c \in DOMAIN u.cards /\ ~(Stale(s, u) /\ c \in DOMAIN s.cards)
          THEN t.cards[c] = u.cards[c]
          ELSE c \in DOMAIN s.cards /\ t.cards[c] = s.cards[c]

(* An answer lands so.                                                     *)
LEMMA AppliedComes ==
  ASSUME NEW s, NEW u, NEW window, NEW keep, ~Ignored(s, u)
  PROVE  AppliedFrom(Applied(s, u, window, keep), s, u, window)
<1> DEFINE t == Applied(s, u, window, keep)
           gone == GoneOf(s, u)
           replace == Lands(s, u) /\ Replaces(s, u)
<1>1. /\ t.review = u.review
      /\ t.revision = IF window \/ Stale(s, u) THEN s.revision ELSE u.revision
      /\ t.version = IF Lands(s, u) THEN u.layout[1].version ELSE s.version
      /\ \A i \in DOMAIN t.rows :
            /\ ~(IsCardRow(t.rows[i]) /\ t.rows[i].id \in gone)
            /\ IF Lands(s, u) /\ i \in DOMAIN u.layout[1].rows
               THEN t.rows[i] = u.layout[1].rows[i]
               ELSE ~replace /\ i \in DOMAIN s.rows /\ t.rows[i] = s.rows[i]
      /\ \A c \in DOMAIN t.cards :
            IF c \in DOMAIN u.cards /\ ~(Stale(s, u) /\ c \in DOMAIN s.cards)
            THEN t.cards[c] = u.cards[c]
            ELSE c \in DOMAIN s.cards /\ t.cards[c] = s.cards[c]
      /\ \A c \in DOMAIN u.cards \ gone : c \in DOMAIN t.cards
      /\ ~replace => \A c \in DOMAIN s.cards \ gone : c \in DOMAIN t.cards
  BY AppliedIs
<1> HIDE DEF t, gone, replace
<1>2. ~replace => t.version = s.version
  <2>1. CASE ~Lands(s, u)
    BY <1>1, <2>1
  <2>2. CASE Lands(s, u)
    <3>1. ~replace => ~Newer(s, u)
      BY <2>2 DEF replace, Replaces
    <3>2. ~replace => u.layout[1].version = s.version
      BY <2>2, <3>1 DEF Lands
    <3> QED BY <1>1, <2>2, <3>2
  <2> QED BY <2>1, <2>2
<1>3. ASSUME NEW c \in Loaded(t)
      PROVE  /\ c \in DOMAIN u.cards => c \in DOMAIN t.cards
             /\ \/ Lands(s, u) /\ c \in RowCards(u)
                \/ /\ c \in Loaded(s) /\ t.version = s.version
                   /\ c \in DOMAIN s.cards => c \in DOMAIN t.cards
  <2>1. PICK i \in DOMAIN t.rows : IsCardRow(t.rows[i]) /\ c = t.rows[i].id
    BY DEF Loaded
  <2>2. c \notin gone
    BY <1>1, <2>1
  <2>3. CASE Lands(s, u) /\ i \in DOMAIN u.layout[1].rows
    <3>1. t.rows[i] = u.layout[1].rows[i] /\ u.layout # <<>>
      BY <1>1, <2>3 DEF Lands
    <3>2. c \in RowCards(u)
      BY <2>1, <2>3, <3>1 DEF RowCards
    <3> QED BY <1>1, <2>2, <2>3, <3>2
  <2>4. CASE ~(Lands(s, u) /\ i \in DOMAIN u.layout[1].rows)
    <3>1. ~replace /\ i \in DOMAIN s.rows /\ t.rows[i] = s.rows[i]
      BY <1>1, <2>4
    <3>2. c \in Loaded(s)
      BY <2>1, <3>1 DEF Loaded
    <3> QED BY <1>1, <1>2, <2>2, <3>1, <3>2
  <2> QED BY <2>3, <2>4
<1>4. AppliedFrom(t, s, u, window)
  BY <1>1, <1>3 DEF AppliedFrom
<1> QED BY <1>4 DEF t

(* A row's card that is known to the order's client is live.               *)
LEMMA ListedLive ==
  ASSUME Kept, readBacks = 0, held # Nowhere, NEW revision, KnownAt(revision),
         NEW c \in Ids(held.review.order) \cap Cards, stored[c].rev <= revision
  PROVE  stored[c].live
<1>1. files.heavy = held.review.order
  BY DEF Kept, FilesInv
<1>2. Right(files.heavy, stored, files.light.sources, c)
  BY DEF KnownAt, Sure
<1> QED BY <1>1, <1>2 DEF Right

(* An answer lands: what it leaves of the cards stays known.               *)
LEMMA ReceivedCards ==
  ASSUME Kept, ClientTyped, RowsInv, CardsInv, NEW m \in flight, NEW window \in BOOLEAN,
         NEW keep \in BOOLEAN, Receives(m, window, keep)
  PROVE  CardsInv'
<1> DEFINE u == m.a[1]
           t == Applied(client, u, window, keep)
<1>1. /\ m.a # <<>> /\ IsAnswer(u) /\ m.q.kind \in Kinds /\ AnswerAt(m)
      /\ window <=> m.q.kind \in {"rows", "around", "section"}
      /\ flight' = (flight \ {m}) \cup Recentering(u, t)
      /\ overtaken' = (overtaken \/ Overtaken(client, u))
      /\ UNCHANGED <<stored, members, held, files, readBacks>>
  BY DEF Receives, AnswerAt
<1>2. /\ IsAnswerTo(m.q, u) /\ OnlyMoved(client', t) /\ t.review = client.review
  BY ReceivedShapes DEF Kept
<1>3. ClientFits /\ Projection(stored)
  BY DEF Kept, Shapes
<1>4. /\ u.revision \in Nat /\ client.revision \in Nat /\ client.version \in Nat
      /\ u.layout = <<>> \/ u.layout[1].version \in Nat
  BY <1>2, <1>3 DEF IsAnswerTo, ClientFits
<1>5. \A n \in flight' : n \in flight \/ ~AnswerAt(n)
  <2>1. \A n \in Recentering(u, t) : n.a = <<>>
    <3> HIDE DEF u, t
    <3> QED BY <1>2, <1>3, RecenteringIs
  <2> QED BY <1>1, <2>1 DEF AnswerAt
<1>6. CASE Ignored(client, u)
  <2>1. t = client
    BY <1>6 DEF Applied
  <2>2. OnlyMoved(client', client)
    BY <1>2, <2>1
  <2>3. Grown(stored')
    BY <1>1, <1>3 DEF Grown
  <2> QED BY <1>1, <1>5, <2>2, <2>3, CardsCarried
<1>7. CASE ~Ignored(client, u)
  <2>1. u.review = client.review
    BY <1>3, <1>7 DEF Ignored, Foreign, ClientFits
  <2>2. AppliedFrom(t, client, u, window)
    BY <1>7, AppliedComes
  <2>3. CardsFresh(u, stored) /\ AnswerTyped(u)
    BY <1>1 DEF CardsInv, FreshInv, Kept, MessagesTyped
  <2>4. Brings(m) \/ window
    BY <1>1 DEF Brings, Focal, Kinds, Reading
  <2>5. OfList(u, held) /\ readBacks = 0 /\ held # Nowhere =>
           RowCards(u) \subseteq held.review.served \cap Ids(held.review.order)
    BY <1>1 DEF CardsInv, ListInv
  <2>6. ASSUME NEW revision, Brings(m), revision = u.revision, files # Nowhere,
               files.id = client.review
        PROVE  KnownAt(revision)
    BY <2>1, <2>6 DEF Kept, OrderInv
  <2>7. ASSUME NEW n \in flight', Brings(n) \/ AnswerAt(n) PROVE n \in flight /\ AnswerAt(n)
    BY <1>5, <2>7 DEF Brings, AnswerAt
  <2>8. ASSUME NEW n \in flight, Brings(n), PairInv, readBacks = 0, ~overtaken, held # Nowhere,
               held.id = client.review, n.a[1].review = client.review, OfList(u, held),
               client.revision <= u.revision, NEW c \in RowCards(u),
               u.revision < stored[c].rev, stored[c].rev <= n.a[1].revision
        PROVE  c \in DOMAIN n.a[1].cards
    BY <1>1, <2>8 DEF PairInv
  <2>9. ASSUME NEW n \in flight, Brings(n), n.a[1].review = client.review, held # Nowhere,
               held.id = client.review
        PROVE  KnownAt(n.a[1].revision)
    <3>1. files # Nowhere /\ files.id = client.review
      BY <2>9 DEF Kept, FilesInv
    <3> QED BY <2>9, <3>1 DEF Kept, OrderInv
  <2>10. ASSUME held # Nowhere, held.id = client.review PROVE KnownAt(t.revision)
    <3>1. files # Nowhere /\ files.id = client.review
      BY <2>10 DEF Kept, FilesInv
    <3>2. KnownAt(client.revision)
      BY <3>1 DEF Kept, OrderInv
    <3>3. t.revision = client.revision \/ (~window /\ t.revision = u.revision)
      <4> HIDE DEF t
      <4> QED BY <2>2 DEF AppliedFrom
    <3> QED BY <2>4, <2>6, <3>1, <3>2, <3>3
  <2>11. ASSUME NEW n \in flight, HasInv, readBacks = 0, ~overtaken, SameReview,
                NEW c \in Loaded(client), Brings(n), n.a[1].review = client.review,
                stored[c].rev <= n.a[1].revision
         PROVE  c \in DOMAIN n.a[1].cards \/ Has(c)
    BY <2>11 DEF HasInv
  <2>12. HasInv /\ readBacks = 0 /\ ~overtaken /\ SameReview =>
            \A c \in Loaded(client) : stored[c].rev <= client.revision => Has(c)
    BY DEF HasInv
  <2>13. Overtaken(client, u) <=>
            IF Stale(client, u) THEN Lands(client, u)
            ELSE \E c \in DOMAIN client.cards \cap DOMAIN u.cards : u.cards[c] < client.cards[c]
    BY <1>7 DEF Overtaken, Ignored
  <2>14. /\ client'.review = client.review /\ client'.revision = t.revision
         /\ client'.version = t.version /\ client'.rows = t.rows /\ client'.cards = t.cards
    <3> HIDE DEF t
    <3> QED BY <1>2 DEF OnlyMoved
  <2>15. DOMAIN t.cards \subseteq Cards /\ Loaded(t) \subseteq Cards
    <3> HIDE DEF t
    <3>1. ClientTyped'
      BY ReceivedKept
    <3> QED BY <2>14, <3>1 DEF ClientTyped, RowsTyped, Loaded
  <2> HIDE DEF t, u
  <2>16. Loaded(client') = Loaded(t)
    BY <2>14 DEF Loaded
  <2>17. \A c \in Cards : stored[c].rev \in Nat
    BY <1>3 DEF Projection
  <2>18. FreshInv'
    <3>1. \A c \in DOMAIN t.cards : t.cards[c] \in Nat /\ t.cards[c] <= stored[c].rev
      <4> TAKE c \in DOMAIN t.cards
      <4>1. \/ c \in DOMAIN u.cards /\ t.cards[c] = u.cards[c]
            \/ c \in DOMAIN client.cards /\ t.cards[c] = client.cards[c]
        BY <2>2 DEF AppliedFrom
      <4> QED BY <2>3, <4>1 DEF CardsFresh, CardsInv, FreshInv
    <3> QED BY <1>1, <1>5, <2>14, <3>1 DEF CardsInv, FreshInv, AnswerAt
  <2>19. ASSUME NEW c \in Loaded(t), SameReview'
         PROVE  \/ c \in RowCards(u) /\ OfList(u, held)
                \/ c \in Loaded(client) /\ SameReview /\ (c \in DOMAIN client.cards => c \in DOMAIN t.cards)
    <3>1. held # Nowhere /\ held.id = client.review /\ t.version = held.review.version
      BY <1>1, <2>14, <2>19 DEF SameReview
    <3>2. CASE Lands(client, u) /\ c \in RowCards(u)
      <4>1. u.layout # <<>> /\ u.layout[1].version = t.version
        BY <2>2, <3>2 DEF AppliedFrom, Lands
      <4> QED BY <2>1, <3>1, <3>2, <4>1 DEF OfList
    <3>3. CASE ~(Lands(client, u) /\ c \in RowCards(u))
      <4>1. /\ c \in Loaded(client) /\ t.version = client.version
            /\ c \in DOMAIN client.cards => c \in DOMAIN t.cards
        BY <2>2, <3>3 DEF AppliedFrom
      <4> QED BY <3>1, <4>1 DEF SameReview
    <3> QED BY <3>2, <3>3
  <2>20. ListInv'
    <3>1. ASSUME readBacks = 0, held # Nowhere, SameReview'
          PROVE  Loaded(t) \subseteq held.review.served \cap Ids(held.review.order)
      <4>1. \A c \in Loaded(t) : \/ c \in RowCards(u) /\ OfList(u, held)
                                 \/ c \in Loaded(client) /\ SameReview
        BY <2>19, <3>1
      <4>2. SameReview => Loaded(client) \subseteq held.review.served \cap Ids(held.review.order)
        BY <3>1 DEF CardsInv, ListInv
      <4>3. OfList(u, held) => RowCards(u) \subseteq held.review.served \cap Ids(held.review.order)
        BY <2>5, <3>1
      <4> QED BY <4>1, <4>2, <4>3
    <3>2. \A n \in flight' : AnswerAt(n) /\ OfList(n.a[1], held) /\ readBacks = 0 /\ held # Nowhere =>
             RowCards(n.a[1]) \subseteq held.review.served \cap Ids(held.review.order)
      BY <2>7 DEF CardsInv, ListInv
    <3> QED BY <1>1, <2>16, <3>1, <3>2 DEF ListInv, AnswerAt, OfList
  <2>21. ASSUME ~overtaken'
         PROVE  /\ ~overtaken /\ ~Stale(client, u)
                /\ \A c \in DOMAIN client.cards \cap DOMAIN u.cards : ~(u.cards[c] < client.cards[c])
                /\ client.revision <= u.revision
                /\ client.revision <= t.revision /\ t.revision <= u.revision
    <3>1. ~overtaken /\ ~Overtaken(client, u)
      BY <1>1, <2>21
    <3>2. ~Stale(client, u)
      BY <1>7, <2>13, <3>1 DEF Ignored
    <3>3. client.revision <= u.revision
      BY <1>4, <3>2 DEF Stale
    <3>4. t.revision = client.revision \/ t.revision = u.revision
      BY <2>2 DEF AppliedFrom
    <3>5. u.revision <= u.revision /\ client.revision <= client.revision
      BY <1>4
    <3> QED BY <2>13, <3>1, <3>2, <3>3, <3>4, <3>5
  <2>22. HasInv'
    <3> SUFFICES ASSUME readBacks = 0, ~overtaken', SameReview', NEW c \in Loaded(t)
                 PROVE  /\ stored[c].rev <= t.revision => Has(c)'
                        /\ \A n \in flight' :
                              /\ Brings(n) /\ n.a[1].review = client.review
                              /\ stored[c].rev <= n.a[1].revision
                              => c \in DOMAIN n.a[1].cards \/ Has(c)'
      BY <1>1, <2>14, <2>16 DEF HasInv, Brings
    <3>1. held # Nowhere /\ held.id = client.review
      BY <1>1, <2>14 DEF SameReview
    <3>2. c \in Ids(held.review.order) \cap Cards
      BY <1>1, <2>15, <2>16, <2>20, <3>1 DEF ListInv
    <3>3. ASSUME NEW rev \in Nat, KnownAt(rev), stored[c].rev <= rev PROVE stored[c].live
      BY <3>1, <3>2, <3>3, ListedLive
    <3>4. c \in DOMAIN u.cards => c \in DOMAIN t.cards /\ t.cards[c] = u.cards[c]
      BY <2>2, <2>21 DEF AppliedFrom
    <3>5. ASSUME c \in RowCards(u), stored[c].rev <= u.revision, stored[c].live PROVE Has(c)'
      <4>1. c \in DOMAIN u.cards /\ u.cards[c] = stored[c].rev
        BY <2>3, <3>5 DEF CardsFresh
      <4> QED BY <1>1, <2>14, <3>4, <4>1 DEF Has
    <3>6. ASSUME Has(c), c \in DOMAIN t.cards PROVE Has(c)'
      <4>1. CASE c \in DOMAIN u.cards
        <5>1. /\ u.cards[c] \in Nat /\ u.cards[c] <= stored[c].rev /\ stored[c].rev \in Nat
              /\ ~(u.cards[c] < stored[c].rev)
          BY <2>3, <2>17, <2>21, <3>2, <3>6, <4>1 DEF CardsFresh, Has
        <5>2. u.cards[c] = stored[c].rev
          BY <5>1
        <5> QED BY <1>1, <2>14, <3>4, <4>1, <5>2 DEF Has
      <4>2. CASE c \notin DOMAIN u.cards
        <5>1. t.cards[c] = client.cards[c]
          BY <2>2, <3>6, <4>2 DEF AppliedFrom
        <5> QED BY <1>1, <2>14, <3>6, <5>1 DEF Has
      <4> QED BY <4>1, <4>2
    <3>7. /\ t.revision \in Nat /\ client.revision <= u.revision
          /\ client.revision <= t.revision /\ t.revision <= u.revision
          /\ stored[c].rev \in Nat /\ ~overtaken
      <4>1. t.revision = client.revision \/ t.revision = u.revision
        BY <2>2 DEF AppliedFrom
      <4> QED BY <1>4, <2>17, <2>21, <3>2, <4>1
    <3>8. ASSUME stored[c].rev <= t.revision PROVE Has(c)'
      <4>1. stored[c].rev <= u.revision
        BY <1>4, <3>7, <3>8
      <4>2. stored[c].live
        BY <2>10, <3>1, <3>3, <3>7, <3>8
      <4>3. CASE c \in RowCards(u) /\ OfList(u, held)
        BY <3>5, <4>1, <4>2, <4>3
      <4>4. CASE /\ c \in Loaded(client) /\ SameReview
                 /\ c \in DOMAIN client.cards => c \in DOMAIN t.cards
        <5>1. CASE c \in DOMAIN u.cards
          <6>1. u.cards[c] = stored[c].rev
            BY <2>3, <4>1, <5>1 DEF CardsFresh
          <6> QED BY <1>1, <2>14, <3>4, <5>1, <6>1 DEF Has
        <5>2. CASE c \notin DOMAIN u.cards
          <6>1. Has(c)
            <7>1. CASE stored[c].rev <= client.revision
              BY <2>12, <3>7, <4>4, <7>1 DEF CardsInv
            <7>2. CASE ~(stored[c].rev <= client.revision)
              <8>1. t.revision # client.revision
                BY <3>8, <7>2
              <8>2. ~window
                BY <2>2, <8>1 DEF AppliedFrom
              <8>3. Brings(m)
                BY <2>4, <8>2
              <8> QED BY <2>1, <2>11, <3>7, <4>1, <4>4, <5>2, <8>3 DEF CardsInv, u
            <7> QED BY <7>1, <7>2
          <6>2. c \in DOMAIN t.cards
            BY <4>4, <6>1 DEF Has
          <6> QED BY <3>6, <6>1, <6>2
        <5> QED BY <5>1, <5>2
      <4> QED BY <2>19, <4>3, <4>4
    <3>9. ASSUME NEW n \in flight', Brings(n), n.a[1].review = client.review,
                 stored[c].rev <= n.a[1].revision
          PROVE  c \in DOMAIN n.a[1].cards \/ Has(c)'
      <4>1. n \in flight /\ AnswerAt(n)
        BY <2>7, <3>9
      <4>2. n.a[1].revision \in Nat
        BY <4>1 DEF Kept, Shapes, MessageFits, Delivered, IsAnswerTo, AnswerAt
      <4>3. stored[c].live
        BY <2>9, <3>1, <3>3, <3>9, <4>1, <4>2
      <4>4. CASE c \in RowCards(u) /\ OfList(u, held)
        <5>1. CASE stored[c].rev <= u.revision
          BY <3>5, <4>3, <4>4, <5>1
        <5>2. CASE ~(stored[c].rev <= u.revision)
          <6>1. u.revision < stored[c].rev
            BY <1>4, <3>7, <5>2
          <6> QED BY <2>8, <3>1, <3>7, <3>9, <4>1, <4>4, <6>1 DEF CardsInv
        <5> QED BY <5>1, <5>2
      <4>5. CASE /\ c \in Loaded(client) /\ SameReview
                 /\ c \in DOMAIN client.cards => c \in DOMAIN t.cards
        <5>1. c \in DOMAIN n.a[1].cards \/ Has(c)
          BY <2>11, <3>7, <3>9, <4>1, <4>5 DEF CardsInv
        <5> QED BY <3>6, <4>5, <5>1 DEF Has
      <4> QED BY <2>19, <4>4, <4>5
    <3> QED BY <3>8, <3>9
  <2>23. PairInv'
    <3> SUFFICES ASSUME readBacks = 0, ~overtaken', held # Nowhere, held.id = client.review,
                        NEW p \in flight', NEW n \in flight',
                        Brings(p), p.a[1].review = client.review,
                        AnswerAt(n), OfList(n.a[1], held), t.revision <= n.a[1].revision,
                        NEW c \in RowCards(n.a[1]), n.a[1].revision < stored[c].rev,
                        stored[c].rev <= p.a[1].revision
                 PROVE  c \in DOMAIN p.a[1].cards
      BY <1>1, <2>14 DEF PairInv, Brings, AnswerAt, OfList
    <3>1. p \in flight /\ n \in flight
      BY <2>7
    <3>2. n.a[1].revision \in Nat
      BY <3>1 DEF Kept, Shapes, MessageFits, Delivered, IsAnswerTo, AnswerAt
    <3>3. t.revision \in Nat /\ client.revision <= t.revision /\ ~overtaken
      <4>1. t.revision = client.revision \/ t.revision = u.revision
        BY <2>2 DEF AppliedFrom
      <4> QED BY <1>4, <2>21, <4>1
    <3>4. client.revision <= n.a[1].revision
      BY <1>4, <3>2, <3>3
    <3> QED BY <3>1, <3>3, <3>4 DEF CardsInv, PairInv
  <2> QED BY <2>18, <2>20, <2>22, <2>23 DEF CardsInv
<1> QED BY <1>6, <1>7

(* The client of the next review has the cards it was told.                *)
LEMMA ReopenedCards ==
  ASSUME Kept, CardsInv, NEW m \in flight, OpenedAt(m)
  PROVE  CardsInv'
<1> DEFINE u == m.a[1]
           l == u.layout[1]
<1>1. /\ m.a # <<>> /\ m.q.kind = "open" /\ flight' = flight \ {m}
      /\ UNCHANGED <<stored, members, held, files, readBacks>>
  BY DEF OpenedAt
<1>2. /\ IsAnswer(u) /\ IsAnswerTo(m.q, u)
      /\ u.review = client.review + 1 /\ client'.review = u.review
      /\ u.layout = <<l>>
      /\ client'.revision = u.revision /\ client'.version = l.version
      /\ \A i \in DOMAIN client'.rows : i \in DOMAIN l.rows /\ client'.rows[i] = l.rows[i]
      /\ \A c \in DOMAIN client'.cards : c \in DOMAIN u.cards /\ client'.cards[c] = u.cards[c]
      /\ \A c \in DOMAIN u.cards : c \in Loaded(client') => c \in DOMAIN client'.cards
      /\ \A n \in flight' : n.q.kind # "open" /\ n.q.review <= client.review
  BY ReopenedShapes DEF Kept
<1>3. CardsFresh(u, stored)
  BY <1>1, <1>2 DEF CardsInv, FreshInv, AnswerAt
<1>4. client.review \in Nat /\ u.revision \in Nat /\ \A c \in Cards : stored[c].rev \in Nat
  <2>1. client.review \in Nat /\ Projection(stored)
    BY DEF Kept, Shapes, ClientFits
  <2>2. u.revision \in Nat
    BY <1>2 DEF IsAnswerTo
  <2> QED BY <2>1, <2>2 DEF Projection
<1>5. ASSUME NEW n \in flight', AnswerAt(n) PROVE n \in flight /\ n.a[1].review # client'.review
  <2>1. n \in flight /\ n.q.kind # "open" /\ n.q.review <= client.review
    BY <1>1, <1>2
  <2>2. MessageFits(n, client.review) /\ n.a # <<>> /\ IsAnswer(n.a[1])
    BY <1>5, <2>1 DEF Kept, Shapes, AnswerAt
  <2>3. n.a[1].review = n.q.review /\ n.q.review \in Nat
    BY <2>1, <2>2 DEF MessageFits, Delivered, IsAnswerTo
  <2> QED BY <1>2, <1>4, <2>1, <2>3
<1>6. Brings(m) /\ AnswerAt(m)
  BY <1>1, <1>2 DEF Brings, AnswerAt
<1>7. OfList(u, held) /\ readBacks = 0 /\ held # Nowhere =>
         RowCards(u) \subseteq held.review.served \cap Ids(held.review.order)
  BY <1>6 DEF CardsInv, ListInv
<1>8. held # Nowhere /\ held.id = client'.review => KnownAt(u.revision)
  <2> SUFFICES ASSUME held # Nowhere, held.id = client'.review PROVE KnownAt(u.revision)
    OBVIOUS
  <2>1. files # Nowhere /\ files.id = u.review
    BY <1>2 DEF Kept, FilesInv
  <2> QED BY <1>6, <2>1 DEF Kept, OrderInv
<1> HIDE DEF u
<1>9. Loaded(client') \subseteq RowCards(u)
  BY <1>2 DEF Loaded, RowCards
<1>10. FreshInv'
  <2>1. \A c \in DOMAIN client'.cards : client'.cards[c] \in Nat /\ client'.cards[c] <= stored[c].rev
    BY <1>2, <1>3 DEF CardsFresh
  <2> QED BY <1>1, <2>1 DEF CardsInv, FreshInv, AnswerAt
<1>11. SameReview' => OfList(u, held) /\ held # Nowhere /\ held.id = client'.review
  BY <1>1, <1>2 DEF SameReview, OfList
<1>12. ListInv'
  <2>1. readBacks = 0 /\ held # Nowhere /\ SameReview' =>
           Loaded(client') \subseteq held.review.served \cap Ids(held.review.order)
    BY <1>7, <1>9, <1>11
  <2> QED BY <1>1, <1>5, <2>1 DEF CardsInv, ListInv, AnswerAt, OfList
<1>13. HasInv'
  <2> SUFFICES ASSUME readBacks = 0, SameReview', NEW c \in Loaded(client'),
                      stored[c].rev <= u.revision
               PROVE  Has(c)'
    BY <1>1, <1>2, <1>5 DEF HasInv, Brings, AnswerAt
  <2>1. /\ held # Nowhere /\ KnownAt(u.revision)
        /\ c \in RowCards(u) /\ c \in Ids(held.review.order) /\ c \in Cards
    BY <1>3, <1>7, <1>8, <1>9, <1>11 DEF CardsFresh
  <2>2. stored[c].live
    BY <2>1, ListedLive
  <2>3. c \in DOMAIN u.cards /\ u.cards[c] = stored[c].rev
    BY <1>3, <2>1, <2>2 DEF CardsFresh
  <2> QED BY <1>1, <1>2, <2>3 DEF Has
<1>14. PairInv'
  BY <1>5 DEF PairInv, Brings, AnswerAt
<1> QED BY <1>10, <1>12, <1>13, <1>14 DEF CardsInv

(* So has the one the program starts with.                                 *)
LEMMA InitCards ==
  ASSUME Init
  PROVE  CardsInv
<1> DEFINE o == OpeningOf({}, 0)
           a == OfReview(o.answer, 1)
           r == o.review
           l == a.layout[1]
<1>1. /\ held = [id |-> 1, review |-> r] /\ client = Reopened(a) /\ flight = {}
      /\ members = Sources
  BY Zenon DEF Init
<1>2. Projection(stored) /\ InSections(stored) /\ ClientTyped
  BY InitKept DEF Kept, Shapes, ProjectionInv
<1>3. /\ Sound(r.order) /\ \A c : c \in Ids(r.order) <=> c \in LiveIn(stored, members)
      /\ AnswerTyped(a) /\ a.revision = Revision(stored)
      /\ SendsAsStored(o, stored) /\ RowCards(o.answer) \subseteq Ids(r.order)
  <2> DEFINE none == {}
             id == 1
             p == OpeningOf(none, 0)
             f == Written(id, [p.review EXCEPT !.served = {}])
             b == OfReview(p.answer, id)
  <2>1. /\ id \in Nat \ {0} /\ o = p /\ a = b /\ r = p.review
        /\ p = OpeningOf(none, 0) /\ b = OfReview(p.answer, id)
        /\ f = Written(id, [p.review EXCEPT !.served = {}])
    BY <1>1
  <2> HIDE DEF none, id, p, o, a, b, f
  <2> DEFINE q == p.review
  <2>2. q = p.review /\ f = Written(id, [q EXCEPT !.served = {}])
    BY <2>1
  <2> HIDE DEF q
  <2>3. /\ SendsAsStored(p, stored) /\ RowCards(p.answer) \subseteq Ids(q.order)
        /\ AnswerTyped(b) /\ Sound(q.order) /\ b.revision = Revision(stored)
        /\ \A c : c \in Ids(q.order) <=> c \in LiveIn(stored, members)
    BY <1>2, <2>1, <2>2, OpeningHolds
  <2> QED BY <2>1, <2>2, <2>3
<1>4. o.answer.layout = <<o.answer.layout[1]>> /\ o.answer.layout[1].version \in Nat
  BY <1>2, OpeningIs DEF Tells
<1>5. a.review = 1 /\ a.layout = o.answer.layout /\ a.cards = o.answer.cards
  BY OfReviewIs
<1> HIDE DEF o, a
<1>6. /\ a.layout = <<l>> /\ l.version \in Nat /\ a.revision \in Nat
  BY <1>2, <1>3, <1>4, <1>5, RevisionIs
<1>7. /\ \A i \in DOMAIN client.rows : i \in DOMAIN l.rows /\ client.rows[i] = l.rows[i]
      /\ \A c \in DOMAIN client.cards : c \in DOMAIN a.cards /\ client.cards[c] = a.cards[c]
      /\ \A c \in DOMAIN a.cards : c \in Loaded(client) => c \in DOMAIN client.cards
  BY <1>1, <1>6, ReopenedIs
<1>8. held.id = 1 /\ held.review = r
  BY <1>1
<1>9. Loaded(client) \subseteq RowCards(o.answer)
  BY <1>5, <1>6, <1>7 DEF Loaded, RowCards
<1>10. \A c \in DOMAIN client.cards : c \in Cards /\ client.cards[c] = stored[c].rev
                                      /\ stored[c].rev \in Nat
  BY <1>2, <1>3, <1>5, <1>7 DEF AnswerTyped, SendsAsStored, Projection
<1>11. FreshInv
  <2>1. \A c \in DOMAIN client.cards : client.cards[c] \in Nat /\ client.cards[c] <= stored[c].rev
    BY <1>10
  <2> QED BY <1>1, <2>1 DEF FreshInv
<1>12. ListInv
  BY <1>1, <1>3, <1>8, <1>9 DEF ListInv, SendsAsStored
<1>13. HasInv
  <2>1. ASSUME NEW c \in Loaded(client) PROVE Has(c)
    <3>1. stored[c].live
      BY <1>3, <1>9 DEF LiveIn
    <3>2. c \in DOMAIN client.cards
      BY <1>3, <1>5, <1>7, <1>9, <3>1 DEF SendsAsStored
    <3> QED BY <1>10, <3>2 DEF Has
  <2> QED BY <1>1, <2>1 DEF HasInv
<1>14. PairInv
  BY <1>1 DEF PairInv
<1> QED BY <1>11, <1>12, <1>13, <1>14 DEF CardsInv

(* Steps of the others, of the requests and of the failures leave what is  *)
(* known of the cards.                                                     *)
LEMMA IdleCards ==
  ASSUME Kept, ClientTyped, CardsInv,
         \/ Elsewhere \/ SetChanges \/ MoveTo \/ LetGo \/ NewCode
         \/ SendSteps \/ Refuse \/ DieWriting \/ Fail \/ ReceiveExpired
  PROVE  CardsInv'
<1>0. IsClient(client) /\ Projection(stored)
  BY DEF Kept, Shapes, ClientFits
<1>00. OnlyMoved(client, client)
  BY <1>0 DEF OnlyMoved
<1>000. stored' = stored => Grown(stored')
  BY <1>0 DEF Grown
<1>1. CASE Elsewhere
  <2>1. PICK c \in MayGo, live \in BOOLEAN, s \in {"ready", "reviewed"} :
          stored' = Wrote(c, live, s)
    BY <1>1, Zenon DEF Elsewhere
  <2>2. LiveMade(stored)
    BY DEF Kept, ProjectionInv
  <2>3. LET st == Wrote(c, live, s) IN Grown(st)
    BY <1>0, <2>2, WroteGrown
  <2>4. Grown(stored')
    BY <2>1, <2>3
  <2>5. UNCHANGED <<client, held, flight, readBacks, overtaken>>
    BY <1>1 DEF Elsewhere, Outside, store, screen
  <2> QED BY <1>00, <2>4, <2>5, CardsCarried
<1>2. CASE SetChanges
  <2>1. UNCHANGED <<stored, client, held, flight, readBacks, overtaken>>
    BY <1>2 DEF SetChanges, Outside, store, screen
  <2> QED BY <1>00, <1>000, <2>1, CardsCarried
<1>3. CASE MoveTo
  <2>1. PICK c \in Loaded(client) \ {client.current} : client' = WithCurrent(client, c)
    BY <1>3, Zenon DEF MoveTo
  <2>2. OnlyMoved(client', client)
    BY <1>0, <2>1, WithCurrentIs
  <2>3. UNCHANGED <<stored, held, flight, readBacks, overtaken>>
    BY <1>3 DEF MoveTo, store
  <2> QED BY <1>000, <2>2, <2>3, CardsCarried
<1>4. CASE LetGo \/ NewCode
  <2>1. held' = Nowhere /\ UNCHANGED <<stored, client, flight, readBacks, overtaken>>
    BY <1>4 DEF LetGo, NewCode, screen
  <2> QED BY <1>00, <1>000, <2>1, CardsCarried
<1>5. CASE SendSteps
  <2>1. PICK q : SendsOne(q)
    BY <1>5, SendsAre
  <2>2. flight' = flight \cup {Asked(q)} /\ UNCHANGED <<stored, held, readBacks, overtaken>>
    BY <2>1 DEF SendsOne, store
  <2>3. Asked(q).a = <<>>
    BY DEF Asked
  <2>4. OnlyMoved(client', client)
    <3>1. CASE client' = client
      BY <1>00, <3>1
    <3>2. CASE client' # client
      <4>1. PICK c : client' = WithCurrent(client, c)
        BY <2>1, <3>2 DEF SendsOne
      <4> QED BY <1>0, <4>1, WithCurrentIs
    <3> QED BY <3>1, <3>2
  <2>5. \A n \in flight' : n \in flight \/ ~AnswerAt(n)
    BY <2>2, <2>3 DEF AnswerAt
  <2> QED BY <1>000, <2>2, <2>4, <2>5, CardsCarried
<1>6. ASSUME NEW m \in flight, NEW a, ~IsAnswer(a), Answering(m, a), Grown(stored'),
             held' = held \/ held' = Nowhere,
             UNCHANGED <<client, readBacks, overtaken>>
      PROVE  CardsInv'
  <2>1. MessageFits(m, client.review)
    BY DEF Kept, Shapes
  <2> DEFINE n == [m EXCEPT !.a = <<a>>]
  <2>2. n.a[1] = a
    BY <2>1, AnsweredMessage
  <2>3. flight' = (flight \ {m}) \cup {n}
    BY <1>6 DEF Answering
  <2> HIDE DEF n
  <2>4. \A p \in flight' : p \in flight \/ ~AnswerAt(p)
    BY <1>6, <2>2, <2>3 DEF AnswerAt
  <2> QED BY <1>00, <1>6, <2>4, CardsCarried
<1>7. CASE Refuse
  <2>1. PICK m \in flight :
          /\ Answering(m, Refused) \/ Answering(m, Expired)
          /\ UNCHANGED <<stored, held, client, readBacks, overtaken>>
    BY <1>7, Zenon DEF Refuse, store, screen
  <2> QED BY <1>000, <1>6, <2>1, RefusalsAre
<1>8. CASE DieWriting
  <2>1. PICK m \in flight : Serves(m) /\ stored' = After(m.q) /\ Answering(m, Refused)
    BY <1>8, Zenon DEF DieWriting
  <2>2. held' = Nowhere /\ UNCHANGED <<client, readBacks, overtaken>>
    BY <1>8 DEF DieWriting, screen
  <2>3. RequestTyped(m.q) /\ m.q.kind \in Kinds
    BY <2>1 DEF Kept, MessagesTyped, Serves, Shapes, MessageFits
  <2>4. LiveMade(stored)
    BY DEF Kept, ProjectionInv
  <2>5. Grown(stored')
    BY <1>0, <2>1, <2>3, <2>4, AfterGrown
  <2> QED BY <1>6, <2>1, <2>2, <2>5, RefusalsAre
<1>9. CASE Fail \/ ReceiveExpired
  <2>1. PICK m \in flight : Falls(m)
    BY <1>9, FallsAre DEF Kept
  <2>2. PICK more : flight' = (flight \ {m}) \cup more /\ \A n \in more : n.a = <<>>
    BY <2>1 DEF Falls
  <2>3. \A n \in flight' : n \in flight \/ ~AnswerAt(n)
    BY <2>2 DEF AnswerAt
  <2>4. OnlyMoved(client', client) /\ UNCHANGED <<stored, held, readBacks, overtaken>>
    BY <2>1 DEF Falls, store
  <2> QED BY <1>000, <2>3, <2>4, CardsCarried
<1> QED BY <1>1, <1>2, <1>3, <1>4, <1>5, <1>7, <1>8, <1>9

(* Every step does.                                                        *)
LEMMA CardsStep ==
  ASSUME Kept, ClientTyped, RowsInv, CardsInv, [Next]_vars
  PROVE  CardsInv'
<1>1. CASE UNCHANGED vars
  <2>1. UNCHANGED <<stored, held, client, overtaken, flight, readBacks>>
    BY <1>1 DEF vars, store, screen
  <2>2. IsClient(client) /\ Projection(stored)
    BY DEF Kept, Shapes, ClientFits
  <2>3. OnlyMoved(client', client) /\ Grown(stored')
    BY <2>1, <2>2 DEF OnlyMoved, Grown
  <2> QED BY <2>1, <2>3, CardsCarried
<1>2. CASE Next
  <2>0. StepKinds
    BY <1>2, StepsAre
  <2>1. CASE \/ Elsewhere \/ SetChanges \/ MoveTo \/ LetGo \/ NewCode
             \/ SendSteps \/ Refuse \/ DieWriting \/ Fail \/ ReceiveExpired
    BY <2>1, IdleCards
  <2>2. CASE \E m \in flight : ServesOne(m)
    BY <2>2, ServedCards
  <2>3. CASE \E m \in flight : OpensOne(m)
    BY <2>3, OpenedCards
  <2>4. CASE \E m \in flight : \E window, keep \in BOOLEAN : Receives(m, window, keep)
    BY <2>4, ReceivedCards
  <2>5. CASE \E m \in flight : OpenedAt(m)
    BY <2>5, ReopenedCards
  <2> QED BY <2>0, <2>1, <2>2, <2>3, <2>4, <2>5, Zenon DEF StepKinds
<1> QED BY <1>1, <1>2

(* While nothing older was laid over it, a client on the list in memory    *)
(* has every card of its rows as stored up to its revision, however its    *)
(* requests and answers passed each other (ReviewAnswer.of, applyUpdate).  *)
THEOREM CardsAlwaysKnown == Spec => []CardsKnown
<1> DEFINE Inv == Kept /\ ClientTyped /\ RowsInv /\ CardsInv
<1>1. Init => Inv
  BY InitKept, InitRows, InitCards
<1>2. Inv /\ [Next]_vars => Inv'
  BY KeptStep, RowsStep, CardsStep DEF Kept
<1>3. Inv => CardsKnown
  <2> SUFFICES ASSUME Inv, readBacks = 0, ~overtaken, SameReview,
                      NEW c \in Loaded(client), stored[c].rev <= client.revision
               PROVE  /\ stored[c].live
                      /\ c \in DOMAIN client.cards /\ client.cards[c] = stored[c].rev
    BY DEF CardsKnown
  <2>1. Has(c)
    BY DEF CardsInv, HasInv
  <2>2. c \in Ids(held.review.order) /\ held # Nowhere /\ held.id = client.review
    BY DEF CardsInv, ListInv, SameReview
  <2>3. c \in Cards
    BY LoadedAre
  <2>4. KnownAt(client.revision)
    BY <2>2 DEF Kept, FilesInv, OrderInv
  <2>5. stored[c].live
    BY <2>2, <2>3, <2>4, ListedLive
  <2> QED BY <2>1, <2>5 DEF Has
<1> QED BY <1>1, <1>2, <1>3, PTL DEF Spec
=============================================================================
