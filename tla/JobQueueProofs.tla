--------------------------- MODULE JobQueueProofs ---------------------------
(***************************************************************************)
(* Theorems about the generation queue, for every set of keys, types and   *)
(* sources and every bound.                                                *)
(*                                                                         *)
(* First, what the writes of the jobs table preserve for every table: that *)
(* it stays a well-formed finite table (TableOK), and that it never holds  *)
(* two rows of one key (OneRowPerKey).  Then the claims: a thread that     *)
(* timed out has lost its jobs for good, a RUNNING job is somebody's, and  *)
(* a job in line stays until it is answered.  They rest on the stamp of a  *)
(* claim: a row that runs either ran before, with the stamp it has, or was *)
(* claimed by this step, with a stamp nobody remembers (RunningRanBefore). *)
(* Last, the order: every write of the table is a step of the line of work *)
(* (WorkLine), so the queue implements it.                                 *)
(***************************************************************************)
EXTENDS JobQueueLine, Integers, FiniteSetTheorems, FunctionTheorems, SequenceTheorems,
        WellFoundedInduction, TLAPS

-----------------------------------------------------------------------------
(* Greatest and least members.                                             *)

(* A non-empty finite set of naturals has a greatest member: of the sets   *)
(* "what lies above n", one has no smaller one beside it, and it is empty. *)
LEMMA MaxExists ==
  ASSUME NEW S \in SUBSET Nat, IsFiniteSet(S), S # {}
  PROVE  \E m \in S : \A k \in S : k <= m
<1> DEFINE Above(n) == {k \in S : k > n}
           Aboves == {Above(n) : n \in S}
<1>1. Aboves \subseteq FiniteSubsetsOf(S) /\ Aboves # {}
  <2>1. ASSUME NEW n \in S PROVE Above(n) \in FiniteSubsetsOf(S)
    <3>1. Above(n) \in SUBSET S
      OBVIOUS
    <3>2. IsFiniteSet(Above(n))
      BY <3>1, FS_Subset
    <3> QED BY <3>1, <3>2 DEF FiniteSubsetsOf
  <2> HIDE DEF Above
  <2> QED BY <2>1
<1>2. PICK U \in Aboves : \A V \in Aboves : <<V, U>> \notin StrictSubsetOrdering(S)
  <2> HIDE DEF Aboves
  <2> QED BY <1>1, FS_StrictSubsetOrderingWellFounded, WFMin
<1>3. PICK m \in S : U = Above(m)
  <2> HIDE DEF Above
  <2> QED OBVIOUS
<1>4. ASSUME NEW k \in S, k > m PROVE FALSE
  <2>0. k \in Nat /\ m \in Nat /\ S \subseteq Nat
    OBVIOUS
  <2>1. \A j \in Nat : j > k => j > m
    BY <2>0, <1>4
  <2>2. Above(k) \subseteq Above(m)
    BY <2>0, <2>1
  <2>3. k \in Above(m) /\ k \notin Above(k)
    BY <1>4, <2>0
  <2>4. <<Above(k), Above(m)>> \in StrictSubsetOrdering(S)
    <3>1. Above(k) \in SUBSET S /\ Above(m) \in SUBSET S
      OBVIOUS
    <3> HIDE DEF Above
    <3> QED BY <2>2, <2>3, <3>1 DEF StrictSubsetOrdering
  <2>5. Above(k) \in Aboves
    OBVIOUS
  <2> HIDE DEF Above, Aboves
  <2> QED BY <2>4, <2>5, <1>2, <1>3
<1>5. \A k \in S : ~(k > m)
  BY <1>4
<1> QED BY <1>5

(* A non-empty finite set of naturals has a least member: its mirror image *)
(* below its greatest member has a greatest one.                           *)
LEMMA MinExists ==
  ASSUME NEW S \in SUBSET Nat, IsFiniteSet(S), S # {}
  PROVE  \E m \in S : \A k \in S : m <= k
<1>1. PICK top \in S : \A k \in S : k <= top
  BY MaxExists
<1> DEFINE Mirror == {n \in 0 .. top : top - n \in S}
<1>2. Mirror \in SUBSET Nat /\ IsFiniteSet(Mirror)
  <2>1. IsFiniteSet(0 .. top)
    BY FS_Interval
  <2> QED BY <2>1, FS_Subset
<1>3. \A k \in S : top - k \in Mirror /\ top - (top - k) = k
  BY <1>1
<1>4. PICK n \in Mirror : \A j \in Mirror : j <= n
  <2>1. Mirror # {}
    BY <1>3
  <2> HIDE DEF Mirror
  <2> QED BY <1>2, <2>1, MaxExists
<1>5. \A k \in S : top - n <= k
  BY <1>3, <1>4, <1>1
<1> QED BY <1>4, <1>5

-----------------------------------------------------------------------------
(* The line.                                                               *)

(* What says of finitely many things which are ahead of which, as a strict *)
(* total order does.                                                       *)
IsLine(ahead) ==
    /\ IsFiniteSet(DOMAIN ahead)
    /\ \A x \in DOMAIN ahead : ahead[x] \subseteq DOMAIN ahead /\ x \notin ahead[x]
    /\ \A x, y \in DOMAIN ahead : x \in ahead[y] => ahead[x] \subseteq ahead[y]
    /\ \A x, y \in DOMAIN ahead : x = y \/ x \in ahead[y] \/ y \in ahead[x]

(* How many are ahead of a thing tells its place: fewer than there are,    *)
(* and fewer than are ahead of whatever it is ahead of.                    *)
LEMMA FewerAhead ==
  ASSUME NEW ahead, IsLine(ahead)
  PROVE  /\ \A x \in DOMAIN ahead :
              /\ IsFiniteSet(ahead[x])
              /\ Cardinality(ahead[x]) \in Nat
              /\ Cardinality(ahead[x]) < Cardinality(DOMAIN ahead)
         /\ \A x, y \in DOMAIN ahead :
              x \in ahead[y] => Cardinality(ahead[x]) < Cardinality(ahead[y])
         /\ Cardinality(DOMAIN ahead) \in Nat
<1> DEFINE S == DOMAIN ahead
<1>1. ASSUME NEW A \in SUBSET S, NEW B \in SUBSET S, NEW x \in B, x \notin A, A \subseteq B
      PROVE  Cardinality(A) \in Nat /\ Cardinality(B) \in Nat /\ Cardinality(A) < Cardinality(B)
  <2>0. IsFiniteSet(S)
    BY DEF IsLine
  <2>1. IsFiniteSet(A) /\ IsFiniteSet(B)
    BY <2>0, FS_Subset, Zenon
  <2>2. Cardinality(A) \in Nat /\ Cardinality(B) \in Nat
    BY <2>1, FS_CardinalityType
  <2>3. Cardinality(A) <= Cardinality(B) /\ (Cardinality(B) = Cardinality(A) => B = A)
    BY <2>1, <1>1, FS_Subset
  <2> QED BY <2>2, <2>3, <1>1
<1>2. ASSUME NEW x \in S
      PROVE  /\ IsFiniteSet(ahead[x]) /\ Cardinality(ahead[x]) \in Nat
             /\ Cardinality(ahead[x]) < Cardinality(S)
  <2>1. ahead[x] \in SUBSET S /\ x \notin ahead[x] /\ IsFiniteSet(S) /\ S \in SUBSET S
    BY DEF IsLine
  <2> QED BY <2>1, <1>1, FS_Subset
<1>3. ASSUME NEW x \in S, NEW y \in S, x \in ahead[y]
      PROVE  Cardinality(ahead[x]) < Cardinality(ahead[y])
  <2>1. ahead[x] \in SUBSET S /\ ahead[y] \in SUBSET S /\ x \notin ahead[x]
        /\ ahead[x] \subseteq ahead[y]
    BY <1>3 DEF IsLine
  <2> QED BY <2>1, <1>1, <1>3
<1>4. Cardinality(S) \in Nat
  BY FS_CardinalityType DEF IsLine
<1> QED BY <1>2, <1>3, <1>4

(* Every place is somebody's: as many are ahead of one as there are places *)
(* before it.                                                              *)
LEMMA EveryPlaceTaken ==
  ASSUME NEW ahead, IsLine(ahead), NEW n \in 1 .. Cardinality(DOMAIN ahead)
  PROVE  \E x \in DOMAIN ahead : Cardinality(ahead[x]) = n - 1
<1> DEFINE S == DOMAIN ahead
           N == Cardinality(S)
           f == [x \in S |-> Cardinality(ahead[x]) + 1]
<1>1. IsFiniteSet(S) /\ N \in Nat
  BY FewerAhead DEF IsLine
<1>2. f \in Injection(S, 1 .. N)
  <2>1. f \in [S -> 1 .. N]
    BY FewerAhead
  <2>2. ASSUME NEW x \in S, NEW y \in S, f[x] = f[y] PROVE x = y
    <3>1. Cardinality(ahead[x]) = Cardinality(ahead[y])
      BY <2>2, FewerAhead
    <3> QED BY <3>1, FewerAhead DEF IsLine
  <2> HIDE DEF f, N
  <2> QED BY <2>1, <2>2, Fun_IsInj
<1>3. IsFiniteSet(1 .. N) /\ Cardinality(1 .. N) = N
  BY <1>1, FS_Interval
<1>4. f \in Surjection(S, 1 .. N)
  <2> HIDE DEF f, N
  <2> QED BY <1>1, <1>2, <1>3, FS_Injection DEF N
<1>5. \E x \in S : f[x] = n
  <2> HIDE DEF f
  <2> QED BY <1>4 DEF Surjection
<1>6. PICK x \in S : Cardinality(ahead[x]) + 1 = n
  BY <1>5
<1> QED BY <1>6, FewerAhead

(* The line: each thing stands at the place its number of things ahead     *)
(* gives it, and what is ahead of it stands before it.                     *)
LEMMA LineUpIs ==
  ASSUME NEW ahead, IsLine(ahead)
  PROVE  LET s == LineUp(ahead)
             N == Cardinality(DOMAIN ahead)
         IN  /\ N \in Nat
             /\ s \in [1 .. N -> DOMAIN ahead]
             /\ \A n \in 1 .. N : Cardinality(ahead[s[n]]) = n - 1
             /\ \A x \in DOMAIN ahead : \E n \in 1 .. N : s[n] = x
             /\ \A m, n \in 1 .. N : s[m] \in ahead[s[n]] <=> m < n
             /\ \A m, n \in 1 .. N : s[m] = s[n] => m = n
<1> DEFINE s == LineUp(ahead)
           N == Cardinality(DOMAIN ahead)
           S == DOMAIN ahead
<1>0. N \in Nat
  BY FewerAhead
<1>1. \A n \in 1 .. N : s[n] \in S /\ Cardinality(ahead[s[n]]) = n - 1
  BY EveryPlaceTaken, Zenon DEF LineUp
<1>2. s \in [1 .. N -> S]
  BY <1>1 DEF LineUp
<1> HIDE DEF s
<1>3. ASSUME NEW x \in S PROVE \E n \in 1 .. N : s[n] = x
  <2> DEFINE n == Cardinality(ahead[x]) + 1
  <2>1. n \in 1 .. N /\ n - 1 = Cardinality(ahead[x])
    BY FewerAhead
  <2> HIDE DEF n
  <2>2. s[n] \in S /\ Cardinality(ahead[s[n]]) = Cardinality(ahead[x])
    BY <2>1, <1>1
  <2>3. s[n] = x
    BY <2>2, FewerAhead DEF IsLine
  <2> QED BY <2>1, <2>3
<1>4. ASSUME NEW m \in 1 .. N, NEW n \in 1 .. N PROVE s[m] \in ahead[s[n]] <=> m < n
  <2>1. s[m] \in S /\ s[n] \in S /\ Cardinality(ahead[s[m]]) = m - 1
        /\ Cardinality(ahead[s[n]]) = n - 1
    BY <1>1
  <2>2. s[m] \in ahead[s[n]] => m < n
    BY <2>1, <1>0, FewerAhead
  <2>3. m < n => ~(s[m] = s[n]) /\ ~(s[n] \in ahead[s[m]])
    BY <2>1, <1>0, FewerAhead
  <2> QED BY <2>1, <2>2, <2>3 DEF IsLine
<1>5. ASSUME NEW m \in 1 .. N, NEW n \in 1 .. N, s[m] = s[n] PROVE m = n
  BY <1>1, <1>5, <1>0
<1> QED BY <1>0, <1>1, <1>2, <1>3, <1>4, <1>5 DEF s

(* There is one line only: a sequence of all the things, each ahead of the *)
(* ones after it, is it.                                                   *)
LEMMA OneLine ==
  ASSUME NEW ahead, IsLine(ahead),
         NEW t \in [1 .. Cardinality(DOMAIN ahead) -> DOMAIN ahead],
         \A m, n \in 1 .. Cardinality(DOMAIN ahead) : m < n => t[m] \in ahead[t[n]]
  PROVE  t = LineUp(ahead)
<1> DEFINE S == DOMAIN ahead
           N == Cardinality(S)
<1>0. N \in Nat /\ IsFiniteSet(S)
  BY FewerAhead DEF IsLine
<1>1. ASSUME NEW m \in 1 .. N, NEW n \in 1 .. N, t[m] = t[n] PROVE m = n
  <2>1. t[m] \in S /\ t[n] \in S /\ t[m] \notin ahead[t[n]] /\ t[n] \notin ahead[t[m]]
    BY <1>1 DEF IsLine
  <2> QED BY <2>1, <1>0
<1>2. t \in Injection(1 .. N, S)
  BY <1>1, Fun_IsInj
<1>3. IsFiniteSet(1 .. N) /\ Cardinality(1 .. N) = N
  BY <1>0, FS_Interval
<1>4. t \in Surjection(1 .. N, S)
  <2> HIDE DEF N
  <2> QED BY <1>0, <1>2, <1>3, FS_Injection DEF N
<1>5. ASSUME NEW n \in 1 .. N PROVE Cardinality(ahead[t[n]]) = n - 1
  <2> DEFINE before == [i \in 1 .. n - 1 |-> t[i]]
  <2>0. 1 .. n - 1 \subseteq 1 .. N /\ n - 1 \in Nat
    BY <1>0
  <2>1. \A i \in 1 .. n - 1 : t[i] \in ahead[t[n]]
    BY <1>0, <2>0
  <2>2. ASSUME NEW y \in ahead[t[n]] PROVE \E i \in 1 .. n - 1 : t[i] = y
    <3>1. t[n] \in S /\ y \in S
      BY DEF IsLine
    <3>2. PICK j \in 1 .. N : t[j] = y
      BY <3>1, <1>4 DEF Surjection
    <3>3. j # n
      BY <3>1, <3>2 DEF IsLine
    <3>4. ~(n < j)
      <4> SUFFICES ASSUME n < j PROVE FALSE
        OBVIOUS
      <4>1. t[n] \in ahead[y]
        BY <3>2
      <4>2. ahead[y] \subseteq ahead[t[n]]
        BY <3>1 DEF IsLine
      <4> QED BY <4>1, <4>2, <3>1 DEF IsLine
    <3> QED BY <3>2, <3>3, <3>4, <1>0
  <2>3. before \in Bijection(1 .. n - 1, ahead[t[n]])
    <3>1. before \in [1 .. n - 1 -> ahead[t[n]]]
      BY <2>1
    <3>2. \A i, j \in 1 .. n - 1 : before[i] = before[j] => i = j
      BY <2>0, <1>1
    <3>3. \A y \in ahead[t[n]] : \E i \in 1 .. n - 1 : before[i] = y
      BY <2>2
    <3> HIDE DEF before
    <3>4. before \in Injection(1 .. n - 1, ahead[t[n]]) /\ before \in Surjection(1 .. n - 1, ahead[t[n]])
      BY <3>1, <3>2, <3>3, Fun_IsInj, Fun_IsSurj
    <3> QED BY <3>4 DEF Bijection
  <2>4. IsFiniteSet(1 .. n - 1) /\ Cardinality(1 .. n - 1) = n - 1
    <3> DEFINE m == n - 1
    <3>1. 1 \in Int /\ m \in Int /\ 0 <= m
      BY <2>0
    <3> HIDE DEF m
    <3>2. IsFiniteSet(1 .. m) /\ Cardinality(1 .. m) = IF 1 > m THEN 0 ELSE m - 1 + 1
      BY <3>1, FS_Interval
    <3>3. IsFiniteSet(1 .. m) /\ Cardinality(1 .. m) = m
      BY <3>1, <3>2
    <3> QED BY <3>3 DEF m
  <2>5. ExistsBijection(1 .. n - 1, ahead[t[n]])
    BY <2>3 DEF ExistsBijection
  <2> QED BY <2>4, <2>5, FS_Bijection
<1> DEFINE s == LineUp(ahead)
<1>6. /\ s \in [1 .. N -> S]
      /\ \A n \in 1 .. N : Cardinality(ahead[s[n]]) = n - 1
  BY LineUpIs
<1> HIDE DEF s
<1>7. ASSUME NEW n \in 1 .. N PROVE s[n] = t[n]
  <2>1. s[n] \in S /\ t[n] \in S /\ Cardinality(ahead[s[n]]) = Cardinality(ahead[t[n]])
    BY <1>5, <1>6
  <2> QED BY <2>1, FewerAhead DEF IsLine
<1>8. t \in [1 .. N -> S]
  OBVIOUS
<1> HIDE DEF N, S
<1>9. s = t
  <2>1. s = [n \in 1 .. N |-> s[n]] /\ t = [n \in 1 .. N |-> t[n]]
    BY <1>6, <1>8
  <2>2. [n \in 1 .. N |-> s[n]] = [n \in 1 .. N |-> t[n]]
    BY <1>7
  <2> QED BY <2>1, <2>2, Zenon
<1> QED BY <1>9 DEF s

-----------------------------------------------------------------------------
(* Parts of a line.                                                        *)

(* Some natural numbers, each with the smaller ones, are a line.           *)
LEMMA NumbersLine ==
  ASSUME NEW P \in SUBSET Nat, IsFiniteSet(P)
  PROVE  IsLine([i \in P |-> {j \in P : j < i}])
<1> DEFINE f == [i \in P |-> {j \in P : j < i}]
<1>1. DOMAIN f = P /\ \A i \in P : f[i] = {j \in P : j < i}
  OBVIOUS
<1> HIDE DEF f
<1>0. \A x \in P : x \in Nat
  OBVIOUS
<1>2. \A x, y \in P : x \in f[y] <=> x < y
  BY <1>1
<1>3. \A x \in P : f[x] \subseteq P /\ x \notin f[x]
  BY <1>1
<1>4. ASSUME NEW x \in P, NEW y \in P, x \in f[y] PROVE f[x] \subseteq f[y]
  <2>1. ASSUME NEW z \in P, z < x PROVE z < y
    <3>1. x \in Nat /\ y \in Nat /\ z \in Nat /\ x < y /\ z < x
      BY <1>0, <1>2, <1>4, <2>1
    <3> QED BY <3>1
  <2> QED BY <2>1, <1>1
<1>5. ASSUME NEW x \in P, NEW y \in P PROVE x = y \/ x < y \/ y < x
  <2>1. x \in Nat /\ y \in Nat
    BY <1>0
  <2> QED BY <2>1
<1>6. IsLine(f)
  BY <1>1, <1>2, <1>3, <1>4, <1>5 DEF IsLine
<1> QED BY <1>6 DEF f

(* The things of a part, each with the ones of the part ahead of it.       *)
Part(ahead, B) == [x \in B |-> ahead[x] \cap B]

(* The places of a part in the line.                                       *)
PlacesOf(ahead, B) == {n \in 1 .. Cardinality(DOMAIN ahead) : LineUp(ahead)[n] \in B}

(* A part of a line is a line, and what is picked from the line.           *)
LEMMA LineOfPart ==
  ASSUME NEW ahead, IsLine(ahead), NEW B \in SUBSET DOMAIN ahead
  PROVE  LET at == Ascending(PlacesOf(ahead, B))
         IN  /\ IsLine(Part(ahead, B))
             /\ at \in [1 .. Cardinality(B) -> PlacesOf(ahead, B)]
             /\ LineUp(Part(ahead, B)) = [n \in 1 .. Cardinality(B) |-> LineUp(ahead)[at[n]]]
<1> DEFINE s == LineUp(ahead)
           N == Cardinality(DOMAIN ahead)
           P == {n \in 1 .. N : s[n] \in B}
           f == [i \in P |-> {j \in P : j < i}]
           at == LineUp(f)
           part == Part(ahead, B)
           M == Cardinality(B)
           t == [n \in 1 .. M |-> s[at[n]]]
<1>1. IsLine(part) /\ DOMAIN part = B /\ \A x \in B : part[x] = ahead[x] \cap B
  <2>1. IsFiniteSet(B)
    BY FS_Subset DEF IsLine
  <2> QED BY <2>1 DEF IsLine, Part
<1>2. /\ N \in Nat
      /\ s \in [1 .. N -> DOMAIN ahead]
      /\ \A x \in DOMAIN ahead : \E n \in 1 .. N : s[n] = x
      /\ \A m, n \in 1 .. N : s[m] \in ahead[s[n]] <=> m < n
      /\ \A m, n \in 1 .. N : s[m] = s[n] => m = n
  BY LineUpIs
<1> HIDE DEF s, N, part
<1>3. P \in SUBSET Nat /\ IsFiniteSet(P) /\ P \subseteq 1 .. N
  <2>0. N \in Nat
    BY <1>2
  <2>1. IsFiniteSet(1 .. N) /\ 1 .. N \subseteq Nat
    BY <2>0, FS_Interval
  <2>2. P \in SUBSET (1 .. N)
    OBVIOUS
  <2> HIDE DEF P
  <2> QED BY <2>1, <2>2, FS_Subset
<1>4. Cardinality(P) = M
  <2> DEFINE g == [n \in P |-> s[n]]
  <2>1. g \in [P -> B]
    OBVIOUS
  <2>2. \A m, n \in P : g[m] = g[n] => m = n
    BY <1>2
  <2>3. \A x \in B : \E n \in P : g[n] = x
    BY <1>2
  <2> HIDE DEF g, P
  <2>4. g \in Injection(P, B) /\ g \in Surjection(P, B)
    BY <2>1, <2>2, <2>3, Fun_IsInj, Fun_IsSurj
  <2>5. ExistsBijection(P, B)
    BY <2>4 DEF ExistsBijection, Bijection
  <2> QED BY <1>3, <2>5, FS_Bijection
<1>5. IsLine(f) /\ DOMAIN f = P /\ \A x, y \in P : x \in f[y] <=> x < y
  <2>1. \A x, y \in P : x \in f[y] <=> x < y
    OBVIOUS
  <2> QED BY <2>1, <1>3, NumbersLine
<1> HIDE DEF f
<1>6. /\ at \in [1 .. M -> P]
      /\ \A m, n \in 1 .. M : at[m] \in f[at[n]] <=> m < n
  <2> HIDE DEF P
  <2> QED BY <1>4, <1>5, LineUpIs
<1> HIDE DEF at
<1>7. t \in [1 .. M -> B]
  BY <1>6
<1>8. \A m, n \in 1 .. M : m < n => t[m] \in part[t[n]]
  <2> TAKE m, n \in 1 .. M
  <2> HAVE m < n
  <2>1. at[m] \in P /\ at[n] \in P /\ at[m] < at[n]
    BY <1>5, <1>6
  <2>2. s[at[m]] \in ahead[s[at[n]]] /\ s[at[m]] \in B /\ s[at[n]] \in B
    BY <2>1, <1>2
  <2> QED BY <2>2, <1>1
<1>9. t = LineUp(part)
  <2> HIDE DEF t, M, P
  <2> QED BY <1>1, <1>7, <1>8, OneLine DEF M
<1> QED BY <1>1, <1>6, <1>9 DEF s, N, f, at, part, Ascending, PlacesOf

(* Two lines, one behind the other.                                        *)
LEMMA LinesJoined ==
  ASSUME NEW ahead, IsLine(ahead), NEW A, NEW B,
         DOMAIN ahead = A \cup B, A \cap B = {},
         \A x \in A : ahead[x] \subseteq A,
         \A x \in B : A \subseteq ahead[x]
  PROVE  /\ IsLine(Part(ahead, A)) /\ IsLine(Part(ahead, B))
         /\ Cardinality(A) \in Nat /\ Cardinality(B) \in Nat
         /\ Cardinality(DOMAIN ahead) = Cardinality(A) + Cardinality(B)
         /\ \A n \in 1 .. Cardinality(A) + Cardinality(B) :
               LineUp(ahead)[n] = IF n <= Cardinality(A)
                                  THEN LineUp(Part(ahead, A))[n]
                                  ELSE LineUp(Part(ahead, B))[n - Cardinality(A)]
<1> DEFINE N == Cardinality(A)
           M == Cardinality(B)
           a == LineUp(Part(ahead, A))
           b == LineUp(Part(ahead, B))
           t == [n \in 1 .. N + M |-> IF n <= N THEN a[n] ELSE b[n - N]]
<1>1. IsFiniteSet(A) /\ IsFiniteSet(B)
  <2>1. A \in SUBSET DOMAIN ahead /\ B \in SUBSET DOMAIN ahead /\ IsFiniteSet(DOMAIN ahead)
    BY DEF IsLine
  <2> QED BY <2>1, FS_Subset
<1>2. N \in Nat /\ M \in Nat
  BY <1>1, FS_CardinalityType
<1>3. Cardinality(DOMAIN ahead) = N + M
  <2>1. Cardinality(A \cup B) = Cardinality(A) + Cardinality(B) - Cardinality(A \cap B)
    BY <1>1, FS_Union
  <2>2. Cardinality(A \cap B) = 0
    BY FS_EmptySet
  <2> QED BY <1>2, <2>1, <2>2
<1>4. IsLine(Part(ahead, A)) /\ IsLine(Part(ahead, B))
  BY LineOfPart
<1>5. /\ DOMAIN Part(ahead, A) = A /\ DOMAIN Part(ahead, B) = B
      /\ \A x \in A : Part(ahead, A)[x] \subseteq ahead[x]
      /\ \A x \in B : Part(ahead, B)[x] \subseteq ahead[x]
  BY DEF Part
<1>6. /\ a \in [1 .. N -> A]
      /\ \A m, n \in 1 .. N : a[m] \in Part(ahead, A)[a[n]] <=> m < n
  BY <1>4, <1>5, LineUpIs
<1>7. /\ b \in [1 .. M -> B]
      /\ \A m, n \in 1 .. M : b[m] \in Part(ahead, B)[b[n]] <=> m < n
  BY <1>4, <1>5, LineUpIs
<1> HIDE DEF a, b, N, M
<1>8. t \in [1 .. N + M -> A \cup B]
  BY <1>2, <1>6, <1>7
<1>9. \A m, n \in 1 .. N + M : m < n => t[m] \in ahead[t[n]]
  <2> TAKE m, n \in 1 .. N + M
  <2> HAVE m < n
  <2>1. CASE n <= N
    <3>1. m \in 1 .. N /\ n \in 1 .. N /\ t[m] = a[m] /\ t[n] = a[n]
      BY <1>2, <2>1
    <3> HIDE DEF t
    <3> QED BY <3>1, <1>5, <1>6
  <2>2. CASE m <= N /\ ~(n <= N)
    <3>1. m \in 1 .. N /\ n - N \in 1 .. M /\ t[m] = a[m] /\ t[n] = b[n - N]
      BY <1>2, <2>2
    <3> HIDE DEF t
    <3> QED BY <3>1, <1>6, <1>7
  <2>3. CASE ~(m <= N) /\ ~(n <= N)
    <3>1. m - N \in 1 .. M /\ n - N \in 1 .. M /\ m - N < n - N
          /\ t[m] = b[m - N] /\ t[n] = b[n - N]
      BY <1>2, <2>3
    <3> HIDE DEF t
    <3> QED BY <3>1, <1>5, <1>7
  <2> QED BY <1>2, <2>1, <2>2, <2>3
<1>10. t = LineUp(ahead)
  <2> HIDE DEF t
  <2> QED BY <1>3, <1>8, <1>9, OneLine
<1>11. \A n \in 1 .. N + M : LineUp(ahead)[n] = IF n <= N THEN a[n] ELSE b[n - N]
  BY <1>10
<1> HIDE DEF t
<1> QED BY <1>2, <1>3, <1>4, <1>11 DEF a, b, N, M

(* The things at the first n places.                                       *)
Leading(s, n) == {s[i] : i \in 1 .. n}

(* The front of a line: with each thing, all the things ahead of it.       *)
LEMMA LineFront ==
  ASSUME NEW ahead, IsLine(ahead), NEW D \in SUBSET DOMAIN ahead,
         \A x \in D : ahead[x] \subseteq D, D # {}
  PROVE  \E n \in 1 .. Cardinality(DOMAIN ahead) :
            D = Leading(LineUp(ahead), n)
<1> DEFINE s == LineUp(ahead)
           N == Cardinality(DOMAIN ahead)
           P == {n \in 1 .. N : s[n] \in D}
<1>1. /\ N \in Nat
      /\ s \in [1 .. N -> DOMAIN ahead]
      /\ \A x \in DOMAIN ahead : \E n \in 1 .. N : s[n] = x
      /\ \A m, n \in 1 .. N : s[m] \in ahead[s[n]] <=> m < n
  BY LineUpIs
<1> HIDE DEF s, N
<1>2. P # {} /\ P \in SUBSET (1 .. N)
  BY <1>1
<1>3. PICK n \in 1 .. N : s[n] \in D /\ \A x \in D : x = s[n] \/ x \in ahead[s[n]]
  <2>0. N \in Nat
    BY <1>1
  <2>1. IsFiniteSet(1 .. N) /\ 1 .. N \subseteq Nat
    BY <2>0, FS_Interval
  <2>2. \E m \in P : \A k \in P : k <= m
    <3> HIDE DEF P
    <3>1. P \in SUBSET Nat /\ IsFiniteSet(P)
      BY <1>2, <2>1, FS_Subset
    <3> QED BY <1>2, <3>1, MaxExists
  <2>3. PICK m \in P : \A k \in P : k <= m
    BY <2>2
  <2>4. ASSUME NEW x \in D PROVE x = s[m] \/ x \in ahead[s[m]]
    <3>1. PICK k \in 1 .. N : s[k] = x
      BY <1>1
    <3>2. k \in P /\ k <= m /\ m \in 1 .. N
      BY <3>1, <2>3
    <3> QED BY <3>1, <3>2, <1>1
  <2> QED BY <2>3, <2>4
<1>4. \A i \in 1 .. n : i \in 1 .. N
  BY <1>1
<1>5. ASSUME NEW i \in 1 .. n PROVE s[i] \in D
  <2>1. i = n \/ s[i] \in ahead[s[n]]
    BY <1>1, <1>4
  <2> QED BY <1>3, <2>1
<1>6. ASSUME NEW x \in D PROVE \E i \in 1 .. n : s[i] = x
  <2>1. PICK k \in 1 .. N : s[k] = x
    BY <1>1
  <2>2. k <= n
    BY <1>1, <1>3, <2>1
  <2> QED BY <2>1, <2>2, <1>1
<1>7. D = {s[i] : i \in 1 .. n}
  BY <1>5, <1>6
<1>8. D = Leading(s, n)
  BY <1>7 DEF Leading
<1> QED BY <1>8 DEF s, N

-----------------------------------------------------------------------------
(* The greatest number.                                                    *)

(* Greatest is the greatest: a natural no member exceeds.                  *)
LEMMA GreatestBounds ==
  ASSUME NEW S \in SUBSET Nat, IsFiniteSet(S)
  PROVE  /\ Greatest(S) \in Nat
         /\ \A n \in S : n <= Greatest(S)
<1>1. \E top \in S \cup {0} : \A n \in S : n <= top
  BY MaxExists
<1>2. Greatest(S) \in S \cup {0} /\ \A n \in S : n <= Greatest(S)
  BY <1>1, Zenon DEF Greatest
<1>3. S \cup {0} \subseteq Nat
  OBVIOUS
<1> QED BY <1>2, <1>3, Zenon

-----------------------------------------------------------------------------
(* Reading a table.                                                        *)

(* The times a set of rows was created at are finitely many naturals.      *)
LEMMA CreatedFinite ==
  ASSUME NEW t, TableOK(t), NEW ids \in SUBSET DOMAIN t
  PROVE  /\ {t[i].created : i \in ids} \in SUBSET Nat
         /\ IsFiniteSet({t[i].created : i \in ids})
<1> DEFINE times == {t[i].created : i \in ids}
           createdAt == [i \in ids |-> t[i].created]
<1>1. times \in SUBSET Nat
  BY DEF TableOK, Row
<1>2. IsFiniteSet(ids)
  BY FS_Subset DEF TableOK
<1>3. createdAt \in Surjection(ids, times)
  <2>1. createdAt \in [ids -> times]
    OBVIOUS
  <2>2. \A time \in times : \E i \in ids : createdAt[i] = time
    OBVIOUS
  <2> HIDE DEF createdAt, times
  <2> QED BY <2>1, <2>2, Fun_IsSurj
<1> HIDE DEF createdAt, times
<1>4. IsFiniteSet(times)
  BY <1>2, <1>3, FS_Surjection
<1> QED BY <1>1, <1>4 DEF times

(* The clock reading of a write is a natural later than every row.         *)
LEMMA NowIsLater ==
  ASSUME NEW t, TableOK(t)
  PROVE  /\ Now(t) \in Nat
         /\ \A i \in DOMAIN t : t[i].created < Now(t)
<1> DEFINE times == {t[i].created : i \in DOMAIN t}
<1>1. times \in SUBSET Nat /\ IsFiniteSet(times)
  BY CreatedFinite
<1>2. Greatest(times) \in Nat /\ \A n \in times : n <= Greatest(times)
  <2> HIDE DEF times
  <2> QED BY <1>1, GreatestBounds
<1>3. Now(t) = Greatest(times) + 1
  BY DEF Now
<1>4. ASSUME NEW i \in DOMAIN t PROVE t[i].created < Now(t)
  <2>1. t[i].created \in times
    OBVIOUS
  <2> DEFINE time == t[i].created
             top == Greatest(times)
  <2>2. time \in Nat /\ top \in Nat /\ time <= top
    <3> HIDE DEF times
    <3> QED BY <1>1, <1>2, <2>1
  <2>3. Now(t) = top + 1
    BY <1>3
  <2> HIDE DEF time, top
  <2>4. time < Now(t)
    BY <2>2, <2>3
  <2> QED BY <2>4 DEF time
<1> HIDE DEF times
<1>5. Now(t) \in Nat
  BY <1>2, <1>3
<1> QED BY <1>4, <1>5

(* A queue that is not empty has a head: the claim's CHOOSE is never idle. *)
LEMMA HeadIsQueued ==
  ASSUME NEW t, TableOK(t), Queued(t) # {}
  PROVE  /\ HeadOf(t) \in Queued(t)
         /\ \A i \in Queued(t) \ {HeadOf(t)} : Before(t, HeadOf(t), i)
<1> DEFINE times == {t[i].created : i \in Queued(t)}
<1>0. Queued(t) \in SUBSET DOMAIN t
  BY DEF Queued, WithStatus
<1>1. times \in SUBSET Nat /\ IsFiniteSet(times) /\ times # {}
  BY <1>0, CreatedFinite
<1>2. PICK first \in times : \A n \in times : first <= n
  <2> HIDE DEF times
  <2> QED BY <1>1, MinExists
<1> DEFINE oldest == {i \in Queued(t) : t[i].created = first}
<1>3. oldest \in SUBSET Nat /\ IsFiniteSet(oldest) /\ oldest # {}
  <2>1. oldest \in SUBSET DOMAIN t
    BY <1>0
  <2>2. DOMAIN t \subseteq Nat /\ IsFiniteSet(DOMAIN t)
    BY DEF TableOK, JobIds
  <2>3. oldest # {}
    BY <1>2
  <2> HIDE DEF oldest
  <2> QED BY <2>1, <2>2, <2>3, FS_Subset
<1>4. PICK h \in oldest : \A i \in oldest : h <= i
  <2> HIDE DEF oldest
  <2> QED BY <1>3, MinExists
<1>5. \A i \in Queued(t) \ {h} : Before(t, h, i)
  <2> TAKE i \in Queued(t) \ {h}
  <2>1. t[i].created \in times /\ t[h].created = first
    OBVIOUS
  <2>2. first <= t[i].created /\ first \in Nat /\ t[i].created \in Nat
    BY <2>1, <1>1, <1>2
  <2>3. CASE first < t[i].created
    BY <2>1, <2>3 DEF Before
  <2>4. CASE first = t[i].created
    <3>1. i \in oldest
      BY <2>4
    <3>2. h <= i /\ h \in Nat /\ i \in Nat
      BY <3>1, <1>3, <1>4
    <3> QED BY <2>1, <2>4, <3>2 DEF Before
  <2> QED BY <2>2, <2>3, <2>4
<1>6. \E head \in Queued(t) : \A i \in Queued(t) \ {head} : Before(t, head, i)
  BY <1>5
<1> QED BY <1>6, Zenon DEF HeadOf
-----------------------------------------------------------------------------
(* TableOK is preserved.                                                   *)

(* A table of rows whose ids are among those of a good one is good.        *)
LEMMA FewerIds ==
  ASSUME NEW t, TableOK(t), NEW ids \in SUBSET DOMAIN t,
         NEW r \in [ids -> Row]
  PROVE  TableOK(r)
<1>1. IsFiniteSet(ids) /\ ids \subseteq JobIds
  BY FS_Subset DEF TableOK
<1> QED BY <1>1 DEF TableOK

(* Removing rows leaves a table.                                           *)
LEMMA WithoutOK ==
  ASSUME NEW t, TableOK(t), NEW ids
  PROVE  TableOK(Without(t, ids))
<1>1. Without(t, ids) \in [DOMAIN t \ ids -> Row]
  BY DEF Without, TableOK
<1> QED BY <1>1, FewerIds

(* Changing the status of rows leaves a table.                             *)
LEMMA MovedOK ==
  ASSUME NEW t, TableOK(t), NEW ids, NEW status \in {"queued", "running", "failed"}
  PROVE  TableOK(Moved(t, ids, status))
<1>1. Moved(t, ids, status) \in [DOMAIN t -> Row]
  BY DEF Moved, TableOK, Row
<1> QED BY <1>1, FewerIds

(* Putting rows back in line leaves a table.                               *)
LEMMA RequeueOK ==
  ASSUME NEW t, TableOK(t), NEW ids
  PROVE  TableOK(Requeue(t, ids))
<1>1. Requeue(t, ids) \in [DOMAIN t -> Row]
  BY DEF Requeue, NotStarted, TableOK, Row
<1> QED BY <1>1, FewerIds

(* Claiming rows leaves a table.                                           *)
LEMMA ClaimedOK ==
  ASSUME NEW t, TableOK(t), NEW ids, NEW stamp \in Nat
  PROVE  TableOK(Claimed(t, ids, stamp))
<1>1. Claimed(t, ids, stamp) \in [DOMAIN t -> Row]
  BY DEF Claimed, TableOK, Row
<1> QED BY <1>1, FewerIds

(* A retry leaves a table.                                                 *)
LEMMA RetryOK ==
  ASSUME NEW t, TableOK(t), NEW ids
  PROVE  TableOK(Retry(t, ids))
<1> DEFINE kept == Without(t, RetryDropped(t, ids))
<1>1. TableOK(kept)
  BY WithoutOK
<1>2. Now(t) \in Nat
  BY NowIsLater
<1>3. Retry(t, ids) = [i \in DOMAIN kept |->
                         IF i \in ids \cap Failed(kept)
                         THEN NewRow(kept[i].key, Now(t)) ELSE kept[i]]
  BY DEF Retry
<1> HIDE DEF kept
<1>4. Retry(t, ids) \in [DOMAIN kept -> Row]
  BY <1>1, <1>2, <1>3 DEF NewRow, NotStarted, TableOK, Row
<1> QED BY <1>1, <1>4, FewerIds

(* The writes that only take rows away or move them on.                    *)
LEMMA SettledOK ==
  ASSUME NEW t, TableOK(t)
  PROVE  /\ \A run : TableOK(Complete(t, run))
         /\ \A ids : /\ TableOK(Fail(t, ids))
                     /\ TableOK(Cancel(t, ids))
                     /\ TableOK(Dismiss(t, ids))
         /\ \A type : TableOK(FailRunning(t, type))
<1>1. ASSUME NEW run PROVE TableOK(Complete(t, run))
  BY WithoutOK DEF Complete, DropFailed
<1>2. ASSUME NEW ids PROVE TableOK(Fail(t, ids))
  BY MovedOK DEF Fail
<1>3. ASSUME NEW ids PROVE TableOK(Cancel(t, ids)) /\ TableOK(Dismiss(t, ids))
  BY WithoutOK DEF Cancel, Dismiss
<1> QED BY <1>1, <1>2, <1>3 DEF FailRunning

(* The ids of new rows are positive, finitely many, and free.              *)
LEMMA NewIdsAreFree ==
  ASSUME NEW t, TableOK(t), NEW n \in Nat
  PROVE  /\ NewIds(t, n) \subseteq JobIds
         /\ IsFiniteSet(NewIds(t, n))
         /\ NewIds(t, n) \cap DOMAIN t = {}
<1>1. DOMAIN t \in SUBSET Nat /\ IsFiniteSet(DOMAIN t)
  BY DEF TableOK, JobIds
<1>2. TopId(t) \in Nat /\ \A i \in DOMAIN t : i <= TopId(t)
  BY <1>1, GreatestBounds DEF TopId
<1>3. IsFiniteSet(NewIds(t, n))
  BY <1>2, FS_Interval DEF NewIds
<1> QED BY <1>1, <1>2, <1>3 DEF NewIds, JobIds

(* What enqueueing a call's fresh keys does: the failed rows of those keys *)
(* go, and every one of them has a new row, under an id no kept row has.   *)
LEMMA EnqueueShape ==
  ASSUME NEW t, TableOK(t), NEW ks \in SUBSET Keys, NEW at \in Placings(t, ks)
  PROVE  /\ TableOK(DropFailed(t, ks))
         /\ at \in [DOMAIN at -> ks]
         /\ \A k \in ks : \E i \in DOMAIN at : at[i] = k
         /\ \A i, j \in DOMAIN at : at[i] = at[j] => i = j
         /\ DOMAIN at \subseteq JobIds
         /\ IsFiniteSet(DOMAIN at)
         /\ DOMAIN at \cap DOMAIN DropFailed(t, ks) = {}
         /\ DOMAIN Enqueue(t, at) = DOMAIN DropFailed(t, ks) \cup DOMAIN at
         /\ \A i \in DOMAIN at : Enqueue(t, at)[i] = NewRow(at[i], Now(t))
         /\ \A i \in DOMAIN DropFailed(t, ks) :
               Enqueue(t, at)[i] = DropFailed(t, ks)[i]
<1> DEFINE kept == DropFailed(t, ks)
           ids == NewIds(kept, Cardinality(ks))
<1>1. TableOK(kept)
  BY WithoutOK DEF DropFailed
<1>2. Cardinality(ks) \in Nat
  BY KeysAssumption, FS_Subset, FS_CardinalityType
<1>3. /\ at \in [ids -> ks]
      /\ \A i, j \in ids : at[i] = at[j] => i = j
      /\ \A k \in ks : \E i \in ids : at[i] = k
  BY DEF Placings
<1>4. ids \subseteq JobIds /\ IsFiniteSet(ids) /\ ids \cap DOMAIN kept = {}
  <2> HIDE DEF kept
  <2> QED BY <1>1, <1>2, NewIdsAreFree
<1> HIDE DEF ids
<1>5. DOMAIN at = ids /\ {at[i] : i \in DOMAIN at} = ks
  BY <1>3
<1>6. Enqueue(t, at) =
        [i \in DOMAIN kept \cup DOMAIN at |->
           IF i \in DOMAIN at THEN NewRow(at[i], Now(t)) ELSE kept[i]]
  BY <1>5 DEF Enqueue
<1> DEFINE grown == Enqueue(t, at)
<1>8. /\ DOMAIN grown = DOMAIN kept \cup DOMAIN at
      /\ \A i \in DOMAIN at : grown[i] = NewRow(at[i], Now(t))
      /\ \A i \in DOMAIN kept : grown[i] = kept[i]
  <2> HIDE DEF kept, grown
  <2>1. DOMAIN at \cap DOMAIN kept = {}
    BY <1>4, <1>5
  <2>2. grown = [i \in DOMAIN kept \cup DOMAIN at |->
                  IF i \in DOMAIN at THEN NewRow(at[i], Now(t)) ELSE kept[i]]
    BY <1>6 DEF grown
  <2> QED BY <2>1, <2>2
<1> HIDE DEF kept, grown
<1>7. /\ at \in [DOMAIN at -> ks]
      /\ \A k \in ks : \E i \in DOMAIN at : at[i] = k
      /\ \A i, j \in DOMAIN at : at[i] = at[j] => i = j
      /\ DOMAIN at \subseteq JobIds
      /\ IsFiniteSet(DOMAIN at)
      /\ DOMAIN at \cap DOMAIN kept = {}
  BY <1>3, <1>4, <1>5
<1> USE DEF kept, grown
<1> QED BY <1>1, <1>7, <1>8, Zenon

(* Enqueueing leaves a table.                                              *)
LEMMA EnqueueOK ==
  ASSUME NEW t, TableOK(t), NEW ks \in SUBSET Keys, NEW at \in Placings(t, ks)
  PROVE  TableOK(Enqueue(t, at))
<1> DEFINE kept == DropFailed(t, ks)
           grown == Enqueue(t, at)
<1>1. /\ TableOK(kept)
      /\ at \in [DOMAIN at -> ks]
      /\ DOMAIN at \subseteq JobIds
      /\ IsFiniteSet(DOMAIN at)
      /\ DOMAIN grown = DOMAIN kept \cup DOMAIN at
      /\ \A i \in DOMAIN at : grown[i] = NewRow(at[i], Now(t))
      /\ \A i \in DOMAIN kept : grown[i] = kept[i]
  BY EnqueueShape
<1>2. Now(t) \in Nat
  BY NowIsLater
<1>3. grown = [i \in DOMAIN grown |-> grown[i]]
  BY DEF Enqueue
<1> HIDE DEF kept, grown
<1>4. IsFiniteSet(DOMAIN grown) /\ DOMAIN grown \subseteq JobIds
  <2>1. IsFiniteSet(DOMAIN kept) /\ DOMAIN kept \subseteq JobIds
    BY <1>1 DEF TableOK
  <2>2. IsFiniteSet(DOMAIN kept \cup DOMAIN at)
    BY <1>1, <2>1, FS_Union
  <2> QED BY <1>1, <2>1, <2>2
<1>5. \A i \in DOMAIN grown : grown[i] \in Row
  BY <1>1, <1>2 DEF NewRow, NotStarted, TableOK, Row
<1>6. TableOK(grown)
  BY <1>3, <1>4, <1>5 DEF TableOK
<1> QED BY <1>6 DEF grown

-----------------------------------------------------------------------------
(* OneRowPerKey is preserved.                                              *)

(* Every write but enqueue only takes rows away or changes other columns.  *)
KeepsKeys(t, r) ==
    /\ DOMAIN r \subseteq DOMAIN t
    /\ \A i \in DOMAIN r : r[i].key = t[i].key

(* A write that adds no row and changes no key keeps one row per key.      *)
LEMMA KeptKeysStayUnique ==
  ASSUME NEW t, NEW r, OneRowPerKey(t), KeepsKeys(t, r)
  PROVE  OneRowPerKey(r)
BY DEF OneRowPerKey, KeepsKeys

(* Removing rows adds none and changes no key.                             *)
LEMMA WithoutKeepsKeys ==
  ASSUME NEW t, NEW ids
  PROVE  KeepsKeys(t, Without(t, ids))
BY DEF KeepsKeys, Without

(* Changing the status of rows adds none and changes no key.               *)
LEMMA MovedKeepsKeys ==
  ASSUME NEW t, TableOK(t), NEW ids, NEW status
  PROVE  KeepsKeys(t, Moved(t, ids, status))
BY DEF KeepsKeys, Moved, TableOK, Row

(* Every write but enqueue adds no row and changes no key.                 *)
LEMMA SettledKeepsKeys ==
  ASSUME NEW t, TableOK(t)
  PROVE  /\ \A run : KeepsKeys(t, Complete(t, run))
         /\ \A ids : /\ KeepsKeys(t, Fail(t, ids))
                     /\ KeepsKeys(t, Cancel(t, ids))
                     /\ KeepsKeys(t, Dismiss(t, ids))
                     /\ KeepsKeys(t, Requeue(t, ids))
                     /\ KeepsKeys(t, Retry(t, ids))
         /\ \A type : KeepsKeys(t, FailRunning(t, type))
         /\ \A ids, stamp : KeepsKeys(t, Claimed(t, ids, stamp))
<1>1. ASSUME NEW run PROVE KeepsKeys(t, Complete(t, run))
  BY DEF KeepsKeys, Complete, DropFailed, Without
<1>2. ASSUME NEW ids PROVE KeepsKeys(t, Fail(t, ids))
  BY MovedKeepsKeys DEF Fail
<1>3. ASSUME NEW ids PROVE KeepsKeys(t, Cancel(t, ids)) /\ KeepsKeys(t, Dismiss(t, ids))
  BY WithoutKeepsKeys DEF Cancel, Dismiss
<1>4. ASSUME NEW ids PROVE KeepsKeys(t, Requeue(t, ids))
  BY DEF KeepsKeys, Requeue, TableOK, Row
<1>5. ASSUME NEW ids PROVE KeepsKeys(t, Retry(t, ids))
  BY DEF KeepsKeys, Retry, Without, NewRow
<1>6. ASSUME NEW ids, NEW stamp PROVE KeepsKeys(t, Claimed(t, ids, stamp))
  BY DEF KeepsKeys, Claimed, TableOK, Row
<1> QED BY <1>1, <1>2, <1>3, <1>4, <1>5, <1>6 DEF FailRunning

(* Enqueue adds one row per fresh key.  A row it keeps is of another key:  *)
(* a fresh key has no active row, and its failed rows are gone.            *)
LEMMA EnqueueKeepsUnique ==
  ASSUME NEW t, TableOK(t), OneRowPerKey(t), NEW fresh \in SUBSET Keys,
         fresh \cap KeysOf(t, Active(t)) = {}, NEW at \in Placings(t, fresh)
  PROVE  OneRowPerKey(Enqueue(t, at))
<1> DEFINE kept == DropFailed(t, fresh)
           grown == Enqueue(t, at)
<1>0. \A i, j \in DOMAIN at : at[i] = at[j] => i = j
  BY EnqueueShape
<1>1. /\ at \in [DOMAIN at -> fresh]
      /\ DOMAIN grown = DOMAIN kept \cup DOMAIN at
      /\ \A i \in DOMAIN at : grown[i] = NewRow(at[i], Now(t))
      /\ \A i \in DOMAIN kept : grown[i] = kept[i]
  BY EnqueueShape
<1>2. OneRowPerKey(kept)
  BY WithoutKeepsKeys, KeptKeysStayUnique DEF DropFailed
<1>3. ASSUME NEW i \in DOMAIN kept PROVE kept[i].key \notin fresh
  <2>1. i \in DOMAIN t /\ kept[i] = t[i] /\ ~(i \in Failed(t) /\ t[i].key \in fresh)
    BY DEF DropFailed, Without
  <2>2. CASE i \in Failed(t)
    BY <2>1, <2>2
  <2>3. CASE i \notin Failed(t)
    <3>1. i \in Active(t)
      BY <2>1, <2>3 DEF Active, Queued, Running, Failed, WithStatus, TableOK, Row
    <3> QED BY <2>1, <3>1 DEF KeysOf
  <2> QED BY <2>2, <2>3
<1> HIDE DEF kept, grown
<1>4. \A i \in DOMAIN at : i \in DOMAIN grown /\ grown[i].key = at[i]
  BY <1>1 DEF NewRow
<1>5. \A i \in DOMAIN grown \ DOMAIN at : i \in DOMAIN kept /\ grown[i].key = kept[i].key
  BY <1>1
<1>6. ASSUME NEW i \in DOMAIN grown, NEW j \in DOMAIN grown,
             grown[i].key = grown[j].key
      PROVE  i = j
  <2>1. CASE i \in DOMAIN at /\ j \in DOMAIN at
    BY <1>0, <1>4, <1>6, <2>1
  <2>2. CASE i \notin DOMAIN at /\ j \notin DOMAIN at
    BY <1>2, <1>5, <1>6, <2>2 DEF OneRowPerKey
  <2>3. CASE i \in DOMAIN at /\ j \notin DOMAIN at
    BY <1>1, <1>3, <1>4, <1>5, <1>6, <2>3
  <2>4. CASE i \notin DOMAIN at /\ j \in DOMAIN at
    BY <1>1, <1>3, <1>4, <1>5, <1>6, <2>4
  <2> QED BY <2>1, <2>2, <2>3, <2>4
<1> QED BY <1>6 DEF OneRowPerKey, grown

-----------------------------------------------------------------------------
(* Runs and threads.                                                       *)

(* No claim at all is a claim of well-typed jobs.                          *)
LEMMA NoRunIsRun == IsRun(NoRun)
BY DEF IsRun, NoRun

(* A claim of rows of a good table is a run.                               *)
LEMMA ClaimIsRun ==
  ASSUME NEW t, TableOK(t), NEW ids \in SUBSET DOMAIN t
  PROVE  IsRun(ClaimOf(t, ids))
BY DEF IsRun, ClaimOf, Claim, TableOK, Row

(* A part of a run is a run.                                               *)
LEMMA PartIsRun ==
  ASSUME NEW run, IsRun(run), NEW ids \in SUBSET DOMAIN run
  PROVE  IsRun([i \in ids |-> run[i]])
BY DEF IsRun

(* A thread begins well typed whatever it was given.                       *)
LEMMA NewThreadIsThread ==
  ASSUME NEW owner \in Owners, NEW pc \in ThreadPCs, NEW run, IsRun(run)
  PROVE  IsThread(NewThread(owner, pc, run))
BY DEF IsThread, NewThread, Outcomes

(* The keys of a claim are keys of the queue.                              *)
LEMMA RunKeysAreKeys ==
  ASSUME NEW run, IsRun(run)
  PROVE  RunKeys(run) \subseteq Keys
BY DEF RunKeys, IsRun, Claim

(* The end of a claim's block leaves threads only.                         *)
LEMMA EndsWithThreads ==
  ASSUME \A th \in threads : IsThread(th), NEW th \in threads,
         NEW outcome \in Outcomes, NEW unanswered \in SUBSET Keys,
         EndsWith(th, outcome, unanswered)
  PROVE  \A other \in threads' : IsThread(other)
<1>1. IsThread([th EXCEPT !.pc = "ended", !.outcome = outcome, !.cards = {},
                          !.answers = unanswered])
  BY DEF IsThread, ThreadPCs
<1> QED BY <1>1 DEF EndsWith, Becomes
-----------------------------------------------------------------------------
(* Type correctness.                                                       *)

(* The queue starts well typed.                                            *)
LEMMA InitTypeOK == Init => TypeOK
<1> SUFFICES ASSUME Init PROVE TypeOK
  OBVIOUS
<1>1. TableOK(NoRun)
  BY FS_EmptySet DEF TableOK, NoRun
<1> QED BY <1>1, NoRunIsRun DEF Init, TypeOK, IsWorker

(* The user's requests keep the types.                                     *)
LEMMA UserTypeOK == TypeOK /\ User => TypeOK'
<1> SUFFICES ASSUME TypeOK, User PROVE TypeOK'
  OBVIOUS
<1> USE DEF TypeOK, IsWorker, history
<1>1. ASSUME NEW ks \in SUBSET Keys, Ask(ks) PROVE TypeOK'
  <2>1. PICK at \in Placings(jobs, Fresh(jobs, ks)) :
          /\ jobs' = Enqueue(jobs, at)
          /\ recycled' = (recycled \ Fresh(jobs, ks))
                            \cup {at[i] : i \in DOMAIN at \cap ClaimedIds}
    BY <1>1 DEF Ask
  <2>2. Fresh(jobs, ks) \in SUBSET Keys
    BY DEF Fresh
  <2>3. TableOK(jobs')
    BY <2>1, <2>2, EnqueueOK
  <2>4. at \in [DOMAIN at -> Fresh(jobs, ks)]
    BY <2>2, EnqueueShape
  <2>5. recycled' \subseteq Keys
    BY <2>1, <2>2, <2>4
  <2> QED BY <1>1, <2>2, <2>3, <2>5 DEF Ask
<1>2. ASSUME NEW sel \in UserSelections, UserCancel(sel) PROVE TypeOK'
  BY <1>2, SettledOK DEF UserCancel
<1>3. ASSUME NEW sel \in UserSelections, UserDismiss(sel) PROVE TypeOK'
  BY <1>3, SettledOK DEF UserDismiss
<1>4. ASSUME NEW sel \in UserSelections, UserRetry(sel) PROVE TypeOK'
  BY <1>4, RetryOK DEF UserRetry
<1> QED BY <1>1, <1>2, <1>3, <1>4 DEF User

(* The worker's own steps keep the types.                                  *)
LEMMA WorkerStepTypeOK == TypeOK /\ (WorkerStep \/ Timeout) => TypeOK'
<1> SUFFICES ASSUME TypeOK, WorkerStep \/ Timeout PROVE TypeOK'
  OBVIOUS
<1> USE NoRunIsRun DEF TypeOK, IsWorker, history, Idle
<1>1. CASE WorkerStart
  BY <1>1, RequeueOK DEF WorkerStart
<1>2. CASE ClaimRun
  <2> DEFINE ids == NextRun(jobs)
             table == Claimed(jobs, ids, NewStamp)
             run == ClaimOf(table, ids)
  <2>1. NewStamp \in Nat
    BY <1>2, TypesAssumption DEF ClaimRun, NewStamp, FreeStamps
  <2>2. TableOK(table)
    BY <2>1, ClaimedOK
  <2>3. IsRun(run)
    <3>1. ids \in SUBSET DOMAIN table
      BY DEF NextRun, Queued, WithStatus, Claimed
    <3> HIDE DEF table, ids
    <3> QED BY <2>2, <3>1, ClaimIsRun DEF run
  <2>4. jobs' = table /\ UNCHANGED <<results, asks, faults, history>>
    BY <1>2 DEF ClaimRun
  <2>5. \/ /\ worker' = [pc |-> "tts", run |-> NoRun]
           /\ threads' = threads \cup {NewThread("tts", "start", run)}
        \/ /\ worker' = [pc |-> "waiting", run |-> run]
           /\ threads' = threads \cup {NewThread("worker", "read", run)}
    BY <1>2 DEF ClaimRun
  <2> HIDE DEF table, run
  <2>6. IsThread(NewThread("tts", "start", run)) /\ IsThread(NewThread("worker", "read", run))
    BY <2>3, NewThreadIsThread DEF Owners, ThreadPCs
  <2> QED BY <2>2, <2>3, <2>4, <2>5, <2>6
<1>3. CASE FailTimedOut
  BY <1>3, SettledOK DEF FailTimedOut
<1>4. CASE CompleteRest
  BY <1>4, SettledOK DEF CompleteRest
<1>5. CASE FailTts
  BY <1>5, SettledOK DEF FailTts
<1>6. ASSUME NEW th \in threads, Settle(th) PROVE TypeOK'
  <2> DEFINE failed == {i \in DOMAIN th.run : th.run[i].key \in th.answers}
             answered == [i \in DOMAIN th.run \ failed |-> th.run[i]]
  <2>1. IsRun(answered)
    BY PartIsRun DEF IsThread
  <2>2. /\ threads' = threads \ {th}
        /\ UNCHANGED <<results, asks, faults, history>>
        /\ \/ worker' = Idle
           \/ worker' = [pc |-> "completing", run |-> answered]
        /\ \/ jobs' = jobs
           \/ jobs' = Requeue(jobs, DOMAIN th.run)
           \/ jobs' = Fail(jobs, DOMAIN th.run)
           \/ jobs' = Complete(jobs, answered)
           \/ jobs' = Fail(jobs, failed)
    BY <1>6 DEF Settle
  <2> HIDE DEF failed, answered
  <2>3. TableOK(jobs')
    BY <2>2, SettledOK, RequeueOK
  <2> QED BY <2>1, <2>2, <2>3
<1>7. CASE Timeout
  BY <1>7 DEF Timeout
<1> QED BY <1>1, <1>2, <1>3, <1>4, <1>5, <1>6, <1>7 DEF WorkerStep

(* The slow part of a run keeps the types, however it ends.                *)
LEMMA WorkTypeOK ==
  ASSUME TypeOK, NEW th \in threads, Work(th)
  PROVE  TypeOK'
<1> USE DEF TypeOK, IsWorker, history
<1>0. IsThread(th)
  OBVIOUS
<1>1. CASE Answer(th)
  <2>1. PICK answers \in SUBSET th.cards :
          Becomes(th, [th EXCEPT !.answers = answers,
                         !.pc = IF IsBatch(th) THEN "answered" ELSE "filtered"])
    BY <1>1 DEF Answer
  <2>2. IsThread([th EXCEPT !.answers = answers,
                         !.pc = IF IsBatch(th) THEN "answered" ELSE "filtered"])
    BY <1>0 DEF IsThread, ThreadPCs
  <2> QED BY <1>1, <2>1, <2>2 DEF Answer, Becomes
<1>2. CASE Break(th)
  <2>1. \A other \in threads' : IsThread(other)
    BY <1>2, EndsWithThreads DEF Break, Outcomes
  <2> QED BY <1>2, <2>1 DEF Break
<1>3. CASE FindNoAI(th)
  <2>1. \A other \in threads' : IsThread(other)
    BY <1>3, EndsWithThreads DEF FindNoAI, Outcomes
  <2> QED BY <1>3, <2>1 DEF FindNoAI
<1> QED BY <1>1, <1>2, <1>3 DEF Work

(* The steps of a run's thread or subprocess keep the types.               *)
LEMMA ThreadStepTypeOK ==
  ASSUME TypeOK, NEW th \in threads, ThreadStep(th)
  PROVE  TypeOK'
<1> USE NoRunIsRun DEF TypeOK, IsWorker, history, Idle
<1>0. IsThread(th)
  OBVIOUS
<1>1. CASE ReadFirstJob(th)
  <2> DEFINE i == CHOOSE id \in DOMAIN th.run : TRUE
  <2>1. CASE i \in Running(jobs)
    <3>1. i \in DOMAIN jobs
      BY <2>1 DEF Running, WithStatus
    <3>2. IsRun(ClaimOf(jobs, {i}))
      BY <3>1, ClaimIsRun
    <3>3. IsThread([th EXCEPT !.pc = "read", !.run = ClaimOf(jobs, {i})])
      <4> DEFINE run == ClaimOf(jobs, {i})
      <4> HIDE DEF run
      <4>1. IsThread([th EXCEPT !.pc = "read", !.run = run])
        BY <1>0, <3>2 DEF IsThread, ThreadPCs, run
      <4> QED BY <4>1 DEF run
    <3> QED BY <1>1, <2>1, <3>3 DEF ReadFirstJob, Becomes
  <2>2. CASE i \notin Running(jobs)
    BY <1>1, <2>2 DEF ReadFirstJob, Exits
  <2> QED BY <2>1, <2>2
<1>2. CASE ReadCards(th)
  <2>1. RunKeys(th.run) \subseteq Keys
    BY <1>0, RunKeysAreKeys DEF IsThread
  <2>2. PICK cards \in SUBSET RunKeys(th.run) :
          Becomes(th, [th EXCEPT !.cards = cards,
                         !.pc = IF cards = {} THEN "check" ELSE "asking"])
    BY <1>2 DEF ReadCards
  <2>3. IsThread([th EXCEPT !.cards = cards,
                         !.pc = IF cards = {} THEN "check" ELSE "asking"])
    BY <1>0, <2>1 DEF IsThread, ThreadPCs
  <2> QED BY <1>2, <2>2, <2>3 DEF ReadCards, Becomes
<1>3. CASE KeepWanted(th)
  <2>1. PICK claimed : Becomes(th, [th EXCEPT !.cards = @ \cap claimed, !.pc = "filtered"])
    BY <1>3 DEF KeepWanted
  <2>2. IsThread([th EXCEPT !.cards = @ \cap claimed, !.pc = "filtered"])
    BY <1>0 DEF IsThread, ThreadPCs
  <2> QED BY <1>3, <2>1, <2>2 DEF KeepWanted, Becomes
<1>4. CASE Commit(th)
  <2>1. CASE StillClaimed(jobs, th.run) = {}
    <3>1. \A other \in threads' : IsThread(other)
      BY <1>4, <2>1, EndsWithThreads DEF Commit, Outcomes
    <3> QED BY <1>4, <2>1, <3>1 DEF Commit
  <2>2. CASE StillClaimed(jobs, th.run) # {}
    <3>1. IsThread([th EXCEPT !.pc = "check", !.cards = {},
                              !.answers = th.cards \ th.answers])
      BY <1>0 DEF IsThread, ThreadPCs
    <3>2. th.cards \subseteq Keys
      BY <1>0 DEF IsThread
    <3> QED BY <1>4, <2>2, <3>1, <3>2 DEF Commit, Becomes
  <2> QED BY <2>1, <2>2
<1>5. CASE FinalCheck(th)
  <2>1. th.answers \in SUBSET Keys
    BY <1>0 DEF IsThread
  <2>2. \A other \in threads' : IsThread(other)
    BY <1>5, <2>1, EndsWithThreads DEF FinalCheck, Outcomes
  <2> QED BY <1>5, <2>2 DEF FinalCheck
<1>6. CASE SettleTts(th)
  <2>1. TableOK(jobs')
    BY <1>6, SettledOK DEF SettleTts
  <2>2. RunKeys(th.run) \subseteq Keys
    BY <1>0, RunKeysAreKeys DEF IsThread
  <2>3. IsThread(NewThread("tts", "claim", NoRun))
    BY NewThreadIsThread DEF Owners, ThreadPCs
  <2> QED BY <1>6, <2>1, <2>2, <2>3 DEF SettleTts, Becomes, Exits
<1>7. CASE ClaimTts(th)
  <2>1. CASE Queued(jobs) # {} /\ TypeOf[jobs[HeadOf(jobs)].key] = TTS
    <3> DEFINE table == Claimed(jobs, {HeadOf(jobs)}, NewStamp)
               run == ClaimOf(table, {HeadOf(jobs)})
    <3>1. NewStamp \in Nat
      BY <1>7, TypesAssumption DEF ClaimTts, NewStamp, FreeStamps
    <3>2. TableOK(table)
      BY <3>1, ClaimedOK
    <3>3. HeadOf(jobs) \in DOMAIN jobs
      BY <2>1, HeadIsQueued DEF Queued, WithStatus
    <3>4. IsRun(run)
      <4>1. {HeadOf(jobs)} \in SUBSET DOMAIN table
        BY <3>3 DEF Claimed
      <4> HIDE DEF table
      <4> QED BY <3>2, <4>1, ClaimIsRun
    <3>5. th.owner \in Owners
      BY <1>0 DEF IsThread
    <3>6. IsThread(NewThread(th.owner, "read", run))
      <4> HIDE DEF run
      <4> QED BY <3>4, <3>5, NewThreadIsThread DEF ThreadPCs
    <3>7. jobs[HeadOf(jobs)].key \in Keys
      BY <3>3 DEF TableOK, Row
    <3>8. /\ jobs' = table
          /\ threads' = (threads \ {th}) \cup {NewThread(th.owner, "read", run)}
          /\ astray' \in {astray, astray \cup {jobs[HeadOf(jobs)].key}}
          /\ UNCHANGED <<worker, results, asks, faults, owed, recycled>>
      BY <1>7, <2>1 DEF ClaimTts, Becomes
    <3> HIDE DEF table, run
    <3> QED BY <3>2, <3>6, <3>7, <3>8
  <2>2. CASE ~(Queued(jobs) # {} /\ TypeOf[jobs[HeadOf(jobs)].key] = TTS)
    BY <1>7, <2>2 DEF ClaimTts, Exits
  <2> QED BY <2>1, <2>2
<1> QED BY <1>1, <1>2, <1>3, <1>4, <1>5, <1>6, <1>7 DEF ThreadStep

(* Deaths and stops keep the types.                                        *)
LEMMA FaultTypeOK == TypeOK /\ Fault => TypeOK'
<1> SUFFICES ASSUME TypeOK, Fault PROVE TypeOK'
  OBVIOUS
<1> USE NoRunIsRun DEF TypeOK, IsWorker, history
<1>1. CASE WorkerDies
  <2>1. ASSUME NEW th \in threads PROVE IsThread([th EXCEPT !.owner = "orphan"])
    BY DEF IsThread, Owners
  <2> QED BY <1>1, <2>1 DEF WorkerDies
<1>2. CASE WorkerStops
  BY <1>2 DEF WorkerStops
<1>3. ASSUME NEW th \in threads, TtsDies(th) PROVE TypeOK'
  BY <1>3 DEF TtsDies
<1> QED BY <1>1, <1>2, <1>3 DEF Fault

(* Every reachable state is well typed: the table stays a finite set of    *)
(* well-formed rows with positive ids, and every run the worker or a       *)
(* thread holds is a claim of such rows.                                   *)
THEOREM TypeCorrect == Spec => []TypeOK
<1>1. TypeOK /\ [Next]_vars => TypeOK'
  <2> SUFFICES ASSUME TypeOK, [Next]_vars PROVE TypeOK'
    OBVIOUS
  <2>1. CASE UNCHANGED vars
    BY <2>1 DEF vars, TypeOK, IsWorker
  <2>2. CASE Next
    BY <2>2, UserTypeOK, WorkerStepTypeOK, WorkTypeOK, ThreadStepTypeOK, FaultTypeOK DEF Next
  <2> QED BY <2>1, <2>2
<1> QED BY InitTypeOK, <1>1, PTL DEF Spec
-----------------------------------------------------------------------------
(* One job per key.                                                        *)

(* A step that puts no job in line only takes rows away or changes other   *)
(* columns than the key.                                                   *)
LEMMA StepKeepsKeys ==
  ASSUME TypeOK, [Next]_vars, ~ \E ks \in SUBSET Keys : Ask(ks)
  PROVE  KeepsKeys(jobs, jobs')
<1>0. TableOK(jobs)
  BY DEF TypeOK
<1>1. KeepsKeys(jobs, jobs)
  BY DEF KeepsKeys
<1>2. CASE User
  BY <1>0, <1>2, SettledKeepsKeys DEF User, UserCancel, UserDismiss, UserRetry
<1>3. CASE WorkerStep
  <2>1. CASE WorkerStart
    BY <1>0, <2>1, SettledKeepsKeys DEF WorkerStart
  <2>2. CASE ClaimRun
    BY <1>0, <2>2, SettledKeepsKeys DEF ClaimRun
  <2>3. CASE FailTimedOut \/ CompleteRest \/ FailTts
    BY <1>0, <2>3, SettledKeepsKeys DEF FailTimedOut, CompleteRest, FailTts
  <2>4. ASSUME NEW th \in threads, Settle(th) PROVE KeepsKeys(jobs, jobs')
    BY <1>0, <1>1, <2>4, SettledKeepsKeys DEF Settle
  <2> QED BY <1>3, <2>1, <2>2, <2>3, <2>4 DEF WorkerStep
<1>4. ASSUME NEW th \in threads, Work(th) \/ ThreadStep(th)
      PROVE  KeepsKeys(jobs, jobs')
  <2>1. CASE SettleTts(th)
    BY <1>0, <1>1, <2>1, SettledKeepsKeys DEF SettleTts
  <2>2. CASE ClaimTts(th)
    BY <1>0, <1>1, <2>2, SettledKeepsKeys DEF ClaimTts
  <2>3. CASE Work(th)
    BY <1>1, <2>3 DEF Work, Answer, Break, FindNoAI
  <2>4. CASE ReadFirstJob(th) \/ ReadCards(th) \/ KeepWanted(th) \/ Commit(th)
                              \/ FinalCheck(th)
    BY <1>1, <2>4 DEF ReadFirstJob, ReadCards, KeepWanted, Commit, FinalCheck
  <2> QED BY <1>4, <2>1, <2>2, <2>3, <2>4 DEF ThreadStep
<1>5. CASE Timeout \/ Fault
  BY <1>1, <1>5 DEF Timeout, Fault, WorkerDies, WorkerStops, TtsDies
<1>6. CASE UNCHANGED vars
  BY <1>1, <1>6 DEF vars
<1> QED BY <1>2, <1>3, <1>4, <1>5, <1>6 DEF Next

(* The table never holds two jobs of one key, active or failed: what       *)
(* SqlaJobRepository.enqueue leaves out and drops is enough, whatever the  *)
(* worker, its late threads and the TTS subprocesses do meanwhile.  The    *)
(* table's typing is what makes it inductive: it bounds the new ids and    *)
(* says that a row that is not failed is active.                           *)
THEOREM OneJobPerKeyAlways == Spec => []OneJobPerKey
<1>1. Init => OneJobPerKey
  BY DEF Init, NoRun, OneJobPerKey, OneRowPerKey
<1>2. TypeOK /\ OneJobPerKey /\ [Next]_vars => OneJobPerKey'
  <2> SUFFICES ASSUME TypeOK, OneJobPerKey, [Next]_vars PROVE OneJobPerKey'
    OBVIOUS
  <2>1. ASSUME NEW ks \in SUBSET Keys, Ask(ks) PROVE OneJobPerKey'
    <3>1. PICK at \in Placings(jobs, Fresh(jobs, ks)) : jobs' = Enqueue(jobs, at)
      BY <2>1 DEF Ask
    <3> DEFINE fresh == Fresh(jobs, ks)
    <3>2. fresh \in SUBSET Keys /\ fresh \cap KeysOf(jobs, Active(jobs)) = {}
      BY DEF Fresh
    <3>3. at \in Placings(jobs, fresh)
      BY <3>1
    <3> HIDE DEF fresh
    <3>4. TableOK(jobs) /\ OneRowPerKey(jobs)
      BY DEF TypeOK, OneJobPerKey
    <3>5. OneRowPerKey(Enqueue(jobs, at))
      BY <3>2, <3>3, <3>4, EnqueueKeepsUnique
    <3> QED BY <3>1, <3>5 DEF OneJobPerKey
  <2>2. CASE ~ \E ks \in SUBSET Keys : Ask(ks)
    <3>1. KeepsKeys(jobs, jobs')
      BY <2>2, StepKeepsKeys
    <3>2. OneRowPerKey(jobs')
      BY <3>1, KeptKeysStayUnique DEF OneJobPerKey
    <3> QED BY <3>2 DEF OneJobPerKey
  <2> QED BY <2>1, <2>2
<1> QED BY <1>1, <1>2, TypeCorrect, PTL DEF Spec

-----------------------------------------------------------------------------
(* What the writes of the table do to the rows that run.                   *)

(* The rows that run in r ran in t, under the same stamp and for the same  *)
(* key.                                                                    *)
RanBefore(t, r) ==
    \A i \in Running(r) : i \in Running(t) /\ r[i].started = t[i].started
                                           /\ r[i].key = t[i].key

(* No write but a claim makes a row run.                                   *)
LEMMA WritesStartNothing ==
  ASSUME NEW t, TableOK(t)
  PROVE  /\ \A run : RanBefore(t, Complete(t, run))
         /\ \A ids : /\ RanBefore(t, Fail(t, ids))
                     /\ RanBefore(t, Cancel(t, ids))
                     /\ RanBefore(t, Dismiss(t, ids))
                     /\ RanBefore(t, Requeue(t, ids))
                     /\ RanBefore(t, Retry(t, ids))
         /\ \A type : RanBefore(t, FailRunning(t, type))
<1> USE DEF RanBefore, Running, WithStatus
<1>1. ASSUME NEW run PROVE RanBefore(t, Complete(t, run))
  BY DEF Complete, DropFailed, Without
<1>2. ASSUME NEW ids PROVE RanBefore(t, Fail(t, ids))
  BY DEF Fail, Moved, TableOK, Row
<1>3. ASSUME NEW ids PROVE RanBefore(t, Cancel(t, ids)) /\ RanBefore(t, Dismiss(t, ids))
  BY DEF Cancel, Dismiss, Without
<1>4. ASSUME NEW ids PROVE RanBefore(t, Requeue(t, ids))
  BY DEF Requeue, TableOK, Row
<1>5. ASSUME NEW ids PROVE RanBefore(t, Retry(t, ids))
  BY DEF Retry, Without, NewRow
<1>6. ASSUME NEW type PROVE RanBefore(t, FailRunning(t, type))
  BY <1>2 DEF FailRunning
<1> QED BY <1>1, <1>2, <1>3, <1>4, <1>5, <1>6

(* Nor does a request.                                                     *)
LEMMA EnqueueStartsNothing ==
  ASSUME NEW t, TableOK(t), NEW ks \in SUBSET Keys, NEW at \in Placings(t, ks)
  PROVE  RanBefore(t, Enqueue(t, at))
<1>1. /\ DOMAIN Enqueue(t, at) = DOMAIN DropFailed(t, ks) \cup DOMAIN at
      /\ \A i \in DOMAIN at : Enqueue(t, at)[i] = NewRow(at[i], Now(t))
      /\ \A i \in DOMAIN DropFailed(t, ks) : Enqueue(t, at)[i] = DropFailed(t, ks)[i]
  BY EnqueueShape
<1>2. \A i \in DOMAIN DropFailed(t, ks) : i \in DOMAIN t /\ DropFailed(t, ks)[i] = t[i]
  BY DEF DropFailed, Without
<1>3. \A k, now : NewRow(k, now).status # "running"
  BY DEF NewRow
<1> QED BY <1>1, <1>2, <1>3 DEF RanBefore, Running, WithStatus

(* A claim makes its rows run, under its stamp.                            *)
LEMMA ClaimStarts ==
  ASSUME NEW t, TableOK(t), NEW ids \in SUBSET DOMAIN t, NEW stamp \in Nat
  PROVE  /\ Running(Claimed(t, ids, stamp)) = Running(t) \cup ids
         /\ DOMAIN Claimed(t, ids, stamp) = DOMAIN t
         /\ \A i \in DOMAIN t : Claimed(t, ids, stamp)[i].key = t[i].key
         /\ \A i \in ids : Claimed(t, ids, stamp)[i].started = stamp
         /\ \A i \in DOMAIN t \ ids : Claimed(t, ids, stamp)[i] = t[i]
BY DEF Claimed, Running, WithStatus, TableOK, Row

(* They carry its stamp.                                                   *)
LEMMA ClaimStamps ==
  ASSUME NEW t, NEW ids, ids \subseteq DOMAIN t, NEW stamp, TableOK(t)
  PROVE  \A i \in ids : Claimed(t, ids, stamp)[i].started = stamp
BY DEF Claimed, TableOK, Row

(* A run has one type, and the head of the queue is in it.                 *)
LEMMA RunHasItsHead ==
  ASSUME NEW t, TableOK(t), Queued(t) # {}
  PROVE  /\ HeadOf(t) \in NextRun(t)
         /\ \A i \in NextRun(t) : TypeOf[t[i].key] = TypeOf[t[HeadOf(t)].key]
<1> DEFINE h == HeadOf(t)
           ahead(i) == {j \in Queued(t) : Before(t, j, i)}
<1>1. /\ h \in Queued(t)
      /\ \A i \in Queued(t) \ {h} : Before(t, h, i)
  BY HeadIsQueued
<1>2. \A j \in Queued(t) : t[j].created \in Nat /\ j \in Nat /\ TypeOf[t[j].key] \in Types
  BY KeysAssumption DEF Queued, WithStatus, TableOK, Row, JobIds
<1>3. ahead(h) = {}
  BY <1>1, <1>2 DEF Before
<1>4. Cardinality(ahead(h)) = 0
  <2> HIDE DEF ahead
  <2> QED BY <1>3, FS_EmptySet
<1>5. 0 < RunLimit[TypeOf[t[h].key]]
  BY <1>1, <1>2, KeysAssumption
<1>6. h \in NextRun(t)
  BY <1>1, <1>3, <1>4, <1>5 DEF NextRun
<1>7. \A i \in NextRun(t) : TypeOf[t[i].key] = TypeOf[t[h].key]
  BY DEF NextRun
<1> QED BY <1>6, <1>7

(* The run of a type claimed one by one is the head of the queue alone.    *)
LEMMA RunOfOne ==
  ASSUME NEW t, TableOK(t), Queued(t) # {}, RunLimit[TypeOf[t[HeadOf(t)].key]] = 1
  PROVE  NextRun(t) = {HeadOf(t)}
<1> DEFINE h == HeadOf(t)
           ahead(i) == {j \in Queued(t) : Before(t, j, i)}
<1>1. \A i \in Queued(t) \ {h} : h \in ahead(i)
  BY HeadIsQueued
<1>2. \A i \in Queued(t) : IsFiniteSet(ahead(i))
  BY FS_Subset DEF Queued, WithStatus, TableOK
<1>3. \A i \in Queued(t) : Cardinality(ahead(i)) < 1 => ahead(i) = {}
  <2> SUFFICES ASSUME NEW i \in Queued(t), Cardinality(ahead(i)) < 1 PROVE ahead(i) = {}
    OBVIOUS
  <2>1. Cardinality(ahead(i)) = 0
    BY <1>2, FS_CardinalityType
  <2> HIDE DEF ahead
  <2> QED BY <1>2, <2>1, FS_EmptySet
<1>4. \A i \in NextRun(t) : i \in Queued(t) /\ Cardinality(ahead(i)) < RunLimit[TypeOf[t[h].key]]
  BY DEF NextRun
<1>5. NextRun(t) \subseteq {h}
  BY <1>1, <1>3, <1>4
<1> QED BY <1>5, RunHasItsHead

(* A claimed run is never empty; one of speech is a single job.            *)
LEMMA RunOfSpeech ==
  ASSUME NEW t, TableOK(t), Queued(t) # {}, NEW stamp,
         RunType(ClaimOf(Claimed(t, NextRun(t), stamp), NextRun(t))) = TTS
  PROVE  NextRun(t) = {HeadOf(t)} /\ TypeOf[t[HeadOf(t)].key] = TTS
<1> DEFINE table == Claimed(t, NextRun(t), stamp)
           run == ClaimOf(table, NextRun(t))
           first == CHOOSE i \in DOMAIN run : TRUE
<1>1. DOMAIN run = NextRun(t) /\ \A i \in NextRun(t) : run[i].key = table[i].key
  BY DEF ClaimOf
<1>2. first \in NextRun(t)
  <2>1. HeadOf(t) \in DOMAIN run
    BY <1>1, RunHasItsHead
  <2> HIDE DEF run
  <2>2. first \in DOMAIN run
    BY <2>1
  <2> QED BY <1>1, <2>2
<1>3. \A i \in NextRun(t) : i \in DOMAIN t /\ table[i].key = t[i].key
  BY DEF NextRun, Queued, WithStatus, Claimed, TableOK, Row
<1>4. TypeOf[run[first].key] = TTS
  BY DEF RunType
<1> HIDE DEF run, table, first
<1>5. TypeOf[t[HeadOf(t)].key] = TTS
  BY <1>1, <1>2, <1>3, <1>4, RunHasItsHead
<1>6. TTS \in Types
  <2>1. HeadOf(t) \in Queued(t)
    BY HeadIsQueued
  <2> QED BY <1>5, <2>1, KeysAssumption DEF Queued, WithStatus, TableOK, Row
<1> QED BY <1>5, <1>6, RunOfOne, SpeechAssumption

-----------------------------------------------------------------------------
(* Stamps.                                                                 *)

(* The stamp of a new claim is none that a thread remembers.               *)
LEMMA NewStampIsNew ==
  ASSUME FreeStamps # {}
  PROVE  /\ NewStamp \in Nat
         /\ \A th \in threads : \A i \in DOMAIN th.run : th.run[i].started # NewStamp
<1>1. NewStamp \in FreeStamps
  BY DEF NewStamp
<1>2. NewStamp \in Nat
  BY <1>1, TypesAssumption DEF FreeStamps
<1>3. ASSUME NEW th \in threads, NEW i \in DOMAIN th.run PROVE th.run[i].started # NewStamp
  <2>1. th.run[i].started \in {th.run[j].started : j \in DOMAIN th.run}
    OBVIOUS
  <2>2. th.run[i].started \in UNION {{t.run[j].started : j \in DOMAIN t.run} : t \in threads}
    BY <2>1
  <2>3. th.run[i].started \in Remembered
    BY <2>2, Zenon DEF Remembered
  <2> QED BY <1>1, <2>3 DEF FreeStamps
<1> QED BY <1>2, <1>3

(* No request of a user makes a row run.                                   *)
LEMMA UserStartsNothing ==
  ASSUME TypeOK, User
  PROVE  RanBefore(jobs, jobs')
<1>0. TableOK(jobs)
  BY DEF TypeOK
<1>1. ASSUME NEW ks \in SUBSET Keys, Ask(ks) PROVE RanBefore(jobs, jobs')
  <2>1. PICK at \in Placings(jobs, Fresh(jobs, ks)) : jobs' = Enqueue(jobs, at)
    BY <1>1 DEF Ask
  <2>2. Fresh(jobs, ks) \in SUBSET Keys
    BY DEF Fresh
  <2> QED BY <1>0, <2>1, <2>2, EnqueueStartsNothing
<1>2. ASSUME NEW sel, UserCancel(sel) \/ UserDismiss(sel) \/ UserRetry(sel)
      PROVE  RanBefore(jobs, jobs')
  BY <1>0, <1>2, WritesStartNothing DEF UserCancel, UserDismiss, UserRetry
<1> QED BY <1>1, <1>2 DEF User

(* A row that runs ran before the step, or the step claimed it.            *)
ClaimedNow(i) == FreeStamps # {} /\ jobs'[i].started = NewStamp
RunsOn(i) == i \in Running(jobs) /\ jobs'[i].started = jobs[i].started
                                 /\ jobs'[i].key = jobs[i].key

(* A job that runs after a step ran before it, unless a claim was made.    *)
LEMMA RunningRanBefore ==
  ASSUME TypeOK, [Next]_vars
  PROVE  \A i \in Running(jobs') : RunsOn(i) \/ ClaimedNow(i)
<1>0. TableOK(jobs)
  BY DEF TypeOK
<1>1. RanBefore(jobs, jobs') => \A i \in Running(jobs') : RunsOn(i)
  BY DEF RanBefore, RunsOn
<1>2. jobs' = jobs => RanBefore(jobs, jobs')
  BY DEF RanBefore
<1>5. CASE User
  BY <1>1, <1>5, UserStartsNothing
<1>6. ASSUME NEW ids \in SUBSET DOMAIN jobs, FreeStamps # {},
             jobs' = Claimed(jobs, ids, NewStamp)
      PROVE  \A i \in Running(jobs') : RunsOn(i) \/ ClaimedNow(i)
  BY <1>0, <1>6, NewStampIsNew, ClaimStarts DEF RunsOn, ClaimedNow, Running, WithStatus
<1>7. CASE WorkerStep
  <2>1. CASE ClaimRun
    <3>1. NextRun(jobs) \in SUBSET DOMAIN jobs
      BY DEF NextRun, Queued, WithStatus
    <3> QED BY <1>6, <2>1, <3>1 DEF ClaimRun
  <2>2. CASE WorkerStart \/ FailTimedOut \/ CompleteRest \/ FailTts
    <3>1. RanBefore(jobs, jobs')
      BY <1>0, <2>2, WritesStartNothing DEF WorkerStart, FailTimedOut, CompleteRest, FailTts
    <3> QED BY <1>1, <3>1
  <2>3. ASSUME NEW th \in threads, Settle(th) PROVE RanBefore(jobs, jobs')
    BY <1>0, <1>2, <2>3, WritesStartNothing DEF Settle
  <2> QED BY <1>1, <1>7, <2>1, <2>2, <2>3 DEF WorkerStep
<1>8. ASSUME NEW th \in threads, ClaimTts(th)
      PROVE  \A i \in Running(jobs') : RunsOn(i) \/ ClaimedNow(i)
  <2>1. CASE Queued(jobs) # {} /\ TypeOf[jobs[HeadOf(jobs)].key] = TTS
    <3>1. {HeadOf(jobs)} \in SUBSET DOMAIN jobs
      BY <1>0, <2>1, HeadIsQueued DEF Queued, WithStatus
    <3> QED BY <1>6, <1>8, <2>1, <3>1 DEF ClaimTts
  <2>2. CASE ~(Queued(jobs) # {} /\ TypeOf[jobs[HeadOf(jobs)].key] = TTS)
    BY <1>1, <1>2, <1>8, <2>2 DEF ClaimTts
  <2> QED BY <2>1, <2>2
<1>9. ASSUME NEW th \in threads, SettleTts(th) PROVE RanBefore(jobs, jobs')
  BY <1>0, <1>2, <1>9, WritesStartNothing DEF SettleTts
<1>10. ASSUME NEW th \in threads, Work(th) \/ ThreadStep(th),
              ~ClaimTts(th), ~SettleTts(th)
       PROVE  jobs' = jobs
  BY <1>10 DEF Work, Answer, Break, FindNoAI, ThreadStep, ReadFirstJob, ReadCards,
               KeepWanted, Commit, FinalCheck
<1>11. CASE Timeout \/ Fault
  BY <1>1, <1>2, <1>11 DEF Timeout, Fault, WorkerDies, WorkerStops, TtsDies
<1>12. CASE UNCHANGED vars
  BY <1>1, <1>2, <1>12 DEF vars
<1> QED BY <1>1, <1>2, <1>5, <1>7, <1>8, <1>9, <1>10, <1>11, <1>12 DEF Next

(* What a thread has lost it never gets back: the late thread of           *)
(* job_worker.py that still writes finds its claim gone, also when its job *)
(* was put in line and claimed again.                                      *)
LEMMA LostIsLost ==
  ASSUME TypeOK, [Next]_vars, NEW th \in threads
  PROVE  StillClaimed(jobs', th.run) \subseteq StillClaimed(jobs, th.run)
<1>1. \A i \in Running(jobs') : RunsOn(i) \/ ClaimedNow(i)
  BY RunningRanBefore
<1>2. FreeStamps # {} => \A i \in DOMAIN th.run : th.run[i].started # NewStamp
  BY NewStampIsNew
<1> QED BY <1>1, <1>2 DEF StillClaimed, RunsOn, ClaimedNow

-----------------------------------------------------------------------------
(* One live claim.                                                         *)

(* At most one TTS subprocess has its worker, which waits for it.          *)
OneSubprocess ==
    /\ \A th \in threads : th.owner = "tts" => worker.pc = "tts"
    /\ \A th1, th2 \in threads : th1.owner = "tts" /\ th2.owner = "tts" => th1 = th2

(* Two threads of the worker have claimed at different times.              *)
Apart(th1, th2) ==
    \A i \in DOMAIN th1.run \cap DOMAIN th2.run : th1.run[i].started # th2.run[i].started

WorkersApart ==
    \A th1, th2 \in threads :
        th1 # th2 /\ th1.owner = "worker" /\ th2.owner = "worker" => Apart(th1, th2)

(* The jobs of a TTS subprocess; before it has read its first one, the job *)
(* it was spawned for, whoever claimed that meanwhile.                     *)
Spoken(t, th) == IF th.pc = "start" THEN DOMAIN th.run ELSE StillClaimed(t, th.run)

SpeechApart ==
    \A th1, th2 \in threads :
        th1.owner = "tts" /\ th2.owner = "worker" =>
            Spoken(jobs, th1) \cap StillClaimed(jobs, th2.run) = {}

(* Only a subprocess starts, with the one job it was spawned for, or asks  *)
(* for the next one, with none.                                            *)
StartIsSpeech ==
    \A th \in threads :
        /\ th.pc \in {"start", "claim"} => th.owner # "worker"
        /\ th.pc = "start" => \E i : DOMAIN th.run = {i}
        /\ th.pc = "claim" => th.run = NoRun

ClaimsApart == OneSubprocess /\ WorkersApart /\ SpeechApart /\ StartIsSpeech

(* Claims held apart are what the runs check.                              *)
LEMMA ApartIsOneLiveClaim == TypeOK /\ ClaimsApart => OneLiveClaim
<1> SUFFICES ASSUME TypeOK, ClaimsApart, NEW th1 \in threads, NEW th2 \in threads,
                    th1 # th2, "orphan" \notin {th1.owner, th2.owner}
             PROVE  StillClaimed(jobs, th1.run) \cap StillClaimed(jobs, th2.run) = {}
  BY DEF OneLiveClaim
<1>1. th1.owner \in {"worker", "tts"} /\ th2.owner \in {"worker", "tts"}
  BY DEF TypeOK, IsThread, Owners
<1>2. CASE th1.owner = "worker" /\ th2.owner = "worker"
  BY <1>2 DEF ClaimsApart, WorkersApart, Apart, StillClaimed
<1>3. \A a, b \in threads : a.owner = "tts" /\ b.owner = "worker" =>
          StillClaimed(jobs, a.run) \cap StillClaimed(jobs, b.run) = {}
  BY DEF ClaimsApart, SpeechApart, Spoken, StillClaimed
<1> QED BY <1>1, <1>2, <1>3 DEF ClaimsApart, OneSubprocess

(* A thread after a step that changed neither its claim nor whose it is.   *)
Continues(th, next) ==
    /\ next.owner = th.owner
    /\ next.run = th.run
    /\ next.pc = "start" => th.pc = "start"
    /\ next.pc = "claim" => th.pc = "claim"

AllContinue ==
    /\ \A n \in threads' : \E th \in threads : Continues(th, n)
    /\ \A n1, n2 \in threads' : n1 # n2 =>
          \E t1, t2 \in threads : t1 # t2 /\ Continues(t1, n1) /\ Continues(t2, n2)

(* Threads that only go on stay apart: what they hold can only be lost.    *)
LEMMA ContinuedStayApart ==
  ASSUME TypeOK, [Next]_vars, ClaimsApart, AllContinue,
         \A n \in threads' : n.owner = "tts" => worker'.pc = "tts"
  PROVE  ClaimsApart'
<1>1. OneSubprocess'
  BY DEF ClaimsApart, OneSubprocess, AllContinue, Continues
<1>2. WorkersApart'
  BY DEF ClaimsApart, WorkersApart, Apart, AllContinue, Continues
<1>3. ASSUME NEW n1 \in threads', NEW n2 \in threads', n1.owner = "tts", n2.owner = "worker"
      PROVE  Spoken(jobs', n1) \cap StillClaimed(jobs', n2.run) = {}
  <2>1. PICK t1 \in threads, t2 \in threads : Continues(t1, n1) /\ Continues(t2, n2)
    BY <1>3 DEF AllContinue
  <2>2. Spoken(jobs, t1) \cap StillClaimed(jobs, t2.run) = {}
    BY <1>3, <2>1 DEF ClaimsApart, SpeechApart, Continues
  <2>3. /\ StillClaimed(jobs', t1.run) \subseteq StillClaimed(jobs, t1.run)
        /\ StillClaimed(jobs', t2.run) \subseteq StillClaimed(jobs, t2.run)
    BY LostIsLost
  <2>4. StillClaimed(jobs', t1.run) \subseteq DOMAIN t1.run
    BY DEF StillClaimed
  <2>5. Spoken(jobs', n1) \subseteq Spoken(jobs, t1)
    BY <2>1, <2>3, <2>4 DEF Spoken, Continues
  <2>6. StillClaimed(jobs', n2.run) = StillClaimed(jobs', t2.run)
    BY <2>1 DEF Continues
  <2> QED BY <2>2, <2>3, <2>5, <2>6
<1>4. ASSUME NEW n \in threads'
      PROVE  /\ n.pc \in {"start", "claim"} => n.owner # "worker"
             /\ n.pc = "start" => \E i : DOMAIN n.run = {i}
             /\ n.pc = "claim" => n.run = NoRun
  <2>1. PICK th \in threads : Continues(th, n)
    BY DEF AllContinue
  <2>2. /\ th.pc \in {"start", "claim"} => th.owner # "worker"
        /\ th.pc = "start" => \E i : DOMAIN th.run = {i}
        /\ th.pc = "claim" => th.run = NoRun
    BY DEF ClaimsApart, StartIsSpeech
  <2>3. n.run = th.run /\ n.owner = th.owner
    BY <2>1 DEF Continues
  <2>4. /\ n.pc = "start" => th.pc = "start"
        /\ n.pc = "claim" => th.pc = "claim"
    BY <2>1 DEF Continues
  <2>5. n.pc \in {"start", "claim"} => n.owner # "worker"
    BY <2>2, <2>3, <2>4
  <2>6. n.pc = "start" => \E i : DOMAIN n.run = {i}
    BY <2>2, <2>3, <2>4, Zenon
  <2>7. n.pc = "claim" => n.run = NoRun
    BY <2>2, <2>3, <2>4
  <2> QED BY <2>5, <2>6, <2>7
<1>5. StartIsSpeech'
  BY <1>4, Zenon DEF StartIsSpeech
<1> QED BY <1>1, <1>2, <1>3, <1>5 DEF ClaimsApart, SpeechApart

(* The ways the threads go on: some of them end,                           *)
LEMMA FewerContinue ==
  ASSUME threads' \subseteq threads
  PROVE  AllContinue
BY DEF AllContinue, Continues

(* or one moves.                                                           *)
LEMMA OneContinues ==
  ASSUME NEW th \in threads, NEW next, Continues(th, next),
         threads' \subseteq (threads \ {th}) \cup {next}
  PROVE  AllContinue
<1>1. \A n \in threads' : n # next => n \in threads \ {th} /\ Continues(n, n)
  BY DEF Continues
<1> QED BY <1>1 DEF AllContinue

-----------------------------------------------------------------------------
(* A new thread of the worker, or a new subprocess, has a new stamp.       *)
LEMMA ClaimRunApart ==
  ASSUME TypeOK, ClaimsApart, ClaimRun
  PROVE  ClaimsApart'
<1> DEFINE ids == NextRun(jobs)
           table == Claimed(jobs, ids, NewStamp)
           run == ClaimOf(table, ids)
<1>0. TableOK(jobs) /\ FreeStamps # {} /\ [Next]_vars
  BY DEF TypeOK, ClaimRun, Next, WorkerStep
<1>1. NewStamp \in Nat /\ ids \in SUBSET DOMAIN jobs
  BY <1>0, NewStampIsNew DEF NextRun, Queued, WithStatus
<1>2. /\ DOMAIN run = ids
      /\ \A i \in ids : run[i].started = NewStamp
  <2>1. \A i \in ids : table[i].started = NewStamp
    BY <1>0, <1>1, ClaimStarts
  <2> HIDE DEF table
  <2> QED BY <2>1 DEF ClaimOf
<1>3. \A i \in ids : jobs'[i].started = NewStamp
  <2>1. jobs' = table
    BY DEF ClaimRun
  <2>2. \A i \in ids : table[i].started = NewStamp
    BY <1>0, <1>1, ClaimStarts
  <2> HIDE DEF table, ids
  <2> QED BY <2>1, <2>2
<1>4. worker.pc = "idle" /\ \A th \in threads : th.owner # "tts"
  BY DEF ClaimRun, ClaimsApart, OneSubprocess
<1>5. \/ /\ worker'.pc = "tts"
         /\ threads' = threads \cup {NewThread("tts", "start", run)}
         /\ RunType(run) = TTS
      \/ threads' = threads \cup {NewThread("worker", "read", run)}
  BY DEF ClaimRun
<1>10. RunType(run) = TTS => ids = {HeadOf(jobs)}
  BY <1>0, RunOfSpeech DEF ClaimRun
<1>6. \A th \in threads : \A i \in DOMAIN th.run : th.run[i].started # NewStamp
  BY <1>0, NewStampIsNew
<1> HIDE DEF run, table, ids
<1>7. /\ NewThread("tts", "start", run).owner = "tts"
      /\ NewThread("tts", "start", run).pc = "start"
      /\ NewThread("tts", "start", run).run = run
      /\ NewThread("worker", "read", run).owner = "worker"
      /\ NewThread("worker", "read", run).pc = "read"
      /\ NewThread("worker", "read", run).run = run
  BY DEF NewThread
<1>8. CASE /\ worker'.pc = "tts"
           /\ threads' = threads \cup {NewThread("tts", "start", run)}
           /\ RunType(run) = TTS
  <2>1. OneSubprocess'
    BY <1>4, <1>7, <1>8 DEF OneSubprocess
  <2>2. WorkersApart'
    BY <1>7, <1>8 DEF ClaimsApart, WorkersApart, Apart
  <2>3. ASSUME NEW n1 \in threads', NEW n2 \in threads', n1.owner = "tts", n2.owner = "worker"
        PROVE  Spoken(jobs', n1) \cap StillClaimed(jobs', n2.run) = {}
    <3>1. n1 = NewThread("tts", "start", run) /\ n2 \in threads
      BY <1>4, <1>7, <1>8, <2>3
    <3>2. Spoken(jobs', n1) = ids
      BY <1>2, <1>7, <3>1 DEF Spoken
    <3> QED BY <1>3, <1>6, <3>1, <3>2 DEF StillClaimed
  <2>4. StartIsSpeech'
    BY <1>2, <1>7, <1>8, <1>10 DEF ClaimsApart, StartIsSpeech
  <2> QED BY <2>1, <2>2, <2>3, <2>4 DEF ClaimsApart, SpeechApart
<1>9. CASE threads' = threads \cup {NewThread("worker", "read", run)}
  <2>1. \A n \in threads' : n.owner # "tts"
    BY <1>4, <1>7, <1>9
  <2>2. ASSUME NEW n1 \in threads', NEW n2 \in threads', n1 # n2 PROVE Apart(n1, n2) \/ 
           n1.owner # "worker" \/ n2.owner # "worker"
    <3>1. CASE n1 \in threads /\ n2 \in threads
      BY <2>2, <3>1 DEF ClaimsApart, WorkersApart
    <3>2. CASE n1 \notin threads
      BY <1>2, <1>6, <1>7, <1>9, <2>2, <3>2 DEF Apart
    <3>3. CASE n2 \notin threads
      BY <1>2, <1>6, <1>7, <1>9, <2>2, <3>3 DEF Apart
    <3> QED BY <3>1, <3>2, <3>3
  <2>3. StartIsSpeech'
    BY <1>7, <1>9 DEF ClaimsApart, StartIsSpeech
  <2> QED BY <2>1, <2>2, <2>3 DEF ClaimsApart, OneSubprocess, WorkersApart, SpeechApart
<1> QED BY <1>5, <1>8, <1>9

(* A subprocess whose claim is all its worker's: whatever stands in its    *)
(* place next stays apart from the threads of the worker.                  *)
LEMMA NewSpeechApart ==
  ASSUME TypeOK, [Next]_vars, ClaimsApart, NEW th \in threads, NEW next,
         th.owner # "worker", next.owner = th.owner, next.pc # "start",
         next.pc = "claim" => next.run = NoRun,
         threads' = (threads \ {th}) \cup {next}, worker' = worker,
         \A t \in threads : t.owner = "worker" =>
             StillClaimed(jobs', next.run) \cap StillClaimed(jobs', t.run) = {}
  PROVE  ClaimsApart'
<1>1. OneSubprocess'
  BY DEF ClaimsApart, OneSubprocess
<1>2. WorkersApart'
  BY DEF ClaimsApart, WorkersApart
<1>3. ASSUME NEW n1 \in threads', NEW n2 \in threads', n1.owner = "tts", n2.owner = "worker"
      PROVE  Spoken(jobs', n1) \cap StillClaimed(jobs', n2.run) = {}
  <2>1. n2 \in threads
    BY <1>3
  <2>2. CASE n1 = next
    BY <1>3, <2>1, <2>2 DEF Spoken
  <2>3. CASE n1 # next
    <3>1. n1 \in threads
      BY <2>3
    <3>2. Spoken(jobs, n1) \cap StillClaimed(jobs, n2.run) = {}
      BY <1>3, <2>1, <3>1 DEF ClaimsApart, SpeechApart
    <3>3. /\ StillClaimed(jobs', n1.run) \subseteq StillClaimed(jobs, n1.run)
          /\ StillClaimed(jobs', n2.run) \subseteq StillClaimed(jobs, n2.run)
      BY <2>1, <3>1, LostIsLost
    <3> QED BY <3>2, <3>3 DEF Spoken
  <2> QED BY <2>2, <2>3
<1>4. StartIsSpeech'
  BY DEF ClaimsApart, StartIsSpeech
<1> QED BY <1>1, <1>2, <1>3, <1>4 DEF ClaimsApart, SpeechApart

(* The first job of a subprocess is read as it stands now.                 *)
LEMMA ReadFirstApart ==
  ASSUME TypeOK, ClaimsApart, [Next]_vars, NEW th \in threads, ReadFirstJob(th)
  PROVE  ClaimsApart'
<1> DEFINE i == CHOOSE id \in DOMAIN th.run : TRUE
<1>0. th.pc = "start" /\ th.owner # "worker" /\ \E j : DOMAIN th.run = {j}
  BY DEF ReadFirstJob, ClaimsApart, StartIsSpeech
<1>1. CASE i \notin Running(jobs)
  <2>1. threads' = threads \ {th} /\ worker' = IF th.owner = "tts" THEN Idle ELSE worker
    BY <1>1 DEF ReadFirstJob, Exits
  <2>2. \A n \in threads' : n.owner = "tts" => worker'.pc = "tts"
    BY <2>1 DEF ClaimsApart, OneSubprocess
  <2>3. AllContinue
    BY <2>1, FewerContinue
  <2> QED BY <2>2, <2>3, ContinuedStayApart
<1>2. CASE i \in Running(jobs)
  <2> DEFINE run == ClaimOf(jobs, {i})
             next == [th EXCEPT !.pc = "read", !.run = run]
  <2>1. /\ threads' = (threads \ {th}) \cup {next}
        /\ worker' = worker /\ jobs' = jobs
    BY <1>2 DEF ReadFirstJob, Becomes
  <2>2. DOMAIN run \subseteq DOMAIN th.run
    BY <1>0 DEF ClaimOf
  <2> HIDE DEF run
  <2>3. next.owner = th.owner /\ next.run = run /\ next.pc = "read"
    BY DEF TypeOK, IsThread
  <2> HIDE DEF next
  <2>4. ASSUME NEW t \in threads, t.owner = "worker", th.owner = "tts"
        PROVE  StillClaimed(jobs', next.run) \cap StillClaimed(jobs', t.run) = {}
    <3>1. Spoken(jobs, th) \cap StillClaimed(jobs, t.run) = {}
      BY <2>4 DEF ClaimsApart, SpeechApart
    <3> QED BY <1>0, <2>1, <2>2, <2>3, <3>1 DEF Spoken, StillClaimed
  <2>5. CASE th.owner = "tts"
    BY <1>0, <2>1, <2>3, <2>4, <2>5, NewSpeechApart
  <2>6. CASE th.owner = "orphan"
    <3>1. \A n \in threads' : n.owner \in {"tts", "worker"} => n \in threads /\ n # th
      BY <2>1, <2>3, <2>6
    <3>2. next.pc # "start"
      BY <2>3
    <3> QED BY <2>1, <2>3, <3>1, <3>2 DEF ClaimsApart, OneSubprocess, WorkersApart,
               SpeechApart, StartIsSpeech
  <2> QED BY <1>0, <2>5, <2>6 DEF TypeOK, IsThread, Owners
<1> QED BY <1>1, <1>2

(* The next job of a subprocess is claimed under a stamp of its own.       *)
LEMMA ClaimTtsApart ==
  ASSUME TypeOK, ClaimsApart, [Next]_vars, NEW th \in threads, ClaimTts(th)
  PROVE  ClaimsApart'
<1>0. th.pc = "claim" /\ th.owner # "worker" /\ TableOK(jobs)
  BY DEF ClaimTts, TypeOK, ClaimsApart, StartIsSpeech
<1>1. CASE Queued(jobs) # {} /\ TypeOf[jobs[HeadOf(jobs)].key] = TTS
  <2> DEFINE table == Claimed(jobs, {HeadOf(jobs)}, NewStamp)
             run == ClaimOf(table, {HeadOf(jobs)})
             next == NewThread(th.owner, "read", run)
  <2>1. /\ threads' = (threads \ {th}) \cup {next}
        /\ worker' = worker /\ jobs' = table /\ FreeStamps # {}
    BY <1>1 DEF ClaimTts, Becomes
  <2>2. table[HeadOf(jobs)].started = NewStamp
    <3>1. {HeadOf(jobs)} \in SUBSET DOMAIN jobs
      BY <1>0, <1>1, HeadIsQueued DEF Queued, WithStatus
    <3> QED BY <1>0, <3>1, ClaimStamps
  <2>3. DOMAIN run = {HeadOf(jobs)}
    BY DEF ClaimOf
  <2> HIDE DEF run, table
  <2>4. next.owner = th.owner /\ next.run = run /\ next.pc = "read"
    BY DEF NewThread
  <2>5. ASSUME NEW t \in threads
        PROVE  StillClaimed(jobs', next.run) \cap StillClaimed(jobs', t.run) = {}
    <3>1. \A i \in DOMAIN t.run : t.run[i].started # NewStamp
      BY <2>1, NewStampIsNew
    <3> QED BY <2>1, <2>2, <2>3, <2>4, <3>1 DEF StillClaimed
  <2> HIDE DEF next
  <2> QED BY <1>0, <2>1, <2>4, <2>5, NewSpeechApart
<1>2. CASE ~(Queued(jobs) # {} /\ TypeOf[jobs[HeadOf(jobs)].key] = TTS)
  <2>1. threads' = threads \ {th} /\ worker' = IF th.owner = "tts" THEN Idle ELSE worker
    BY <1>2 DEF ClaimTts, Exits
  <2>2. \A n \in threads' : n.owner = "tts" => worker'.pc = "tts"
    BY <2>1 DEF ClaimsApart, OneSubprocess
  <2>3. AllContinue
    BY <2>1, FewerContinue
  <2> QED BY <2>2, <2>3, ContinuedStayApart
<1> QED BY <1>1, <1>2

(* A subprocess that settled its job has no claim until the next one.      *)
LEMMA SettleTtsApart ==
  ASSUME TypeOK, ClaimsApart, [Next]_vars, NEW th \in threads, SettleTts(th)
  PROVE  ClaimsApart'
<1>0. th.owner # "worker"
  BY DEF SettleTts
<1>1. CASE th.owner = "tts"
  <2> DEFINE next == NewThread("tts", "claim", NoRun)
  <2>1. threads' = (threads \ {th}) \cup {next} /\ worker' = worker
    BY <1>1 DEF SettleTts, Becomes
  <2>2. next.owner = "tts" /\ next.run = NoRun /\ next.pc = "claim"
    BY DEF NewThread
  <2>3. StillClaimed(jobs', NoRun) = {}
    BY DEF StillClaimed, NoRun
  <2> HIDE DEF next
  <2> QED BY <1>0, <1>1, <2>1, <2>2, <2>3, NewSpeechApart
<1>2. CASE th.owner # "tts"
  <2>1. threads' = threads \ {th} /\ worker' = worker
    BY <1>2 DEF SettleTts, Exits
  <2>2. \A n \in threads' : n.owner = "tts" => worker'.pc = "tts"
    BY <2>1 DEF ClaimsApart, OneSubprocess
  <2>3. AllContinue
    BY <2>1, FewerContinue
  <2> QED BY <2>2, <2>3, ContinuedStayApart
<1> QED BY <1>1, <1>2

(* A thread that goes on with its run, or ends it.                         *)
GoesOn(th, next) ==
    /\ Continues(th, next)
    /\ th.pc # "start" /\ next.pc # "start"
    /\ next.pc = "ended" /\ next.outcome = "cancelled" => StillClaimed(jobs, th.run) = {}
    /\ \/ threads' = (threads \ {th}) \cup {next}
       \/ th.owner = "worker" /\ threads' = threads \ {th}

(* The steps of a thread between its claim and its settlement.             *)
LEMMA ThreadGoesOn ==
  ASSUME TypeOK, NEW th \in threads,
         \/ Work(th) \/ ReadCards(th) \/ KeepWanted(th) \/ Commit(th) \/ FinalCheck(th)
  PROVE  /\ \E next : GoesOn(th, next)
         /\ worker' = worker /\ jobs' = jobs /\ astray' = astray
<1>0. IsThread(th)
  BY DEF TypeOK
<1>1. ASSUME NEW outcome, NEW unanswered, EndsWith(th, outcome, unanswered), th.pc # "start",
             outcome = "cancelled" => StillClaimed(jobs, th.run) = {}
      PROVE  \E next : GoesOn(th, next)
  <2> DEFINE next == [th EXCEPT !.pc = "ended", !.outcome = outcome,
                                !.cards = {}, !.answers = unanswered]
  <2>1. \/ threads' = (threads \ {th}) \cup {next}
        \/ th.owner = "worker" /\ threads' = threads \ {th}
    BY <1>1 DEF EndsWith, Becomes
  <2>2. /\ next.owner = th.owner /\ next.run = th.run
        /\ next.pc = "ended" /\ next.outcome = outcome
    BY <1>0 DEF IsThread
  <2> HIDE DEF next
  <2>3. GoesOn(th, next)
    BY <1>1, <2>1, <2>2 DEF GoesOn, Continues
  <2> QED BY <2>3
<1>2. ASSUME NEW next, Becomes(th, next), th.pc # "start",
             next.owner = th.owner, next.run = th.run,
             next.pc \in {"check", "asking", "answered", "filtered"}
      PROVE  \E n : GoesOn(th, n)
  <2>1. GoesOn(th, next)
    BY <1>2 DEF GoesOn, Continues, Becomes
  <2> QED BY <2>1
<1>3. CASE Answer(th)
  <2>1. PICK answers :
          Becomes(th, [th EXCEPT !.answers = answers,
                         !.pc = IF IsBatch(th) THEN "answered" ELSE "filtered"])
    BY <1>3 DEF Answer
  <2> DEFINE next == [th EXCEPT !.answers = answers,
                         !.pc = IF IsBatch(th) THEN "answered" ELSE "filtered"]
  <2>2. next.owner = th.owner /\ next.run = th.run /\ next.pc \in {"answered", "filtered"}
    BY <1>0 DEF IsThread
  <2>3. Becomes(th, next)
    BY <2>1
  <2> HIDE DEF next
  <2> QED BY <1>2, <1>3, <2>2, <2>3 DEF Answer, history
<1>4. CASE Break(th) \/ FindNoAI(th)
  BY <1>1, <1>4 DEF Break, FindNoAI, history
<1>5. CASE ReadCards(th)
  <2>1. PICK cards :
          Becomes(th, [th EXCEPT !.cards = cards,
                         !.pc = IF cards = {} THEN "check" ELSE "asking"])
    BY <1>5 DEF ReadCards
  <2> DEFINE next == [th EXCEPT !.cards = cards,
                         !.pc = IF cards = {} THEN "check" ELSE "asking"]
  <2>2. next.owner = th.owner /\ next.run = th.run /\ next.pc \in {"check", "asking"}
    BY <1>0 DEF IsThread
  <2>3. Becomes(th, next)
    BY <2>1
  <2> HIDE DEF next
  <2> QED BY <1>2, <1>5, <2>2, <2>3 DEF ReadCards, history
<1>6. CASE KeepWanted(th)
  <2>1. PICK claimed : Becomes(th, [th EXCEPT !.cards = @ \cap claimed, !.pc = "filtered"])
    BY <1>6 DEF KeepWanted
  <2> DEFINE next == [th EXCEPT !.cards = @ \cap claimed, !.pc = "filtered"]
  <2>2. next.owner = th.owner /\ next.run = th.run /\ next.pc = "filtered"
    BY <1>0 DEF IsThread
  <2>3. Becomes(th, next)
    BY <2>1
  <2> HIDE DEF next
  <2> QED BY <1>2, <1>6, <2>2, <2>3 DEF KeepWanted, history
<1>7. CASE Commit(th)
  <2> DEFINE next == [th EXCEPT !.pc = "check", !.cards = {},
                                 !.answers = th.cards \ th.answers]
  <2>1. next.owner = th.owner /\ next.run = th.run /\ next.pc = "check"
    BY <1>0 DEF IsThread
  <2>2. CASE StillClaimed(jobs, th.run) = {}
    BY <1>1, <1>7, <2>2 DEF Commit
  <2>3. CASE StillClaimed(jobs, th.run) # {}
    <3>1. Becomes(th, next)
      BY <1>7, <2>3 DEF Commit
    <3> HIDE DEF next
    <3> QED BY <1>2, <1>7, <2>1, <3>1 DEF Commit
  <2> QED BY <2>2, <2>3
<1>8. CASE FinalCheck(th)
  <2>1. CASE StillClaimed(jobs, th.run) = {}
    BY <1>1, <1>8, <2>1 DEF FinalCheck, history
  <2>2. CASE StillClaimed(jobs, th.run) # {}
    BY <1>1, <1>8, <2>2 DEF FinalCheck, history
  <2> QED BY <2>1, <2>2
<1> QED BY <1>3, <1>4, <1>5, <1>6, <1>7, <1>8 DEF Work

(* Claims stay apart at every step.                                        *)
LEMMA ClaimsAlwaysApart == Spec => []ClaimsApart
<1>1. Init => ClaimsApart
  BY DEF Init, ClaimsApart, OneSubprocess, WorkersApart, SpeechApart, StartIsSpeech
<1>2. TypeOK /\ ClaimsApart /\ [Next]_vars => ClaimsApart'
  <2> SUFFICES ASSUME TypeOK, ClaimsApart, [Next]_vars PROVE ClaimsApart'
    OBVIOUS
  <2> DEFINE Paired == \A n \in threads' : n.owner = "tts" => worker'.pc = "tts"
  <2>1. ASSUME UNCHANGED <<threads, worker>> PROVE ClaimsApart'
    <3>1. AllContinue
      BY <2>1, FewerContinue
    <3> QED BY <2>1, <3>1, ContinuedStayApart DEF ClaimsApart, OneSubprocess
  <2>2. ASSUME threads' \subseteq threads, Paired PROVE ClaimsApart'
    BY <2>2, FewerContinue, ContinuedStayApart
  <2>3. CASE User
    BY <2>1, <2>3 DEF User, Ask, UserCancel, UserDismiss, UserRetry
  <2>4. CASE WorkerStep
    <3>1. CASE ClaimRun
      BY <3>1, ClaimRunApart
    <3>2. CASE WorkerStart \/ FailTimedOut \/ CompleteRest \/ FailTts
      <4>1. threads' = threads /\ worker.pc # "tts"
        BY <3>2 DEF WorkerStart, FailTimedOut, CompleteRest, FailTts
      <4> QED BY <2>2, <4>1 DEF ClaimsApart, OneSubprocess
    <3>3. ASSUME NEW th \in threads, Settle(th) PROVE ClaimsApart'
      <4>1. threads' = threads \ {th} /\ worker.pc = "waiting"
        BY <3>3 DEF Settle, Awaited
      <4> QED BY <2>2, <4>1 DEF ClaimsApart, OneSubprocess
    <3> QED BY <2>4, <3>1, <3>2, <3>3 DEF WorkerStep
  <2>5. CASE Timeout
    <3>1. threads' \subseteq threads /\ worker.pc = "waiting"
      BY <2>5 DEF Timeout
    <3> QED BY <2>2, <3>1 DEF ClaimsApart, OneSubprocess
  <2>6. ASSUME NEW th \in threads, Work(th) \/ ThreadStep(th) PROVE ClaimsApart'
    <3>1. CASE ReadFirstJob(th) \/ SettleTts(th) \/ ClaimTts(th)
      BY <3>1, ReadFirstApart, SettleTtsApart, ClaimTtsApart
    <3>2. CASE \/ Work(th) \/ ReadCards(th) \/ KeepWanted(th) \/ Commit(th) \/ FinalCheck(th)
      <4>0. PICK next : GoesOn(th, next)
        BY <3>2, ThreadGoesOn
      <4>1. AllContinue /\ worker' = worker
        BY <3>2, <4>0, ThreadGoesOn, OneContinues DEF GoesOn
      <4>2. Paired
        BY <4>1 DEF AllContinue, Continues, ClaimsApart, OneSubprocess
      <4> QED BY <4>1, <4>2, ContinuedStayApart
    <3> QED BY <2>6, <3>1, <3>2 DEF ThreadStep
  <2>7. CASE Fault
    <3>1. CASE WorkerDies
      <4>1. \A n \in threads' : n.owner = "orphan" /\ \E th \in threads :
                th.owner # "worker" /\ n = [th EXCEPT !.owner = "orphan"]
        BY <3>1 DEF WorkerDies, TypeOK, IsThread
      <4>2. \A n \in threads' : \E th \in threads : n.run = th.run /\ n.pc = th.pc
        BY <4>1 DEF TypeOK, IsThread
      <4>3. ASSUME NEW n \in threads'
            PROVE  /\ n.pc = "start" => \E i : DOMAIN n.run = {i}
                   /\ n.pc = "claim" => n.run = NoRun
        <5>1. PICK th \in threads : n.run = th.run /\ n.pc = th.pc
          BY <4>2
        <5>2. /\ th.pc = "start" => \E i : DOMAIN th.run = {i}
              /\ th.pc = "claim" => th.run = NoRun
          BY DEF ClaimsApart, StartIsSpeech
        <5> QED BY <5>1, <5>2, Zenon
      <4>4. \A n \in threads' : n.owner = "orphan"
        BY <4>1
      <4>5. StartIsSpeech'
        BY <4>3, <4>4, Zenon DEF StartIsSpeech
      <4> QED BY <4>4, <4>5 DEF ClaimsApart, OneSubprocess, WorkersApart, SpeechApart
    <3>2. CASE WorkerStops
      <4>1. threads' \subseteq threads /\ \A th \in threads' : th.owner # "tts"
        BY <3>2 DEF WorkerStops
      <4> QED BY <2>2, <4>1
    <3>3. ASSUME NEW th \in threads, TtsDies(th) PROVE ClaimsApart'
      <4>1. threads' = threads \ {th} /\ (th.owner # "tts" => worker' = worker)
        BY <3>3 DEF TtsDies
      <4> QED BY <2>2, <4>1 DEF ClaimsApart, OneSubprocess
    <3> QED BY <2>7, <3>1, <3>2, <3>3 DEF Fault
  <2>8. CASE UNCHANGED vars
    BY <2>1, <2>8 DEF vars
  <2> QED BY <2>3, <2>4, <2>5, <2>6, <2>7, <2>8 DEF Next
<1> QED BY <1>1, <1>2, TypeCorrect, PTL DEF Spec

(* Two threads of the worker, or one and a subprocess, never have a live   *)
(* claim on one job: a thread that job_worker.py gave up after its timeout *)
(* stays without its jobs for good.                                        *)
THEOREM OneLiveClaimAlways == Spec => []OneLiveClaim
BY ClaimsAlwaysApart, TypeCorrect, ApartIsOneLiveClaim, PTL

-----------------------------------------------------------------------------
(* A RUNNING job has somebody.                                             *)

(* A run given up as cancelled has no job left, and gets none back.        *)
CancelledHasNone ==
    \A th \in threads :
        th.pc = "ended" /\ th.outcome = "cancelled" => StillClaimed(jobs, th.run) = {}

(* It stays so whatever is claimed later.                                  *)
LEMMA CancelledStaysSo ==
  ASSUME TypeOK, [Next]_vars, CancelledHasNone
  PROVE  CancelledHasNone'
<1> DEFINE Same(n, th) == n.run = th.run /\ n.pc = th.pc /\ n.outcome = th.outcome
<1>1. ASSUME NEW n \in threads', NEW th \in threads, Same(n, th),
             n.pc = "ended", n.outcome = "cancelled"
      PROVE  StillClaimed(jobs', n.run) = {}
  BY <1>1, LostIsLost DEF CancelledHasNone
<1>2. ASSUME \A n \in threads' : n.pc = "ended" => \E th \in threads : Same(n, th)
      PROVE  CancelledHasNone'
  BY <1>1, <1>2 DEF CancelledHasNone
<1>3. ASSUME threads' \subseteq threads PROVE CancelledHasNone'
  BY <1>2, <1>3
<1>4. ASSUME NEW next, next.pc # "ended", threads' \subseteq threads \cup {next}
      PROVE  CancelledHasNone'
  BY <1>2, <1>4
<1>5. \A owner, run : /\ NewThread(owner, "start", run).pc # "ended"
                      /\ NewThread(owner, "read", run).pc # "ended"
                      /\ NewThread(owner, "claim", run).pc # "ended"
  BY DEF NewThread
<1>6. CASE User \/ Timeout \/ UNCHANGED vars
  BY <1>3, <1>6 DEF User, Ask, UserCancel, UserDismiss, UserRetry, Timeout, vars
<1>7. CASE WorkerStep
  <2>1. CASE ClaimRun
    BY <1>4, <1>5, <2>1 DEF ClaimRun
  <2>2. CASE ~ClaimRun
    BY <1>3, <1>7, <2>2 DEF WorkerStep, WorkerStart, FailTimedOut, CompleteRest, FailTts, Settle
  <2> QED BY <2>1, <2>2
<1>8. ASSUME NEW th \in threads, Work(th) \/ ThreadStep(th) PROVE CancelledHasNone'
  <2>1. CASE ReadFirstJob(th)
    <3> DEFINE next == [th EXCEPT !.pc = "read",
                          !.run = ClaimOf(jobs, {CHOOSE id \in DOMAIN th.run : TRUE})]
    <3>1. threads' \subseteq threads \cup {next}
      BY <2>1 DEF ReadFirstJob, Becomes, Exits
    <3>2. next.pc # "ended"
      BY DEF TypeOK, IsThread
    <3> HIDE DEF next
    <3> QED BY <1>4, <3>1, <3>2
  <2>2. CASE SettleTts(th) \/ ClaimTts(th)
    BY <1>3, <1>4, <1>5, <2>2 DEF SettleTts, ClaimTts, Becomes, Exits
  <2>3. CASE \/ Work(th) \/ ReadCards(th) \/ KeepWanted(th) \/ Commit(th) \/ FinalCheck(th)
    <3>1. PICK next : GoesOn(th, next)
      BY <2>3, ThreadGoesOn
    <3>2. jobs' = jobs
      BY <2>3, ThreadGoesOn
    <3>3. \A n \in threads' : n \in threads \/ n = next
      BY <3>1 DEF GoesOn
    <3> QED BY <3>1, <3>2, <3>3 DEF CancelledHasNone, GoesOn, Continues
  <2> QED BY <1>8, <2>1, <2>2, <2>3 DEF ThreadStep
<1>9. CASE Fault
  <2>1. CASE WorkerDies
    <3>1. \A n \in threads' : \E th \in threads : Same(n, th)
      BY <2>1 DEF WorkerDies, TypeOK, IsThread
    <3> QED BY <1>2, <3>1
  <2>2. CASE ~WorkerDies
    BY <1>3, <1>9, <2>2 DEF Fault, WorkerStops, TtsDies
  <2> QED BY <2>1, <2>2
<1> QED BY <1>6, <1>7, <1>8, <1>9 DEF Next

(* Who a RUNNING job waits for: the worker's loop, which holds its claim,  *)
(* or the subprocess that speaks it, or the worker that finds it dead.     *)
Tended(i) ==
    \/ worker.pc \in {"waiting", "timedOut", "completing"} /\ Holds(worker.run, i)
    \/ /\ worker.pc \in {"tts", "ttsDead"} /\ TypeOf[jobs[i].key] = TTS
       /\ worker.pc = "tts" => \E th \in threads : th.owner = "tts" /\ i \in Spoken(jobs, th)

RunningIsTended ==
    worker.pc # "down" =>
        \A i \in Running(jobs) : jobs[i].key \in astray \/ Tended(i)

(* The subprocesses of the worker go on, none reads its first job.         *)
SpeechGoesOn ==
    \A th \in threads : th.owner = "tts" =>
        \E n \in threads' : Continues(th, n) /\ (th.pc = "start" => n.pc = "start")

(* A job that runs on stays tended while the worker and the subprocesses   *)
(* go on.                                                                  *)
LEMMA StaysTended ==
  ASSUME RunningIsTended, SpeechGoesOn, astray \subseteq astray', worker' = worker,
         \A i \in Running(jobs') : jobs'[i].key \in astray' \/ RunsOn(i)
  PROVE  RunningIsTended'
<1> SUFFICES ASSUME worker.pc # "down", NEW i \in Running(jobs'), jobs'[i].key \notin astray'
             PROVE  Tended(i)'
  BY Zenon DEF RunningIsTended
<1>1. /\ i \in Running(jobs) /\ jobs'[i].started = jobs[i].started
      /\ jobs'[i].key = jobs[i].key
  BY DEF RunsOn
<1>2. Tended(i)
  BY <1>1 DEF RunningIsTended
<1>3. Holds(worker.run, i) => Holds(worker.run, i)'
  BY <1>1 DEF Holds
<1>4. ASSUME NEW th \in threads, th.owner = "tts", i \in Spoken(jobs, th)
      PROVE  \E n \in threads' : n.owner = "tts" /\ i \in Spoken(jobs', n)
  <2>1. PICK n \in threads' : Continues(th, n) /\ (th.pc = "start" => n.pc = "start")
    BY <1>4 DEF SpeechGoesOn
  <2>2. i \in Spoken(jobs', n)
    BY <1>1, <1>4, <2>1 DEF Spoken, Continues, StillClaimed
  <2> QED BY <1>4, <2>1, <2>2 DEF Continues
<1> QED BY <1>1, <1>2, <1>3, <1>4 DEF Tended

(* What the writes that end a job leave running.                           *)
LEMMA EndsRunning ==
  ASSUME NEW t, TableOK(t)
  PROVE  /\ \A run : Running(Complete(t, run)) \cap DOMAIN run = {}
         /\ \A ids : /\ Running(Fail(t, ids)) \cap ids = {}
                     /\ Running(Requeue(t, ids)) \cap ids = {}
         /\ \A i \in Running(FailRunning(t, TTS)) : TypeOf[t[i].key] # TTS
<1> USE DEF Running, WithStatus
<1>1. ASSUME NEW run PROVE Running(Complete(t, run)) \cap DOMAIN run = {}
  BY DEF Complete, DropFailed, Without
<1>2. ASSUME NEW ids PROVE Running(Fail(t, ids)) \cap ids = {}
  BY DEF Fail, Moved, TableOK, Row
<1>3. ASSUME NEW ids PROVE Running(Requeue(t, ids)) \cap ids = {}
  BY DEF Requeue, TableOK, Row
<1>4. ASSUME NEW i \in Running(FailRunning(t, TTS)) PROVE TypeOf[t[i].key] # TTS
  <2> DEFINE ids == {j \in DOMAIN t : TypeOf[t[j].key] = TTS}
  <2>1. i \notin ids
    BY <1>2, <1>4 DEF FailRunning
  <2>2. i \in DOMAIN t
    BY <1>4 DEF FailRunning, Fail, Moved
  <2> QED BY <2>1, <2>2
<1> QED BY <1>1, <1>2, <1>3, <1>4

(* A claim gives its jobs to the worker or to a new subprocess.            *)
LEMMA ClaimRunTends ==
  ASSUME TypeOK, RunningIsTended, ClaimRun
  PROVE  RunningIsTended'
<1> DEFINE ids == NextRun(jobs)
           table == Claimed(jobs, ids, NewStamp)
           run == ClaimOf(table, ids)
           speech == NewThread("tts", "start", run)
<1>0. TableOK(jobs) /\ Queued(jobs) # {} /\ FreeStamps # {} /\ worker.pc = "idle"
  BY DEF ClaimRun, TypeOK
<1>1. ids \subseteq DOMAIN jobs
  BY DEF NextRun, Queued, WithStatus
<1>2. jobs' = table /\ astray' = astray
  BY DEF ClaimRun, history
<1>3. /\ Running(table) = Running(jobs) \cup ids
      /\ \A i \in DOMAIN jobs : table[i].key = jobs[i].key
  BY <1>0, <1>1, ClaimStarts, NewStampIsNew
<1>4. \A i \in Running(jobs) : jobs[i].key \in astray
  BY <1>0 DEF RunningIsTended, Tended
<1>5. DOMAIN run = ids /\ \A i \in ids : run[i].started = table[i].started
  BY DEF ClaimOf
<1>6. \/ /\ worker' = [pc |-> "tts", run |-> NoRun] /\ speech \in threads'
         /\ RunType(run) = TTS
      \/ worker' = [pc |-> "waiting", run |-> run]
  BY DEF ClaimRun
<1>7. RunType(run) = TTS => \A i \in ids : TypeOf[jobs[i].key] = TTS
  BY <1>0, RunOfSpeech
<1>8. Running(jobs) \subseteq DOMAIN jobs
  BY DEF Running, WithStatus
<1> HIDE DEF ids, table, run
<1>9. speech.owner = "tts" /\ speech.pc = "start" /\ speech.run = run
  BY DEF NewThread
<1> HIDE DEF speech
<1> SUFFICES ASSUME NEW i \in Running(jobs'), jobs'[i].key \notin astray'
             PROVE  Tended(i)'
  BY Zenon DEF RunningIsTended
<1>10. i \in ids /\ i \in DOMAIN jobs
  BY <1>1, <1>2, <1>3, <1>4, <1>8
<1>11. CASE worker' = [pc |-> "waiting", run |-> run]
  <2>1. worker'.pc = "waiting" /\ worker'.run = run
    BY <1>11
  <2> QED BY <1>2, <1>5, <1>10, <2>1 DEF Tended, Holds
<1>12. CASE worker' = [pc |-> "tts", run |-> NoRun] /\ speech \in threads' /\ RunType(run) = TTS
  <2>1. TypeOf[jobs'[i].key] = TTS
    BY <1>2, <1>3, <1>7, <1>10, <1>12
  <2>2. i \in Spoken(jobs', speech)
    BY <1>5, <1>9, <1>10 DEF Spoken
  <2>3. worker'.pc = "tts"
    BY <1>12
  <2> QED BY <1>9, <1>12, <2>1, <2>2, <2>3 DEF Tended
<1> QED BY <1>6, <1>11, <1>12

(* What a job that is still to be tended was before the step.              *)
LEMMA TendedBefore ==
  ASSUME RunningIsTended, worker.pc # "down", astray' = astray, RanBefore(jobs, jobs'),
         NEW i \in Running(jobs'), jobs'[i].key \notin astray'
  PROVE  /\ i \in Running(jobs) /\ Tended(i)
         /\ jobs'[i].started = jobs[i].started /\ jobs'[i].key = jobs[i].key
BY DEF RanBefore, RunningIsTended

(* A worker that goes idle, or on to complete, leaves no job of its run.   *)
LEMMA SettleTends ==
  ASSUME TypeOK, CancelledHasNone, RunningIsTended, NEW th \in threads, Settle(th)
  PROVE  RunningIsTended'
<1> DEFINE failed == {j \in DOMAIN th.run : th.run[j].key \in th.answers}
           answered == [j \in DOMAIN th.run \ failed |-> th.run[j]]
<1>0. /\ TableOK(jobs) /\ worker.pc = "waiting" /\ worker.run = th.run
      /\ th.pc = "ended" /\ astray' = astray
  BY DEF TypeOK, Settle, Awaited, history
<1>1. \/ th.outcome = "cancelled" /\ jobs' = jobs
      \/ jobs' = Requeue(jobs, DOMAIN th.run)
      \/ jobs' = Fail(jobs, DOMAIN th.run)
      \/ failed = {} /\ jobs' = Complete(jobs, answered)
      \/ jobs' = Fail(jobs, failed) /\ worker' = [pc |-> "completing", run |-> answered]
  BY DEF Settle
<1>2. RanBefore(jobs, jobs')
  <2>1. RanBefore(jobs, jobs)
    BY DEF RanBefore
  <2> HIDE DEF failed, answered
  <2> QED BY <1>0, <1>1, <2>1, WritesStartNothing
<1> SUFFICES ASSUME NEW i \in Running(jobs'), jobs'[i].key \notin astray'
             PROVE  Tended(i)'
  BY Zenon DEF RunningIsTended
<1>3. /\ i \in Running(jobs) /\ Tended(i)
      /\ jobs'[i].started = jobs[i].started /\ jobs'[i].key = jobs[i].key
  BY <1>0, <1>2, TendedBefore
<1>4. i \in DOMAIN th.run /\ th.run[i].started = jobs[i].started
  BY <1>0, <1>3 DEF Tended, Holds
<1>5. th.outcome # "cancelled"
  BY <1>0, <1>3, <1>4 DEF CancelledHasNone, StillClaimed
<1>6. jobs' # Requeue(jobs, DOMAIN th.run) /\ jobs' # Fail(jobs, DOMAIN th.run)
  BY <1>0, <1>4, EndsRunning
<1>7. ~(failed = {} /\ jobs' = Complete(jobs, answered))
  <2>1. failed = {} => i \in DOMAIN answered
    BY <1>4
  <2> HIDE DEF answered, failed
  <2> QED BY <1>0, <2>1, EndsRunning
<1>8. jobs' = Fail(jobs, failed) /\ worker' = [pc |-> "completing", run |-> answered]
  BY <1>1, <1>5, <1>6, <1>7
<1>9. i \notin failed
  <2> HIDE DEF failed
  <2> QED BY <1>0, <1>8, EndsRunning
<1>10. i \in DOMAIN answered /\ answered[i].started = th.run[i].started
  BY <1>4, <1>9
<1>11. worker'.pc = "completing" /\ worker'.run = answered
  BY <1>8
<1> HIDE DEF answered, failed
<1> QED BY <1>3, <1>4, <1>10, <1>11 DEF Tended, Holds

(* So does one that fails its run, completes the rest of it or fails what  *)
(* a dead subprocess left.                                                 *)
LEMMA WorkerWriteTends ==
  ASSUME TypeOK, RunningIsTended, FailTimedOut \/ CompleteRest \/ FailTts
  PROVE  RunningIsTended'
<1>0. TableOK(jobs) /\ astray' = astray /\ worker.pc # "down"
  BY DEF TypeOK, FailTimedOut, CompleteRest, FailTts, history
<1>1. RanBefore(jobs, jobs')
  BY <1>0, WritesStartNothing DEF FailTimedOut, CompleteRest, FailTts
<1> SUFFICES ASSUME NEW i \in Running(jobs'), jobs'[i].key \notin astray'
             PROVE  FALSE
  BY Zenon DEF RunningIsTended
<1>2. i \in Running(jobs) /\ Tended(i) /\ jobs'[i].key = jobs[i].key
  BY <1>0, <1>1, TendedBefore
<1>3. CASE FailTimedOut
  BY <1>0, <1>2, <1>3, EndsRunning DEF FailTimedOut, Tended, Holds
<1>4. CASE CompleteRest
  BY <1>0, <1>2, <1>4, EndsRunning DEF CompleteRest, Tended, Holds
<1>5. CASE FailTts
  BY <1>0, <1>2, <1>5, EndsRunning DEF FailTts, Tended
<1> QED BY <1>3, <1>4, <1>5

(* One thread that is no subprocess of the worker goes, the others stay.   *)
LEMMA OthersGoOn ==
  ASSUME NEW th \in threads, th.owner # "tts" \/ th \in threads',
         \A t \in threads \ {th} : t \in threads'
  PROVE  SpeechGoesOn
BY DEF SpeechGoesOn, Continues

(* The one subprocess of a waiting worker speaks every job that runs.      *)
LEMMA SpeaksAll ==
  ASSUME ClaimsApart, RunningIsTended, NEW th \in threads, th.owner = "tts"
  PROVE  /\ worker.pc = "tts"
         /\ \A i \in Running(jobs) : jobs[i].key \notin astray =>
                i \in Spoken(jobs, th) /\ TypeOf[jobs[i].key] = TTS
BY DEF ClaimsApart, OneSubprocess, RunningIsTended, Tended

(* A subprocess that reads its first job speaks it from then on; when it   *)
(* is gone, nothing runs.                                                  *)
LEMMA ReadFirstTends ==
  ASSUME TypeOK, ClaimsApart, RunningIsTended, NEW th \in threads, ReadFirstJob(th)
  PROVE  RunningIsTended'
<1> DEFINE first == CHOOSE id \in DOMAIN th.run : TRUE
           next == [th EXCEPT !.pc = "read", !.run = ClaimOf(jobs, {first})]
<1>0. /\ th.pc = "start" /\ th.owner # "worker" /\ jobs' = jobs /\ astray' = astray
      /\ \E j : DOMAIN th.run = {j}
  BY DEF ReadFirstJob, ClaimsApart, StartIsSpeech, history
<1>1. \/ /\ first \in Running(jobs) /\ threads' = (threads \ {th}) \cup {next}
         /\ worker' = worker
      \/ /\ first \notin Running(jobs) /\ threads' = threads \ {th}
         /\ worker' = IF th.owner = "tts" THEN Idle ELSE worker
  BY DEF ReadFirstJob, Becomes, Exits
<1>2. /\ next.owner = th.owner /\ next.pc = "read"
      /\ DOMAIN next.run = {first} /\ next.run[first].started = jobs[first].started
  BY DEF TypeOK, IsThread, ClaimOf
<1>3. DOMAIN th.run = {first}
  BY <1>0
<1> HIDE DEF first, next
<1>4. CASE th.owner # "tts"
  <2>1. SpeechGoesOn /\ worker' = worker
    BY <1>1, <1>4, OthersGoOn
  <2> QED BY <1>0, <2>1, StaysTended DEF RunsOn
<1>5. CASE th.owner = "tts"
  <2> SUFFICES ASSUME NEW i \in Running(jobs'), jobs'[i].key \notin astray'
               PROVE  Tended(i)'
    BY Zenon DEF RunningIsTended
  <2>1. worker.pc = "tts" /\ i \in Spoken(jobs, th) /\ TypeOf[jobs[i].key] = TTS
    BY <1>0, <1>5, SpeaksAll
  <2>2. i = first
    BY <1>0, <1>3, <2>1 DEF Spoken
  <2>3. threads' = (threads \ {th}) \cup {next} /\ worker' = worker
    BY <1>0, <1>1, <2>2
  <2>4. i \in Spoken(jobs', next)
    BY <1>0, <1>2, <2>2 DEF Spoken, StillClaimed
  <2> QED BY <1>0, <1>2, <1>5, <2>1, <2>3, <2>4 DEF Tended
<1> QED BY <1>4, <1>5

(* A subprocess that settles its job leaves none running,                  *)
LEMMA SettleTtsTends ==
  ASSUME TypeOK, ClaimsApart, CancelledHasNone, RunningIsTended,
         NEW th \in threads, SettleTts(th)
  PROVE  RunningIsTended'
<1>0. /\ TableOK(jobs) /\ th.pc = "ended"
      /\ \/ th.outcome = "done" /\ jobs' = Complete(jobs, th.run)
         \/ th.outcome = "cancelled" /\ jobs' = jobs
         \/ jobs' = Fail(jobs, DOMAIN th.run)
  BY DEF TypeOK, SettleTts
<1>1. RanBefore(jobs, jobs')
  <2>1. RanBefore(jobs, jobs)
    BY DEF RanBefore
  <2> QED BY <1>0, <2>1, WritesStartNothing
<1>2. CASE th.owner # "tts"
  <2>1. /\ threads' = threads \ {th} /\ worker' = worker
        /\ astray \subseteq astray'
    BY <1>2 DEF SettleTts, Exits
  <2>2. SpeechGoesOn
    BY <1>2, <2>1, OthersGoOn
  <2> QED BY <1>1, <2>1, <2>2, StaysTended DEF RunsOn, RanBefore
<1>3. CASE th.owner = "tts"
  <2>1. astray' = astray
    BY <1>3 DEF SettleTts
  <2> SUFFICES ASSUME NEW i \in Running(jobs'), jobs'[i].key \notin astray'
               PROVE  FALSE
    BY Zenon DEF RunningIsTended
  <2>2. i \in Running(jobs) /\ jobs[i].key \notin astray
    BY <1>1, <2>1 DEF RanBefore
  <2>3. i \in StillClaimed(jobs, th.run)
    BY <1>0, <1>3, <2>2, SpeaksAll DEF Spoken
  <2>4. i \in DOMAIN th.run
    BY <2>3 DEF StillClaimed
  <2> QED BY <1>0, <2>3, <2>4, EndsRunning DEF CancelledHasNone
<1> QED BY <1>2, <1>3

(* and the next one it claims is spoken.                                   *)
LEMMA ClaimTtsTends ==
  ASSUME TypeOK, ClaimsApart, RunningIsTended, NEW th \in threads, ClaimTts(th)
  PROVE  RunningIsTended'
<1> DEFINE h == HeadOf(jobs)
           table == Claimed(jobs, {h}, NewStamp)
           run == ClaimOf(table, {h})
           next == NewThread(th.owner, "read", run)
<1>0. TableOK(jobs) /\ FreeStamps # {} /\ th.run = NoRun /\ th.pc = "claim"
  BY DEF TypeOK, ClaimTts, ClaimsApart, StartIsSpeech
<1>1. th.owner = "tts" => \A i \in Running(jobs) : jobs[i].key \in astray
  BY <1>0, SpeaksAll DEF Spoken, StillClaimed, NoRun
<1>2. CASE ~(Queued(jobs) # {} /\ TypeOf[jobs[h].key] = TTS)
  <2>1. /\ threads' = threads \ {th} /\ jobs' = jobs /\ astray' = astray
        /\ worker' = IF th.owner = "tts" THEN Idle ELSE worker
    BY <1>2 DEF ClaimTts, Exits
  <2>2. CASE th.owner # "tts"
    <3>1. SpeechGoesOn
      BY <2>1, <2>2, OthersGoOn
    <3> QED BY <2>1, <2>2, <3>1, StaysTended DEF RunsOn
  <2>3. CASE th.owner = "tts"
    BY <1>1, <2>1, <2>3 DEF RunningIsTended
  <2> QED BY <2>2, <2>3
<1>3. CASE Queued(jobs) # {} /\ TypeOf[jobs[h].key] = TTS
  <2>1. /\ threads' = (threads \ {th}) \cup {next}
        /\ worker' = worker /\ jobs' = table
        /\ astray' = IF th.owner = "orphan" THEN astray \cup {jobs[h].key} ELSE astray
    BY <1>3 DEF ClaimTts, Becomes
  <2>2. h \in DOMAIN jobs
    BY <1>0, <1>3, HeadIsQueued DEF Queued, WithStatus
  <2>3. /\ Running(table) = Running(jobs) \cup {h}
        /\ \A i \in DOMAIN jobs : table[i].key = jobs[i].key
        /\ \A i \in DOMAIN jobs \ {h} : table[i] = jobs[i]
    <3>1. {h} \in SUBSET DOMAIN jobs /\ NewStamp \in Nat
      BY <1>0, <2>2, NewStampIsNew
    <3> DEFINE ids == {h}
    <3>2. \A i \in ids : i = h
      OBVIOUS
    <3>3. h \in ids /\ ids \in SUBSET DOMAIN jobs
      BY <3>1
    <3>4. table = Claimed(jobs, ids, NewStamp)
      OBVIOUS
    <3> HIDE DEF ids, table, h
    <3>5. /\ Running(table) = Running(jobs) \cup ids
          /\ \A i \in DOMAIN jobs : table[i].key = jobs[i].key
          /\ \A i \in DOMAIN jobs \ ids : table[i] = jobs[i]
      BY <1>0, <3>1, <3>3, <3>4, ClaimStarts
    <3> QED BY <3>2, <3>3, <3>5
  <2>4. DOMAIN run = {h} /\ run[h].started = table[h].started
    BY DEF ClaimOf
  <2>5. Running(jobs) \subseteq DOMAIN jobs
    BY DEF Running, WithStatus
  <2> HIDE DEF run, table, h
  <2>6. next.owner = th.owner /\ next.pc = "read" /\ next.run = run
    BY DEF NewThread
  <2> HIDE DEF next
  <2>7. CASE th.owner = "tts"
    <3> SUFFICES ASSUME NEW i \in Running(jobs'), jobs'[i].key \notin astray'
                 PROVE  Tended(i)'
      BY Zenon DEF RunningIsTended
    <3>1. i = h
      BY <1>1, <2>1, <2>3, <2>5, <2>7
    <3>2. worker.pc = "tts" /\ TypeOf[jobs'[i].key] = TTS
      BY <1>3, <2>1, <2>2, <2>3, <2>7, <3>1, SpeaksAll
    <3>3. i \in Spoken(jobs', next)
      BY <2>1, <2>4, <2>6, <3>1 DEF Spoken, StillClaimed
    <3> QED BY <2>1, <2>6, <2>7, <3>2, <3>3 DEF Tended
  <2>8. CASE th.owner # "tts"
    <3>1. th.owner = "orphan"
      BY <2>8 DEF TypeOK, IsThread, Owners, ClaimTts, ClaimsApart, StartIsSpeech
    <3>2. SpeechGoesOn
      BY <2>1, <2>8, OthersGoOn
    <3>3. \A i \in Running(jobs') : jobs'[i].key \in astray' \/ RunsOn(i)
      BY <2>1, <2>2, <2>3, <2>5, <3>1 DEF RunsOn
    <3> QED BY <2>1, <3>2, <3>3, StaysTended
  <2> QED BY <2>7, <2>8
<1> QED BY <1>2, <1>3

(* A run given up as cancelled stays without its jobs, and a RUNNING job   *)
(* has somebody, at every step.                                            *)
LEMMA RunningAlwaysTended == Spec => [](CancelledHasNone /\ RunningIsTended)
<1>1. Init => CancelledHasNone /\ RunningIsTended
  BY DEF Init, CancelledHasNone, RunningIsTended
<1>2. TypeOK /\ ClaimsApart /\ CancelledHasNone /\ RunningIsTended /\ [Next]_vars
        => CancelledHasNone' /\ RunningIsTended'
  <2> SUFFICES ASSUME TypeOK, ClaimsApart, CancelledHasNone, RunningIsTended, [Next]_vars
               PROVE  RunningIsTended'
    BY CancelledStaysSo
  <2>0. threads' = threads => SpeechGoesOn
    BY DEF SpeechGoesOn, Continues
  <2>1. CASE User
    <3>1. RanBefore(jobs, jobs')
      BY <2>1, UserStartsNothing
    <3>2. worker' = worker /\ threads' = threads /\ astray' = astray
      BY <2>1 DEF User, Ask, UserCancel, UserDismiss, UserRetry, history
    <3> QED BY <2>0, <3>1, <3>2, StaysTended DEF RanBefore, RunsOn
  <2>2. CASE WorkerStep
    <3>1. CASE WorkerStart
      <4>1. TableOK(jobs) /\ jobs' = Requeue(jobs, DOMAIN jobs)
        BY <3>1 DEF WorkerStart, TypeOK
      <4>2. Running(jobs') \subseteq DOMAIN jobs
        BY <4>1 DEF Running, WithStatus, Requeue
      <4> QED BY <4>1, <4>2, EndsRunning DEF RunningIsTended
    <3> QED BY <2>2, <3>1, ClaimRunTends, SettleTends, WorkerWriteTends DEF WorkerStep
  <2>3. CASE Timeout
    <3>1. /\ worker.pc = "waiting" /\ worker'.pc = "timedOut" /\ worker'.run = worker.run
          /\ jobs' = jobs /\ astray' = astray
      BY <2>3 DEF Timeout, TypeOK, IsWorker, history
    <3> QED BY <3>1 DEF RunningIsTended, Tended, Holds
  <2>4. ASSUME NEW th \in threads, Work(th) \/ ThreadStep(th) PROVE RunningIsTended'
    <3>1. CASE \/ Work(th) \/ ReadCards(th) \/ KeepWanted(th) \/ Commit(th) \/ FinalCheck(th)
      <4>1. PICK next : GoesOn(th, next)
        BY <3>1, ThreadGoesOn
      <4>2. worker' = worker /\ jobs' = jobs /\ astray' = astray
        BY <3>1, ThreadGoesOn
      <4>3. SpeechGoesOn
        BY <4>1 DEF SpeechGoesOn, GoesOn, Continues
      <4> QED BY <4>2, <4>3, StaysTended DEF RunsOn
    <3> QED BY <2>4, <3>1, ReadFirstTends, SettleTtsTends, ClaimTtsTends DEF ThreadStep
  <2>5. CASE Fault
    <3>1. CASE WorkerDies \/ WorkerStops
      BY <3>1 DEF WorkerDies, WorkerStops, RunningIsTended
    <3>2. ASSUME NEW th \in threads, TtsDies(th) PROVE RunningIsTended'
      <4>1. threads' = threads \ {th} /\ jobs' = jobs /\ astray' = astray
        BY <3>2 DEF TtsDies, history
      <4>2. CASE th.owner = "tts"
        <5>1. worker.pc = "tts" /\ worker'.pc = "ttsDead"
          BY <3>2, <4>2, SpeaksAll DEF TtsDies, TypeOK, IsWorker
        <5> QED BY <4>1, <5>1 DEF RunningIsTended, Tended
      <4>3. CASE th.owner # "tts"
        <5>1. SpeechGoesOn /\ worker' = worker
          BY <3>2, <4>1, <4>3, OthersGoOn DEF TtsDies
        <5> QED BY <4>1, <5>1, StaysTended DEF RunsOn
      <4> QED BY <4>2, <4>3
    <3> QED BY <2>5, <3>1, <3>2 DEF Fault
  <2>6. CASE UNCHANGED vars
    BY <2>0, <2>6, StaysTended DEF vars, RunsOn
  <2> QED BY <2>1, <2>2, <2>3, <2>4, <2>5, <2>6 DEF Next
<1> QED BY <1>1, <1>2, TypeCorrect, ClaimsAlwaysApart, PTL DEF Spec

(* A RUNNING job is held by the worker's loop or by a TTS subprocess of    *)
(* its worker, or waits for the worker to fail what the subprocess left:   *)
(* none is forgotten while a worker is up.                                 *)
THEOREM RunningIsAttendedAlways == Spec => []RunningIsAttended
<1>1. RunningIsTended => RunningIsAttended
  BY DEF RunningIsTended, RunningIsAttended, Tended, Attended
<1> QED BY <1>1, RunningAlwaysTended, PTL

-----------------------------------------------------------------------------
(* A job in line stays until it is answered.                               *)

(* The rows that have to stay: their jobs are owed, and neither got an id  *)
(* that some run had claimed nor fell to a subprocess without its worker.  *)
IsDue(k) == k \in owed \ (recycled \cup astray)
DueIds == {i \in DOMAIN jobs : IsDue(jobs[i].key)}

(* What a run may say of the rows due at its ids, and of its own keys.     *)
SameKeys(run) == \A i \in DueIds \cap DOMAIN run : jobs[i].key = run[i].key
NoneFailed(run) == \A i \in DueIds \cap Failed(jobs) : jobs[i].key \notin RunKeys(run)

(* A run that still has all its rows that are due: each runs on under the  *)
(* claim, and none of its keys is a failed job again.                      *)
HeldRun(run) ==
    /\ DueIds \cap DOMAIN run \subseteq StillClaimed(jobs, run)
    /\ SameKeys(run)
    /\ NoneFailed(run)

(* A run whose completion removes nothing that is due.                     *)
Spared(run) == DueIds \cap DOMAIN run = {} /\ NoneFailed(run)

(* The runs that are still to be settled by the worker they belong to.     *)
Live(th) == th.owner = "tts" \/ Awaited(th)

(* The keys a thread has not answered so far.                              *)
Open(th) ==
    IF th.pc \in {"asking", "answered", "filtered"} THEN th.cards
    ELSE IF th.pc = "check" \/ (th.pc = "ended" /\ th.outcome = "done") THEN th.answers
    ELSE RunKeys(th.run)

OpenIsDue(th) == \A i \in DueIds \cap DOMAIN th.run : jobs[i].key \in Open(th)

(* A live thread holds its run, and what is due of it is what it has not   *)
(* answered; one without its worker knows at least whose rows are due.     *)
ThreadHolds(th) ==
    /\ th.owner = "orphan" => SameKeys(th.run)
    /\ Live(th) => HeldRun(th.run) /\ OpenIsDue(th)

ThreadsHold == \A th \in threads : ThreadHolds(th)
RestIsSpared == worker.pc = "completing" => Spared(worker.run)

(* Nothing is owed that has its result.                                    *)
AnswersKept == results \cap owed = {}

(* A TTS subprocess works on one job; it voices that job or, when the job  *)
(* is of another type, nothing, and leaves nothing unanswered.             *)
VoicesAll(th) ==
    /\ th.pc # "claim" => \E i : DOMAIN th.run = {i}
    /\ th.pc \in {"start", "read", "claim"} => th.answers = {}
    /\ th.pc = "asking" => /\ th.cards # {} /\ th.answers = {}
                           /\ th.cards \subseteq {k \in RunKeys(th.run) : TypeOf[k] = TTS}
    /\ th.pc # "answered"
    /\ th.pc = "filtered" => th.answers = th.cards
    /\ th.pc = "check" \/ (th.pc = "ended" /\ th.outcome = "done") => th.answers = {}

SpeechIsWhole == \A th \in threads : th.owner = "tts" => VoicesAll(th)

JobsAreKept == /\ AnswersKept /\ ThreadsHold /\ RestIsSpared
               /\ JobStaysUntilAnswered

(* A row due after a step was due before it, and still runs if it ran, or  *)
(* is a new one at an id no run had claimed.                               *)
RowStays(i) ==
    /\ i \in DueIds /\ jobs'[i].key = jobs[i].key
    /\ i \in Running(jobs) => i \in Running(jobs') /\ jobs'[i].started = jobs[i].started
    /\ i \in Failed(jobs') => i \in Failed(jobs)

DueRowsStay == \A i \in DueIds' : \/ RowStays(i)
                                  \/ i \notin ClaimedIds /\ i \notin Failed(jobs')

(* Nothing more is due.                                                    *)
FewerDue == owed' \subseteq owed /\ recycled \subseteq recycled' /\ astray \subseteq astray'

(* A row due after a write that only changes or removes rows was due.      *)
LEMMA DueBefore ==
  ASSUME FewerDue, KeepsKeys(jobs, jobs')
  PROVE  \A i \in DueIds' : i \in DueIds /\ jobs'[i].key = jobs[i].key
BY DEF FewerDue, KeepsKeys, DueIds, IsDue

(* Where nothing is written and nothing more is due, the rows stay.        *)
LEMMA UnwrittenStay ==
  ASSUME FewerDue, jobs' = jobs
  PROVE  DueRowsStay
BY DEF FewerDue, DueRowsStay, RowStays, DueIds, IsDue

(* While the rows stay, a run keeps what it holds.                         *)
LEMMA RunKeepsRows ==
  ASSUME DueRowsStay, NEW run, DOMAIN run \subseteq ClaimedIds
  PROVE  /\ HeldRun(run) => HeldRun(run)'
         /\ SameKeys(run) => SameKeys(run)'
         /\ Spared(run) => Spared(run)'
         /\ DueIds' \cap DOMAIN run \subseteq DueIds
<1>1. \A i \in DueIds' \cap DOMAIN run : RowStays(i)
  BY DEF DueRowsStay
<1>2. \A i \in DueIds' \cap Failed(jobs') : RowStays(i)
  BY DEF DueRowsStay
<1>3. SameKeys(run) => SameKeys(run)'
  BY <1>1 DEF SameKeys, RowStays
<1>4. NoneFailed(run) => NoneFailed(run)'
  BY <1>2 DEF NoneFailed, RowStays
<1>5. DueIds \cap DOMAIN run \subseteq StillClaimed(jobs, run) =>
        DueIds' \cap DOMAIN run \subseteq StillClaimed(jobs', run)
  BY <1>1 DEF StillClaimed, RowStays
<1>6. DueIds' \cap DOMAIN run \subseteq DueIds
  BY <1>1 DEF RowStays
<1> QED BY <1>3, <1>4, <1>5, <1>6 DEF HeldRun, Spared

(* The ids of every thread's run are claimed ones.                         *)
LEMMA RunsAreClaimed ==
  /\ DOMAIN worker.run \subseteq ClaimedIds
  /\ \A th \in threads : DOMAIN th.run \subseteq ClaimedIds
BY DEF ClaimedIds

(* While the rows stay, a thread that goes on holds its run.               *)
LEMMA ThreadHoldsOn ==
  ASSUME ThreadsHold, DueRowsStay, NEW th \in threads, NEW n,
         worker' = worker, n.owner = th.owner, n.run = th.run,
         Live(th) => OpenIsDue(n)'
  PROVE  ThreadHolds(n)'
<1>1. ThreadHolds(th) /\ DOMAIN th.run \subseteq ClaimedIds
  BY RunsAreClaimed DEF ThreadsHold
<1>2. Live(n)' => Live(th)
  BY DEF Live, Awaited
<1>3. /\ HeldRun(th.run) => HeldRun(th.run)'
      /\ SameKeys(th.run) => SameKeys(th.run)'
  BY <1>1, RunKeepsRows
<1>4. /\ HeldRun(th.run)' => HeldRun(n.run)'
      /\ SameKeys(th.run)' => SameKeys(n.run)'
  BY DEF HeldRun, SameKeys, NoneFailed, RunKeys, StillClaimed
<1> QED BY <1>1, <1>2, <1>3, <1>4 DEF ThreadHolds

(* So does every thread when none but new ones changed.                    *)
LEMMA ThreadsHoldOn ==
  ASSUME ThreadsHold, RestIsSpared, DueRowsStay, worker' = worker,
         \A n \in threads' : n \in threads \/ ThreadHolds(n)'
  PROVE  ThreadsHold' /\ RestIsSpared'
<1>1. ASSUME NEW n \in threads', n \in threads PROVE ThreadHolds(n)'
  <2>1. DOMAIN n.run \subseteq ClaimedIds
    BY <1>1, RunsAreClaimed
  <2>2. \A i \in DueIds' \cap DOMAIN n.run : i \in DueIds /\ jobs'[i].key = jobs[i].key
    BY <2>1 DEF DueRowsStay, RowStays
  <2>3. Live(n) => OpenIsDue(n)'
    BY <1>1, <2>2 DEF ThreadsHold, ThreadHolds, OpenIsDue, Open
  <2> QED BY <1>1, <2>3, ThreadHoldsOn
<1>2. RestIsSpared'
  <2>1. PICK run : run = worker.run
    OBVIOUS
  <2>2. Spared(run) => Spared(run)'
    BY <2>1, RunKeepsRows, RunsAreClaimed
  <2>3. Spared(worker.run) => Spared(run)
    BY <2>1 DEF Spared, NoneFailed, RunKeys
  <2>4. Spared(run)' => Spared(worker.run)'
    BY <2>1 DEF Spared, NoneFailed, RunKeys
  <2> QED BY <2>2, <2>3, <2>4 DEF RestIsSpared
<1> QED BY <1>1, <1>2 DEF ThreadsHold

(* A worker that waits for nobody leaves no live thread.                   *)
LEMMA NoneIsLive ==
  ASSUME ThreadsHold, FewerDue, KeepsKeys(jobs, jobs'), ClaimsApart',
         worker'.pc \notin {"tts", "waiting"}, threads' \subseteq threads
  PROVE  ThreadsHold'
<1> SUFFICES ASSUME NEW th \in threads' PROVE ThreadHolds(th)'
  BY DEF ThreadsHold
<1>1. ~Live(th)'
  BY DEF Live, Awaited, ClaimsApart, OneSubprocess
<1>2. th.owner = "orphan" => SameKeys(th.run)'
  BY DueBefore DEF ThreadsHold, ThreadHolds, SameKeys
<1> QED BY <1>1, <1>2 DEF ThreadHolds

(* A job stays in the table when no row is removed that is due.            *)
LEMMA JobStays ==
  ASSUME JobStaysUntilAnswered, FewerDue, KeepsKeys(jobs, jobs'),
         \A i \in DueIds \ DOMAIN jobs' : \A k : k = jobs[i].key => ~IsDue(k)'
  PROVE  JobStaysUntilAnswered'
<1> SUFFICES ASSUME NEW k, IsDue(k)' PROVE HasRow(jobs', k)
  BY DEF JobStaysUntilAnswered, IsDue
<1>1. IsDue(k)
  BY DEF IsDue, FewerDue
<1>2. PICK i \in DOMAIN jobs : jobs[i].key = k
  BY <1>1 DEF JobStaysUntilAnswered, IsDue, HasRow
<1>3. i \in DOMAIN jobs'
  BY <1>1, <1>2 DEF DueIds
<1> QED BY <1>2, <1>3 DEF HasRow, KeepsKeys

(* What completing a run removes.                                          *)
LEMMA CompleteRemoves ==
  ASSUME NEW t, TableOK(t), NEW run
  PROVE  \A i \in DOMAIN t \ DOMAIN Complete(t, run) :
            i \in DOMAIN run \/ (i \in Failed(t) /\ t[i].key \in RunKeys(run))
BY DEF Complete, DropFailed, Without, Failed, WithStatus, RunKeys

(* The rows that the other writes leave as they are or change.             *)
LEMMA WritesKeepRows ==
  ASSUME NEW t, TableOK(t)
  PROVE  /\ \A ids : /\ DOMAIN Fail(t, ids) = DOMAIN t
                     /\ DOMAIN Requeue(t, ids) = DOMAIN t
                     /\ \A i \in DOMAIN t \ ids : Fail(t, ids)[i] = t[i]
                     /\ \A i \in DOMAIN Cancel(t, ids) : Cancel(t, ids)[i] = t[i]
                     /\ \A i \in DOMAIN Dismiss(t, ids) : Dismiss(t, ids)[i] = t[i]
                     /\ \A i \in Running(t) : /\ i \in Running(Retry(t, ids))
                                              /\ Retry(t, ids)[i] = t[i]
                     /\ Failed(Retry(t, ids)) \subseteq Failed(t)
         /\ \A run : \A i \in DOMAIN Complete(t, run) : Complete(t, run)[i] = t[i]
         /\ \A type : DOMAIN FailRunning(t, type) = DOMAIN t
<1> USE DEF Running, Failed, WithStatus
<1>1. ASSUME NEW ids
      PROVE  /\ DOMAIN Fail(t, ids) = DOMAIN t
             /\ DOMAIN Requeue(t, ids) = DOMAIN t
             /\ \A i \in DOMAIN t \ ids : Fail(t, ids)[i] = t[i]
  BY DEF Fail, Moved, Requeue
<1>2. ASSUME NEW ids
      PROVE  /\ \A i \in DOMAIN Cancel(t, ids) : Cancel(t, ids)[i] = t[i]
             /\ \A i \in DOMAIN Dismiss(t, ids) : Dismiss(t, ids)[i] = t[i]
  BY DEF Cancel, Dismiss, Without
<1>3. ASSUME NEW ids
      PROVE  /\ \A i \in Running(t) : i \in Running(Retry(t, ids)) /\ Retry(t, ids)[i] = t[i]
             /\ Failed(Retry(t, ids)) \subseteq Failed(t)
  BY DEF Retry, RetryDropped, Without, NewRow
<1>4. ASSUME NEW run PROVE \A i \in DOMAIN Complete(t, run) : Complete(t, run)[i] = t[i]
  BY DEF Complete, DropFailed, Without
<1> QED BY <1>1, <1>2, <1>3, <1>4 DEF FailRunning

(* A retry drops no job: with one row per key, none is queued twice.       *)
LEMMA RetryDropsNone ==
  ASSUME NEW t, TableOK(t), OneRowPerKey(t), NEW ids
  PROVE  DOMAIN Retry(t, ids) = DOMAIN t
<1>1. \A i \in DOMAIN t : t[i].created \in Nat /\ i \in Nat
  BY DEF TableOK, Row, JobIds
<1>2. RetryDropped(t, ids) = {}
  <2> SUFFICES ASSUME NEW i \in RetryDropped(t, ids) PROVE FALSE
    OBVIOUS
  <2>1. i \in DOMAIN t /\ t[i].status = "failed"
    BY DEF RetryDropped, Failed, WithStatus
  <2>2. ASSUME NEW j \in Active(t), t[j].key = t[i].key PROVE FALSE
    BY <2>1, <2>2 DEF Active, Queued, Running, WithStatus, OneRowPerKey
  <2>3. ASSUME NEW j \in Failed(t), Before(t, j, i), t[j].key = t[i].key PROVE FALSE
    <3>1. j = i
      BY <2>1, <2>3 DEF Failed, WithStatus, OneRowPerKey
    <3> QED BY <1>1, <2>1, <2>3, <3>1 DEF Before
  <2> QED BY <2>2, <2>3 DEF RetryDropped, KeysOf
<1> QED BY <1>2 DEF Retry, Without

(* Changed rows that run on, and fail only if they had failed, stay.       *)
LEMMA KeptRowsStay ==
  ASSUME FewerDue, KeepsKeys(jobs, jobs'),
         \A i \in DueIds' :
            /\ i \in Running(jobs) => i \in Running(jobs') /\ jobs'[i].started = jobs[i].started
            /\ i \in Failed(jobs') => i \in Failed(jobs)
  PROVE  DueRowsStay
BY DueBefore DEF DueRowsStay, RowStays

(* So do rows that are left as they were, or removed.                      *)
LEMMA LeftRowsStay ==
  ASSUME FewerDue, KeepsKeys(jobs, jobs'), \A i \in DueIds' : jobs'[i] = jobs[i]
  PROVE  DueRowsStay
<1>1. \A i \in DueIds' : i \in DOMAIN jobs' /\ i \in DOMAIN jobs
  BY DueBefore DEF DueIds
<1> QED BY <1>1, KeptRowsStay DEF Running, Failed, WithStatus

(* The table r once the keys ks were put in line in t at the ids of at.    *)
Requested(t, ks, at, r) ==
    /\ DOMAIN r = DOMAIN DropFailed(t, ks) \cup DOMAIN at
    /\ \A i \in DOMAIN at : r[i] = NewRow(at[i], Now(t))
    /\ \A i \in DOMAIN DropFailed(t, ks) : r[i] = DropFailed(t, ks)[i]
    /\ \A k \in ks : \E i \in DOMAIN at : at[i] = k

(* That is what enqueue makes of it.                                       *)
LEMMA EnqueueAdds ==
  ASSUME NEW t, TableOK(t), NEW ks \in SUBSET Keys, NEW at \in Placings(t, ks)
  PROVE  Requested(t, ks, at, Enqueue(t, at))
<1>1. /\ DOMAIN Enqueue(t, at) = DOMAIN DropFailed(t, ks) \cup DOMAIN at
      /\ \A i \in DOMAIN at : Enqueue(t, at)[i] = NewRow(at[i], Now(t))
      /\ \A i \in DOMAIN DropFailed(t, ks) : Enqueue(t, at)[i] = DropFailed(t, ks)[i]
  BY EnqueueShape
<1>2. \A k \in ks : \E i \in DOMAIN at : at[i] = k
  BY DEF Placings
<1> QED BY <1>1, <1>2, Zenon DEF Requested

(* A request keeps every job in line, and puts its own there.              *)
LEMMA AskKeeps ==
  ASSUME TypeOK, JobsAreKept, NEW ks \in SUBSET Keys, Ask(ks)
  PROVE  JobsAreKept'
<1> DEFINE fresh == Fresh(jobs, ks)
           kept == DropFailed(jobs, fresh)
<1>0. TableOK(jobs) /\ fresh \in SUBSET Keys /\ fresh \subseteq ks
  BY DEF TypeOK, Fresh
<1>1. PICK at \in Placings(jobs, fresh) :
        /\ jobs' = Enqueue(jobs, at)
        /\ recycled' = (recycled \ fresh) \cup {at[i] : i \in DOMAIN at \cap ClaimedIds}
  BY DEF Ask
<1>2. /\ results' = results \ ks /\ owed' = owed \cup fresh
      /\ worker' = worker /\ threads' = threads /\ astray' = astray
  BY DEF Ask
<1>3. \A i \in DOMAIN kept : i \in DOMAIN jobs /\ kept[i] = jobs[i]
  BY DEF DropFailed, Without
<1>4. \A i \in DOMAIN jobs : i \in DOMAIN kept <=> jobs[i].key \notin fresh
  BY <1>0 DEF DropFailed, Without, Fresh, KeysOf, Active, Queued, Running, Failed,
              WithStatus, TableOK, Row
<1>5. /\ DOMAIN jobs' = DOMAIN kept \cup DOMAIN at
      /\ \A i \in DOMAIN at : jobs'[i] = NewRow(at[i], Now(jobs))
      /\ \A i \in DOMAIN kept : jobs'[i] = kept[i]
      /\ \A k \in fresh : \E i \in DOMAIN at : at[i] = k
  <2> HIDE DEF fresh
  <2>1. Requested(jobs, fresh, at, jobs')
    BY <1>0, <1>1, EnqueueAdds
  <2> QED BY <2>1 DEF Requested
<1> HIDE DEF fresh, kept
<1>6. \A i \in DOMAIN at : jobs'[i].key = at[i] /\ jobs'[i].status = "queued"
  BY <1>5 DEF NewRow
<1>7. DueRowsStay
  <2> SUFFICES ASSUME NEW i \in DueIds'
               PROVE  RowStays(i) \/ (i \notin ClaimedIds /\ i \notin Failed(jobs'))
    BY DEF DueRowsStay
  <2>0. i \in DOMAIN jobs' /\ jobs'[i].key \in owed' /\ jobs'[i].key \notin recycled'
        /\ jobs'[i].key \notin astray
    BY <1>2 DEF DueIds, IsDue
  <2>1. CASE i \in DOMAIN at
    <3>1. i \in ClaimedIds => at[i] \in recycled'
      BY <1>1, <2>1
    <3> QED BY <1>6, <2>0, <2>1, <3>1 DEF Failed, WithStatus
  <2>2. CASE i \in DOMAIN kept
    <3>1. i \in DOMAIN jobs /\ jobs'[i] = jobs[i] /\ jobs[i].key \notin fresh
      BY <1>3, <1>4, <1>5, <2>2
    <3>2. i \in DueIds
      BY <1>1, <1>2, <2>0, <3>1 DEF DueIds, IsDue
    <3> QED BY <2>0, <3>1, <3>2 DEF RowStays, Running, Failed, WithStatus
  <2> QED BY <1>5, <2>0, <2>1, <2>2
<1>8. AnswersKept'
  BY <1>0, <1>2 DEF JobsAreKept, AnswersKept
<1>9. JobStaysUntilAnswered'
  <2> SUFFICES ASSUME NEW k, IsDue(k)' PROVE HasRow(jobs', k)
    BY DEF JobStaysUntilAnswered, IsDue
  <2>1. CASE k \in fresh
    BY <1>5, <1>6, <2>1 DEF HasRow
  <2>2. CASE k \notin fresh
    <3>1. IsDue(k)
      BY <1>1, <1>2, <2>2 DEF IsDue
    <3>2. PICK i \in DOMAIN jobs : jobs[i].key = k
      BY <3>1 DEF JobsAreKept, JobStaysUntilAnswered, IsDue, HasRow
    <3> QED BY <1>3, <1>4, <1>5, <2>2, <3>2 DEF HasRow
  <2> QED BY <2>1, <2>2
<1>10. ThreadsHold' /\ RestIsSpared'
  BY <1>2, <1>7, ThreadsHoldOn DEF JobsAreKept
<1> QED BY <1>8, <1>9, <1>10 DEF JobsAreKept

(* What a user takes away was given up, and a retry takes nothing away.    *)
LEMMA UserKeeps ==
  ASSUME TypeOK, OneJobPerKey, JobsAreKept, User
  PROVE  JobsAreKept'
<1>0. TableOK(jobs) /\ OneRowPerKey(jobs)
  BY DEF TypeOK, OneJobPerKey
<1>1. ASSUME DueRowsStay, FewerDue, KeepsKeys(jobs, jobs'),
             UNCHANGED <<results, worker, threads>>,
             \A i \in DueIds \ DOMAIN jobs' : \A k : k = jobs[i].key => ~IsDue(k)'
      PROVE  JobsAreKept'
  <2>1. ThreadsHold' /\ RestIsSpared'
    BY <1>1, ThreadsHoldOn DEF JobsAreKept
  <2>2. JobStaysUntilAnswered'
    BY <1>1, JobStays DEF JobsAreKept
  <2>3. AnswersKept'
    BY <1>1 DEF JobsAreKept, AnswersKept, FewerDue
  <2> QED BY <2>1, <2>2, <2>3 DEF JobsAreKept
<1>2. ASSUME NEW sel, UserCancel(sel) \/ UserDismiss(sel) PROVE JobsAreKept'
  <2>1. PICK gone : /\ jobs' = Cancel(jobs, gone) \/ jobs' = Dismiss(jobs, gone)
                    /\ owed' = owed \ KeysOf(jobs, gone)
                    /\ UNCHANGED <<results, worker, threads, recycled, astray>>
    BY <1>2 DEF UserCancel, UserDismiss
  <2>2. FewerDue /\ KeepsKeys(jobs, jobs')
    BY <1>0, <2>1, SettledKeepsKeys DEF FewerDue
  <2>3. \A i \in DOMAIN jobs' : jobs'[i] = jobs[i]
    BY <1>0, <2>1, WritesKeepRows
  <2>4. DueRowsStay
    BY <2>2, <2>3, LeftRowsStay DEF DueIds
  <2>5. \A i \in DOMAIN jobs \ DOMAIN jobs' : i \in gone
    BY <2>1 DEF Cancel, Dismiss, Without
  <2>6. \A i \in DueIds \ DOMAIN jobs' : \A k : k = jobs[i].key => ~IsDue(k)'
    BY <2>1, <2>5 DEF DueIds, IsDue, KeysOf
  <2> QED BY <1>1, <2>1, <2>2, <2>4, <2>6
<1>3. ASSUME NEW sel, UserRetry(sel) PROVE JobsAreKept'
  <2>1. PICK ids : jobs' = Retry(jobs, ids)
    BY <1>3 DEF UserRetry
  <2>2. UNCHANGED <<results, worker, threads, owed, recycled, astray>>
    BY <1>3 DEF UserRetry, history
  <2>3. FewerDue /\ KeepsKeys(jobs, jobs')
    BY <1>0, <2>1, <2>2, SettledKeepsKeys DEF FewerDue
  <2>4. DOMAIN jobs' = DOMAIN jobs
    BY <1>0, <2>1, RetryDropsNone
  <2>5. DueRowsStay
    BY <1>0, <2>1, <2>3, KeptRowsStay, WritesKeepRows
  <2> QED BY <1>1, <2>2, <2>3, <2>4, <2>5 DEF DueIds
<1> QED BY <1>2, <1>3, AskKeeps DEF User

-----------------------------------------------------------------------------
(* Steps after which nobody is waited for.                                 *)

(* They keep the jobs if they remove none that is due.                     *)
LEMMA IdleKeeps ==
  ASSUME JobsAreKept, ClaimsApart', FewerDue, KeepsKeys(jobs, jobs'), results' = results,
         worker'.pc \notin {"tts", "waiting", "completing"}, threads' \subseteq threads,
         \A i \in DueIds \ DOMAIN jobs' : \A k : k = jobs[i].key => ~IsDue(k)'
  PROVE  JobsAreKept'
<1>1. ThreadsHold' /\ RestIsSpared'
  BY NoneIsLive DEF JobsAreKept, RestIsSpared
<1>2. JobStaysUntilAnswered'
  BY JobStays DEF JobsAreKept
<1>3. AnswersKept'
  BY DEF JobsAreKept, AnswersKept, FewerDue
<1> QED BY <1>1, <1>2, <1>3 DEF JobsAreKept

(* The worker's own writes fail, requeue or complete what it may.          *)
LEMMA WorkerWriteKeeps ==
  ASSUME TypeOK, ClaimsApart', JobsAreKept,
         WorkerStart \/ FailTimedOut \/ CompleteRest \/ FailTts
  PROVE  JobsAreKept'
<1>0. /\ TableOK(jobs) /\ FewerDue /\ results' = results /\ threads' = threads
      /\ worker'.pc = "idle"
  BY DEF TypeOK, WorkerStart, FailTimedOut, CompleteRest, FailTts, history, FewerDue, Idle
<1>1. KeepsKeys(jobs, jobs')
  BY <1>0, SettledKeepsKeys DEF WorkerStart, FailTimedOut, CompleteRest, FailTts
<1>2. CASE WorkerStart \/ FailTimedOut \/ FailTts
  <2>1. DOMAIN jobs' = DOMAIN jobs
    BY <1>0, <1>2, WritesKeepRows DEF WorkerStart, FailTimedOut, FailTts
  <2> QED BY <1>0, <1>1, <2>1, IdleKeeps DEF DueIds
<1>3. CASE CompleteRest
  <2>1. jobs' = Complete(jobs, worker.run) /\ Spared(worker.run)
    BY <1>3 DEF CompleteRest, JobsAreKept, RestIsSpared
  <2>2. \A i \in DueIds : i \in DOMAIN jobs'
    BY <1>0, <2>1, CompleteRemoves DEF Spared, NoneFailed, DueIds
  <2> QED BY <1>0, <1>1, <2>2, IdleKeeps
<1> QED BY <1>2, <1>3

(* A run that is done spares what is due with the part it completes.       *)
LEMMA DoneSpares ==
  ASSUME NEW th, HeldRun(th.run), OpenIsDue(th), Open(th) = th.answers,
         NEW ids, \A i \in ids : i \in DOMAIN th.run /\ th.run[i].key \notin th.answers
  PROVE  Spared([i \in ids |-> th.run[i]])
<1> DEFINE part == [i \in ids |-> th.run[i]]
<1>1. DueIds \cap ids = {}
  BY DEF HeldRun, SameKeys, OpenIsDue
<1>2. RunKeys(part) \subseteq RunKeys(th.run)
  BY DEF RunKeys
<1>3. NoneFailed(part)
  BY <1>2 DEF HeldRun, NoneFailed
<1> QED BY <1>1, <1>3 DEF Spared

(* The worker settles its run: what it completes is answered.              *)
LEMMA SettleKeeps ==
  ASSUME TypeOK, ClaimsApart', JobsAreKept, NEW th \in threads, Settle(th)
  PROVE  JobsAreKept'
<1> DEFINE failed == {j \in DOMAIN th.run : th.run[j].key \in th.answers}
           answered == [j \in DOMAIN th.run \ failed |-> th.run[j]]
<1>0. /\ TableOK(jobs) /\ Awaited(th) /\ th.pc = "ended"
      /\ threads' = threads \ {th} /\ results' = results /\ FewerDue
  BY DEF TypeOK, Settle, history, FewerDue
<1>1. HeldRun(th.run) /\ OpenIsDue(th)
  BY <1>0 DEF JobsAreKept, ThreadsHold, ThreadHolds, Live
<1>2. \/ /\ worker' = Idle
         /\ \/ jobs' = jobs
            \/ jobs' = Requeue(jobs, DOMAIN th.run)
            \/ jobs' = Fail(jobs, DOMAIN th.run)
      \/ /\ th.outcome = "done" /\ worker' = Idle /\ jobs' = Complete(jobs, answered)
      \/ /\ th.outcome = "done" /\ worker' = [pc |-> "completing", run |-> answered]
         /\ jobs' = Fail(jobs, failed)
  BY DEF Settle
<1>3. th.outcome = "done" => Spared(answered)
  <2>1. th.outcome = "done" => Open(th) = th.answers
    BY <1>0 DEF Open
  <2>2. \A i \in DOMAIN th.run \ failed : i \in DOMAIN th.run /\ th.run[i].key \notin th.answers
    OBVIOUS
  <2> HIDE DEF failed
  <2> QED BY <1>1, <2>1, <2>2, DoneSpares
<1>4. \A i \in failed : i \in DOMAIN th.run /\ th.run[i].key \in th.answers
  OBVIOUS
<1>5. \A k \in RunKeys(answered) : k \notin th.answers
  BY DEF RunKeys
<1>6. KeepsKeys(jobs, jobs')
  <2>1. KeepsKeys(jobs, jobs)
    BY DEF KeepsKeys
  <2> HIDE DEF failed, answered
  <2> QED BY <1>0, <1>2, <2>1, SettledKeepsKeys
<1> HIDE DEF failed, answered
<1>7. CASE worker' = Idle
  <2>1. \A i \in DueIds : i \in DOMAIN jobs'
    <3>1. CASE th.outcome = "done" /\ jobs' = Complete(jobs, answered)
      BY <1>0, <1>3, <3>1, CompleteRemoves DEF Spared, NoneFailed, DueIds
    <3>2. CASE jobs' = jobs \/ jobs' = Requeue(jobs, DOMAIN th.run)
               \/ jobs' = Fail(jobs, DOMAIN th.run)
      BY <1>0, <3>2, WritesKeepRows DEF DueIds
    <3>3. \A run : [pc |-> "completing", run |-> run] # Idle
      BY DEF Idle
    <3> QED BY <1>2, <1>7, <3>1, <3>2, <3>3
  <2>2. worker'.pc = "idle"
    BY <1>7 DEF Idle
  <2> QED BY <1>0, <1>6, <2>1, <2>2, IdleKeeps
<1>8. CASE /\ th.outcome = "done" /\ worker' = [pc |-> "completing", run |-> answered]
           /\ jobs' = Fail(jobs, failed)
  <2>0. worker'.pc = "completing" /\ worker'.run = answered
    BY <1>8
  <2>1. DOMAIN jobs' = DOMAIN jobs /\ \A i \in DOMAIN jobs \ failed : jobs'[i] = jobs[i]
    BY <1>0, <1>8, WritesKeepRows
  <2>2. \A i \in DueIds' : i \in DueIds /\ jobs'[i].key = jobs[i].key
    BY <1>0, <1>6, DueBefore
  <2>3. ASSUME NEW i \in DueIds', i \in Failed(jobs') PROVE jobs'[i].key \notin RunKeys(answered)
    <3>1. CASE i \in failed
      BY <1>1, <1>4, <1>5, <2>2, <3>1 DEF HeldRun, SameKeys
    <3>2. CASE i \notin failed
      <4>1. i \in DueIds \cap Failed(jobs)
        BY <2>1, <2>2, <2>3, <3>2 DEF Failed, WithStatus
      <4> QED BY <1>3, <1>8, <2>2, <4>1 DEF Spared, NoneFailed
    <3> QED BY <3>1, <3>2
  <2>4. RestIsSpared'
    BY <1>3, <1>8, <2>0, <2>2, <2>3 DEF RestIsSpared, Spared, NoneFailed, RunKeys
  <2>5. ThreadsHold'
    BY <1>0, <1>6, <2>0, NoneIsLive DEF JobsAreKept
  <2>6. JobStaysUntilAnswered'
    BY <1>0, <1>6, <2>1, JobStays DEF JobsAreKept, DueIds
  <2>7. AnswersKept'
    BY <1>0 DEF JobsAreKept, AnswersKept, FewerDue
  <2> QED BY <2>4, <2>5, <2>6, <2>7 DEF JobsAreKept
<1> QED BY <1>2, <1>7, <1>8

-----------------------------------------------------------------------------
(* Claims.                                                                 *)

(* A run that was claimed by this step has all its rows.                   *)
LEMMA ClaimIsHeld ==
  ASSUME OneJobPerKey', NEW ids, ids \subseteq Running(jobs'),
         NEW run, run = ClaimOf(jobs', ids)
  PROVE  HeldRun(run)'
<1>1. /\ DOMAIN run = ids
      /\ \A i \in ids : run[i].key = jobs'[i].key /\ run[i].started = jobs'[i].started
  BY DEF ClaimOf
<1>2. ids \subseteq StillClaimed(jobs', run)
  BY <1>1 DEF StillClaimed
<1>3. \A i \in Failed(jobs') : jobs'[i].key \notin RunKeys(run)
  <2> SUFFICES ASSUME NEW i \in Failed(jobs'), NEW j \in ids, run[j].key = jobs'[i].key
               PROVE  FALSE
    BY <1>1 DEF RunKeys
  <2>1. j \in DOMAIN jobs' /\ i \in DOMAIN jobs' /\ jobs'[j].key = jobs'[i].key
    BY <1>1 DEF Running, Failed, WithStatus
  <2>2. i = j
    BY <2>1 DEF OneJobPerKey, OneRowPerKey
  <2> QED BY <2>2 DEF Running, Failed, WithStatus
<1>4. \A i \in DueIds' \cap DOMAIN run : jobs'[i].key = run[i].key
  BY <1>1
<1> QED BY <1>1, <1>2, <1>3, <1>4 DEF HeldRun, SameKeys, NoneFailed

(* A thread that has just begun with it holds it.                          *)
LEMMA NewThreadHolds ==
  ASSUME NEW n, n.pc \in {"start", "read", "claim"}, HeldRun(n.run)'
  PROVE  ThreadHolds(n)'
<1>1. Open(n)' = RunKeys(n.run)
  BY DEF Open
<1>2. \A i \in DueIds' \cap DOMAIN n.run : jobs'[i].key \in RunKeys(n.run)
  BY DEF HeldRun, SameKeys, RunKeys
<1> QED BY <1>1, <1>2 DEF ThreadHolds, HeldRun, OpenIsDue

(* To claim a job that was in line changes no row of another run.          *)
LEMMA ClaimStays ==
  ASSUME TypeOK, FewerDue, NEW ids \in SUBSET Queued(jobs), NEW stamp \in Nat,
         jobs' = Claimed(jobs, ids, stamp)
  PROVE  DueRowsStay /\ DOMAIN jobs' = DOMAIN jobs /\ ids \subseteq Running(jobs')
<1>0. TableOK(jobs) /\ ids \in SUBSET DOMAIN jobs
  BY DEF TypeOK, Queued, WithStatus
<1>1. /\ DOMAIN jobs' = DOMAIN jobs
      /\ Running(jobs') = Running(jobs) \cup ids
      /\ \A i \in DOMAIN jobs \ ids : jobs'[i] = jobs[i]
  BY <1>0, ClaimStarts
<1>2. KeepsKeys(jobs, jobs')
  BY <1>0, SettledKeepsKeys
<1>3. \A i \in ids : i \notin Running(jobs) /\ i \notin Failed(jobs')
  BY <1>1 DEF Queued, Running, Failed, WithStatus
<1>4. DueRowsStay
  <2>1. \A i \in DueIds' : i \in DOMAIN jobs
    BY <1>1 DEF DueIds
  <2> QED BY <1>1, <1>2, <1>3, <2>1, KeptRowsStay DEF Running, Failed, WithStatus
<1> QED BY <1>1, <1>4

(* A claim of the worker.                                                  *)
LEMMA ClaimRunKeeps ==
  ASSUME TypeOK, OneJobPerKey', ClaimsApart, JobsAreKept, ClaimRun
  PROVE  JobsAreKept'
<1> DEFINE ids == NextRun(jobs)
<1>a. PICK run : run = ClaimOf(jobs', ids)
  OBVIOUS
<1> DEFINE speech == NewThread("tts", "start", run)
           thread == NewThread("worker", "read", run)
<1>0. /\ TableOK(jobs) /\ Queued(jobs) # {} /\ FreeStamps # {} /\ worker.pc = "idle"
      /\ jobs' = Claimed(jobs, ids, NewStamp) /\ results' = results /\ FewerDue
  BY DEF ClaimRun, TypeOK, history, FewerDue
<1>1. \/ worker' = [pc |-> "tts", run |-> NoRun] /\ threads' = threads \cup {speech}
      \/ worker' = [pc |-> "waiting", run |-> run] /\ threads' = threads \cup {thread}
  BY <1>a DEF ClaimRun
<1>2. ids \in SUBSET Queued(jobs) /\ NewStamp \in Nat /\ HeadOf(jobs) \in ids
  BY <1>0, NewStampIsNew, RunHasItsHead DEF NextRun
<1>3. \A i \in ids : jobs'[i].started = NewStamp
  <2>1. ids \in SUBSET DOMAIN jobs
    BY <1>2 DEF Queued, WithStatus
  <2> HIDE DEF ids
  <2> QED BY <1>0, <2>1, ClaimStamps
<1> HIDE DEF ids
<1>4. DueRowsStay /\ DOMAIN jobs' = DOMAIN jobs /\ ids \subseteq Running(jobs')
  BY <1>0, <1>2, ClaimStays
<1>5. HeldRun(run)'
  BY <1>a, <1>4, ClaimIsHeld
<1>6. \A th \in threads : th.run # run
  <2>1. DOMAIN run = ids /\ \A i \in ids : run[i].started = NewStamp
    BY <1>a, <1>3 DEF ClaimOf
  <2> QED BY <1>0, <1>2, <2>1, NewStampIsNew
<1>7. /\ speech.pc = "start" /\ speech.run = run
      /\ thread.pc = "read" /\ thread.run = run
  BY DEF NewThread
<1> HIDE DEF speech, thread
<1>8. ASSUME NEW n, n = speech \/ n = thread PROVE ThreadHolds(n)'
  <2>1. n.pc \in {"start", "read", "claim"} /\ n.run = run
    BY <1>7, <1>8
  <2>2. HeldRun(n.run)'
    BY <1>5, <2>1 DEF HeldRun, SameKeys, NoneFailed, RunKeys, StillClaimed
  <2> QED BY <2>1, <2>2, NewThreadHolds
<1>9. ASSUME NEW th \in threads PROVE ThreadHolds(th)'
  <2>1. th.owner # "tts"
    BY <1>0 DEF ClaimsApart, OneSubprocess
  <2>2. worker'.pc = "waiting" => worker'.run = run
    BY <1>1
  <2>3. ~Live(th)'
    BY <1>6, <2>1, <2>2 DEF Live, Awaited
  <2>4. SameKeys(th.run) => SameKeys(th.run)'
    BY <1>4, RunKeepsRows, RunsAreClaimed
  <2> QED BY <2>3, <2>4 DEF JobsAreKept, ThreadsHold, ThreadHolds
<1>10. ThreadsHold'
  BY <1>1, <1>8, <1>9 DEF ThreadsHold
<1>11. RestIsSpared'
  BY <1>1 DEF RestIsSpared
<1>12. JobStaysUntilAnswered'
  <2>1. KeepsKeys(jobs, jobs')
    BY <1>0, SettledKeepsKeys
  <2> QED BY <1>0, <1>4, <2>1, JobStays DEF JobsAreKept, DueIds
<1>13. AnswersKept'
  BY <1>0 DEF JobsAreKept, AnswersKept, FewerDue
<1> QED BY <1>10, <1>11, <1>12, <1>13 DEF JobsAreKept

(* One thread goes on or is replaced, and the rows that are due stay.      *)
LEMMA OneThreadKeeps ==
  ASSUME JobsAreKept, FewerDue, DueRowsStay, KeepsKeys(jobs, jobs'),
         (results' \ results) \cap owed' = {}, worker' = worker,
         NEW n, threads' \subseteq threads \cup {n}, n \in threads' => ThreadHolds(n)',
         \A i \in DueIds \ DOMAIN jobs' : \A k : k = jobs[i].key => ~IsDue(k)'
  PROVE  JobsAreKept'
<1>1. ThreadsHold' /\ RestIsSpared'
  <2>1. \A m \in threads' : m \in threads \/ m = n
    OBVIOUS
  <2>2. \A m \in threads' : m \in threads \/ ThreadHolds(m)'
    BY <2>1
  <2> QED BY <2>2, ThreadsHoldOn DEF JobsAreKept
<1>2. JobStaysUntilAnswered'
  BY JobStays DEF JobsAreKept
<1>3. AnswersKept'
  BY DEF JobsAreKept, AnswersKept, FewerDue
<1> QED BY <1>1, <1>2, <1>3 DEF JobsAreKept

(* A TTS subprocess reads its first job, or finds it gone and exits.       *)
LEMMA ReadFirstKeeps ==
  ASSUME TypeOK, OneJobPerKey', ClaimsApart, ClaimsApart', JobsAreKept,
         NEW th \in threads, ReadFirstJob(th)
  PROVE  JobsAreKept'
<1> DEFINE first == CHOOSE id \in DOMAIN th.run : TRUE
           next == [th EXCEPT !.pc = "read", !.run = ClaimOf(jobs, {first})]
<1>0. /\ jobs' = jobs /\ results' = results /\ FewerDue /\ KeepsKeys(jobs, jobs')
      /\ DueIds \ DOMAIN jobs' = {}
  BY DEF ReadFirstJob, history, FewerDue, KeepsKeys, DueIds
<1>1. \/ /\ first \in Running(jobs) /\ threads' = (threads \ {th}) \cup {next}
         /\ worker' = worker
      \/ /\ threads' = threads \ {th}
         /\ worker' = IF th.owner = "tts" THEN Idle ELSE worker
  BY DEF ReadFirstJob, Becomes, Exits
<1>2. DueRowsStay
  BY <1>0, UnwrittenStay
<1>3. next.pc = "read" /\ next.run = ClaimOf(jobs, {first})
  BY DEF TypeOK, IsThread
<1> HIDE DEF first, next
<1>4. CASE first \in Running(jobs) /\ threads' = (threads \ {th}) \cup {next} /\ worker' = worker
  <2>1. PICK n : n = next
    OBVIOUS
  <2>2. n.pc = "read" /\ n.run = ClaimOf(jobs', {first})
    BY <1>0, <1>3, <2>1
  <2>3. HeldRun(n.run)'
    <3>1. {first} \subseteq Running(jobs')
      BY <1>0, <1>4
    <3> QED BY <2>2, <3>1, ClaimIsHeld
  <2>4. ThreadHolds(n)'
    BY <2>2, <2>3, NewThreadHolds
  <2> QED BY <1>0, <1>2, <1>4, <2>1, <2>4, OneThreadKeeps
<1>5. CASE threads' = threads \ {th} /\ worker' = Idle
  BY <1>0, <1>5, IdleKeeps DEF Idle
<1>6. CASE threads' = threads \ {th} /\ worker' = worker
  <2>1. th \notin threads'
    BY <1>6
  <2> QED BY <1>0, <1>2, <1>6, <2>1, OneThreadKeeps
<1> QED BY <1>1, <1>4, <1>5, <1>6

(* It takes the next job, or exits.                                        *)
LEMMA ClaimTtsKeeps ==
  ASSUME TypeOK, OneJobPerKey', ClaimsApart, ClaimsApart', JobsAreKept,
         NEW th \in threads, ClaimTts(th)
  PROVE  JobsAreKept'
<1> DEFINE h == HeadOf(jobs)
<1>a. PICK run : run = ClaimOf(jobs', {h})
  OBVIOUS
<1> DEFINE next == NewThread(th.owner, "read", run)
<1>0. TableOK(jobs) /\ FreeStamps # {} /\ results' = results /\ FewerDue
  BY DEF TypeOK, ClaimTts, FewerDue
<1>1. CASE ~(Queued(jobs) # {} /\ TypeOf[jobs[h].key] = TTS)
  <2>1. /\ threads' = threads \ {th} /\ jobs' = jobs /\ th \notin threads'
        /\ worker' = IF th.owner = "tts" THEN Idle ELSE worker
    BY <1>1 DEF ClaimTts, Exits
  <2>2. KeepsKeys(jobs, jobs') /\ DueRowsStay /\ DueIds \ DOMAIN jobs' = {}
    BY <1>0, <2>1, UnwrittenStay DEF KeepsKeys, DueIds
  <2>3. CASE worker' = Idle
    BY <1>0, <2>1, <2>2, <2>3, IdleKeeps DEF Idle
  <2>4. CASE worker' = worker
    BY <1>0, <2>1, <2>2, <2>4, OneThreadKeeps
  <2> QED BY <2>1, <2>3, <2>4
<1>2. CASE Queued(jobs) # {} /\ TypeOf[jobs[h].key] = TTS
  <2>1. /\ threads' = (threads \ {th}) \cup {next}
        /\ worker' = worker /\ jobs' = Claimed(jobs, {h}, NewStamp)
    BY <1>a, <1>2 DEF ClaimTts, Becomes
  <2>2. {h} \in SUBSET Queued(jobs) /\ NewStamp \in Nat
    BY <1>0, <1>2, HeadIsQueued, NewStampIsNew
  <2>3. KeepsKeys(jobs, jobs')
    BY <1>0, <2>1, SettledKeepsKeys
  <2>4. next.pc = "read" /\ next.run = run
    BY DEF NewThread
  <2> HIDE DEF h, next
  <2>5. DueRowsStay /\ DOMAIN jobs' = DOMAIN jobs /\ {h} \subseteq Running(jobs')
    BY <1>0, <2>1, <2>2, ClaimStays
  <2>6. HeldRun(run)'
    BY <1>a, <2>5, ClaimIsHeld
  <2>7. HeldRun(next.run)'
    BY <2>4, <2>6
  <2>8. ThreadHolds(next)'
    BY <2>4, <2>7, NewThreadHolds
  <2> QED BY <1>0, <2>1, <2>3, <2>5, <2>8, OneThreadKeeps DEF DueIds
<1> QED BY <1>1, <1>2

-----------------------------------------------------------------------------
(* The work on a run.                                                      *)

(* What is due at the ids of a run that is live.                           *)
LEMMA DueOfLive ==
  ASSUME JobsAreKept, NEW th \in threads, Live(th), NEW i \in DueIds, i \in DOMAIN th.run
  PROVE  /\ jobs[i].key = th.run[i].key /\ jobs[i].key \in RunKeys(th.run)
         /\ jobs[i].key \in Open(th)
         /\ i \in StillClaimed(jobs, th.run)
         /\ jobs[i].key \in owed /\ jobs[i].key \notin results
<1>1. HeldRun(th.run) /\ OpenIsDue(th)
  BY DEF JobsAreKept, ThreadsHold, ThreadHolds
<1>2. jobs[i].key = th.run[i].key
  BY <1>1 DEF HeldRun, SameKeys
<1>3. th.run[i].key \in RunKeys(th.run)
  BY DEF RunKeys
<1>4. jobs[i].key \in owed
  BY DEF DueIds, IsDue
<1> QED BY <1>1, <1>2, <1>3, <1>4 DEF HeldRun, OpenIsDue, JobsAreKept, AnswersKept

(* A thread that goes on with its run keeps the jobs if what is due of it  *)
(* is still open.                                                          *)
LEMMA WorkingKeeps ==
  ASSUME JobsAreKept, FewerDue, jobs' = jobs, worker' = worker,
         (results' \ results) \cap owed' = {},
         NEW th \in threads, NEW n, threads' \subseteq threads \cup {n},
         n.owner = th.owner, n.run = th.run,
         Live(th) => \A i \in DueIds' \cap DOMAIN th.run : jobs[i].key \in Open(n)
  PROVE  JobsAreKept'
<1>1. DueRowsStay /\ KeepsKeys(jobs, jobs') /\ DueIds \ DOMAIN jobs' = {}
  BY UnwrittenStay DEF KeepsKeys, DueIds
<1>2. Live(th) => OpenIsDue(n)'
  BY DEF OpenIsDue, Open
<1>3. ThreadHolds(n)'
  BY <1>1, <1>2, ThreadHoldsOn DEF JobsAreKept
<1> QED BY <1>1, <1>3, OneThreadKeeps

(* The end of a claim's block without its work done leaves all of it due.  *)
LEMMA EndingKeeps ==
  ASSUME TypeOK, JobsAreKept, FewerDue, jobs' = jobs, worker' = worker, results' = results,
         NEW th \in threads, NEW outcome, NEW unanswered, EndsWith(th, outcome, unanswered),
         outcome # "done" \/ (th.pc = "check" /\ unanswered = th.answers)
  PROVE  JobsAreKept'
<1> DEFINE next == [th EXCEPT !.pc = "ended", !.outcome = outcome,
                              !.cards = {}, !.answers = unanswered]
<1>1. threads' \subseteq threads \cup {next}
  BY DEF EndsWith, Becomes
<1>2. /\ next.owner = th.owner /\ next.run = th.run
      /\ next.pc = "ended" /\ next.outcome = outcome /\ next.answers = unanswered
  BY DEF TypeOK, IsThread
<1> HIDE DEF next
<1>3. \A i \in DueIds' : i \in DueIds
  BY DEF DueIds, IsDue, FewerDue
<1>4. Open(th) \subseteq Open(next) \/ RunKeys(th.run) \subseteq Open(next)
  BY <1>2 DEF Open
<1>5. Live(th) => \A i \in DueIds' \cap DOMAIN th.run : jobs[i].key \in Open(next)
  BY <1>3, <1>4, DueOfLive
<1> QED BY <1>1, <1>2, <1>5, WorkingKeeps

(* Every step of a thread between its claim and its settlement.            *)
LEMMA ThreadWorkKeeps ==
  ASSUME TypeOK, ClaimsApart, RunningIsTended, JobsAreKept, NEW th \in threads,
         \/ Work(th) \/ ReadCards(th) \/ KeepWanted(th) \/ Commit(th) \/ FinalCheck(th)
  PROVE  JobsAreKept'
<1>0. /\ jobs' = jobs /\ worker' = worker /\ astray' = astray /\ recycled' = recycled
      /\ owed' \subseteq owed /\ IsThread(th)
  BY DEF TypeOK, Work, Answer, Break, FindNoAI, ReadCards, KeepWanted, Commit, FinalCheck, history
<1>1. FewerDue /\ \A i \in DueIds' : i \in DueIds /\ jobs[i].key \in owed'
  BY <1>0 DEF FewerDue, DueIds, IsDue
<1>2. CASE Break(th) \/ FindNoAI(th)
  <2>1. results' = results
    BY <1>2 DEF Break, FindNoAI
  <2>2. CASE Break(th)
    BY <1>0, <1>1, <2>1, <2>2, EndingKeeps DEF Break
  <2>3. CASE FindNoAI(th)
    BY <1>0, <1>1, <2>1, <2>3, EndingKeeps DEF FindNoAI
  <2> QED BY <1>2, <2>2, <2>3
<1>3. CASE Answer(th)
  <2>1. PICK answers :
          threads' = (threads \ {th})
            \cup {[th EXCEPT !.answers = answers,
                     !.pc = IF IsBatch(th) THEN "answered" ELSE "filtered"]}
    BY <1>3 DEF Answer, Becomes
  <2> DEFINE next == [th EXCEPT !.answers = answers,
                         !.pc = IF IsBatch(th) THEN "answered" ELSE "filtered"]
  <2>2. /\ next.owner = th.owner /\ next.run = th.run /\ next.cards = th.cards
        /\ next.pc \in {"answered", "filtered"}
    BY <1>0 DEF IsThread
  <2>3. threads' \subseteq threads \cup {next} /\ results' = results
    BY <1>3, <2>1 DEF Answer
  <2> HIDE DEF next
  <2>4. Open(next) = th.cards /\ Open(th) = th.cards
    BY <1>3, <2>2 DEF Open, Answer
  <2>5. Live(th) => \A i \in DueIds' \cap DOMAIN th.run : jobs[i].key \in Open(next)
    BY <1>1, <2>4, DueOfLive
  <2> QED BY <1>0, <1>1, <2>2, <2>3, <2>5, WorkingKeeps
<1>4. CASE ReadCards(th)
  <2>1. PICK cards :
          /\ cards = IF th.owner = "worker"
                     THEN IF IsBatch(th) THEN RunKeys(th.run) \ results ELSE RunKeys(th.run)
                     ELSE {k \in RunKeys(th.run) : TypeOf[k] = TTS}
          /\ threads' = (threads \ {th})
               \cup {[th EXCEPT !.cards = cards, !.pc = IF cards = {} THEN "check" ELSE "asking"]}
    BY <1>4 DEF ReadCards, Becomes
  <2> DEFINE next == [th EXCEPT !.cards = cards, !.pc = IF cards = {} THEN "check" ELSE "asking"]
  <2>2. /\ next.owner = th.owner /\ next.run = th.run /\ next.cards = cards
        /\ cards # {} => next.pc = "asking"
    BY <1>0 DEF IsThread
  <2>3. threads' \subseteq threads \cup {next} /\ results' = results
    BY <1>4, <2>1 DEF ReadCards
  <2> HIDE DEF next
  <2>4. ASSUME Live(th), NEW i \in DueIds', i \in DOMAIN th.run PROVE jobs[i].key \in cards
    <3>1. /\ jobs[i].key \in RunKeys(th.run) /\ jobs[i].key \notin results
          /\ i \in StillClaimed(jobs, th.run)
      BY <1>1, <2>4, DueOfLive
    <3>2. CASE th.owner = "worker"
      BY <2>1, <3>1, <3>2
    <3>3. CASE th.owner # "worker"
      <4>1. th.owner = "tts"
        BY <2>4, <3>3 DEF Live, Awaited
      <4>2. i \in Running(jobs) /\ jobs[i].key \notin astray
        BY <1>1, <3>1 DEF StillClaimed, DueIds, IsDue
      <4>3. TypeOf[jobs[i].key] = TTS
        BY <4>1, <4>2, SpeaksAll
      <4> QED BY <2>1, <3>1, <4>1, <4>3
    <3> QED BY <3>2, <3>3
  <2>5. cards # {} => Open(next) = cards
    BY <2>2 DEF Open
  <2>6. Live(th) => \A i \in DueIds' \cap DOMAIN th.run : jobs[i].key \in Open(next)
    BY <2>4, <2>5
  <2> QED BY <1>0, <1>1, <2>2, <2>3, <2>6, WorkingKeeps
<1>5. CASE KeepWanted(th)
  <2> DEFINE claimed == KeysOf(jobs, StillClaimed(jobs, th.run))
             next == [th EXCEPT !.cards = @ \cap claimed, !.pc = "filtered"]
  <2>1. threads' \subseteq threads \cup {next} /\ results' = results
    BY <1>5 DEF KeepWanted, Becomes
  <2>2. /\ next.owner = th.owner /\ next.run = th.run /\ next.pc = "filtered"
        /\ next.cards = th.cards \cap claimed
    BY <1>0 DEF IsThread
  <2>3. \A i \in StillClaimed(jobs, th.run) : jobs[i].key \in claimed
    BY DEF KeysOf
  <2> HIDE DEF next, claimed
  <2>4. Open(next) = th.cards \cap claimed /\ Open(th) = th.cards
    BY <1>5, <2>2 DEF Open, KeepWanted
  <2>5. Live(th) => \A i \in DueIds' \cap DOMAIN th.run : jobs[i].key \in Open(next)
    BY <1>1, <2>3, <2>4, DueOfLive
  <2> QED BY <1>0, <1>1, <2>1, <2>2, <2>5, WorkingKeeps
<1>6. CASE Commit(th)
  <2> DEFINE next == [th EXCEPT !.pc = "check", !.cards = {},
                                 !.answers = th.cards \ th.answers]
             written == th.cards \cap th.answers
  <2>1. CASE StillClaimed(jobs, th.run) = {}
    BY <1>0, <1>1, <1>6, <2>1, EndingKeeps DEF Commit
  <2>2. CASE StillClaimed(jobs, th.run) # {}
    <3>1. /\ threads' = (threads \ {th}) \cup {next}
          /\ results' = results \cup written /\ owed' = owed \ written
      BY <1>6, <2>2 DEF Commit, Becomes
    <3>2. /\ next.owner = th.owner /\ next.run = th.run /\ next.pc = "check"
          /\ next.answers = th.cards \ th.answers
      BY <1>0 DEF IsThread
    <3> HIDE DEF next
    <3>3. Open(next) = th.cards \ th.answers /\ Open(th) = th.cards
      BY <1>6, <3>2 DEF Open, Commit
    <3>4. Live(th) => \A i \in DueIds' \cap DOMAIN th.run : jobs[i].key \in Open(next)
      BY <1>1, <3>1, <3>3, DueOfLive
    <3>5. threads' \subseteq threads \cup {next} /\ (results' \ results) \cap owed' = {}
      BY <3>1
    <3> QED BY <1>0, <1>1, <3>2, <3>4, <3>5, WorkingKeeps
  <2> QED BY <2>1, <2>2
<1>7. CASE FinalCheck(th)
  <2>1. results' = results /\ th.pc = "check"
    BY <1>7 DEF FinalCheck
  <2>2. CASE StillClaimed(jobs, th.run) = {}
    BY <1>0, <1>1, <1>7, <2>1, <2>2, EndingKeeps DEF FinalCheck
  <2>3. CASE StillClaimed(jobs, th.run) # {}
    BY <1>0, <1>1, <1>7, <2>1, <2>3, EndingKeeps DEF FinalCheck
  <2> QED BY <2>2, <2>3
<1> QED BY <1>2, <1>3, <1>4, <1>5, <1>6, <1>7 DEF Work

-----------------------------------------------------------------------------
(* What a subprocess leaves unanswered.                                    *)

(* A TTS subprocess that ends the block of its claim has voiced its job.   *)
LEMMA EndingIsWhole ==
  ASSUME TypeOK, SpeechIsWhole, NEW th \in threads, th.owner = "tts", th.pc # "claim",
         NEW outcome, NEW unanswered, EndsWith(th, outcome, unanswered),
         outcome = "done" => unanswered = {}
  PROVE  \A n \in threads' : n \in threads \/ VoicesAll(n)
<1> DEFINE next == [th EXCEPT !.pc = "ended", !.outcome = outcome,
                              !.cards = {}, !.answers = unanswered]
<1>1. \A n \in threads' : n \in threads \/ n = next
  BY DEF EndsWith, Becomes
<1>2. /\ next.run = th.run /\ next.pc = "ended" /\ next.outcome = outcome
      /\ next.answers = unanswered
  BY DEF TypeOK, IsThread
<1> HIDE DEF next
<1>3. VoicesAll(next)
  BY <1>2 DEF SpeechIsWhole, VoicesAll
<1> QED BY <1>1, <1>3

(* Each step of its work keeps it so.                                      *)
LEMMA VoicesOn ==
  ASSUME TypeOK, SpeechIsWhole, NEW th \in threads, th.owner = "tts",
         \/ Work(th) \/ ReadCards(th) \/ KeepWanted(th) \/ Commit(th) \/ FinalCheck(th)
  PROVE  \A n \in threads' : n \in threads \/ VoicesAll(n)
<1>0. IsThread(th) /\ VoicesAll(th)
  BY DEF TypeOK, SpeechIsWhole
<1>1. ASSUME NEW next, VoicesAll(next), Becomes(th, next)
      PROVE  \A n \in threads' : n \in threads \/ VoicesAll(n)
  BY <1>1 DEF Becomes
<1>2. CASE Break(th) \/ FindNoAI(th)
  BY <1>2, EndingIsWhole DEF Break, FindNoAI
<1>3. CASE Answer(th)
  <2>1. /\ th.pc = "asking" /\ th.cards # {} /\ \E i : DOMAIN th.run = {i}
        /\ \A k \in th.cards : k \in RunKeys(th.run) /\ TypeOf[k] = TTS
    BY <1>0, <1>3 DEF Answer, VoicesAll
  <2>2. RunType(th.run) = TTS
    <3>1. PICK i : DOMAIN th.run = {i}
      BY <2>1
    <3>2. RunKeys(th.run) = {th.run[i].key}
      BY <3>1 DEF RunKeys
    <3>3. TypeOf[th.run[i].key] = TTS
      BY <2>1, <3>2
    <3>4. (CHOOSE j \in DOMAIN th.run : TRUE) = i
      BY <3>1
    <3> QED BY <3>3, <3>4 DEF RunType
  <2>3. ~IsBatch(th)
    BY <2>2, TypesAssumption DEF IsBatch
  <2> DEFINE next == [th EXCEPT !.answers = th.cards, !.pc = "filtered"]
  <2>4. Becomes(th, next)
    BY <1>3, <2>3 DEF Answer
  <2>5. /\ next.run = th.run /\ next.pc = "filtered"
        /\ next.answers = th.cards /\ next.cards = th.cards
    BY <1>0 DEF IsThread
  <2> HIDE DEF next
  <2>6. VoicesAll(next)
    BY <2>1, <2>5 DEF VoicesAll
  <2> QED BY <1>1, <2>4, <2>6
<1>4. CASE ReadCards(th)
  <2> DEFINE cards == {k \in RunKeys(th.run) : TypeOf[k] = TTS}
             next == [th EXCEPT !.cards = cards, !.pc = IF cards = {} THEN "check" ELSE "asking"]
  <2>1. Becomes(th, next) /\ th.pc = "read"
    BY <1>4 DEF ReadCards
  <2>2. /\ next.run = th.run /\ next.pc = IF cards = {} THEN "check" ELSE "asking"
        /\ next.answers = th.answers /\ next.cards = cards
    BY <1>0 DEF IsThread
  <2> HIDE DEF next
  <2>3. VoicesAll(next)
    BY <1>0, <2>1, <2>2 DEF VoicesAll
  <2> QED BY <1>1, <2>1, <2>3
<1>5. CASE KeepWanted(th)
  BY <1>0, <1>5 DEF KeepWanted, VoicesAll
<1>6. CASE Commit(th)
  <2> DEFINE next == [th EXCEPT !.pc = "check", !.cards = {},
                                 !.answers = th.cards \ th.answers]
  <2>0. th.pc = "filtered" /\ th.answers = th.cards
    BY <1>0, <1>6 DEF Commit, VoicesAll
  <2>1. CASE StillClaimed(jobs, th.run) = {}
    BY <1>6, <2>0, <2>1, EndingIsWhole DEF Commit
  <2>2. CASE StillClaimed(jobs, th.run) # {}
    <3>1. Becomes(th, next)
      BY <1>6, <2>2 DEF Commit
    <3>2. next.run = th.run /\ next.pc = "check" /\ next.answers = th.cards \ th.answers
      BY <1>0 DEF IsThread
    <3> HIDE DEF next
    <3>3. VoicesAll(next)
      BY <1>0, <2>0, <3>2 DEF VoicesAll
    <3> QED BY <1>1, <3>1, <3>3
  <2> QED BY <2>1, <2>2
<1>7. CASE FinalCheck(th)
  <2>0. th.pc = "check" /\ th.answers = {}
    BY <1>0, <1>7 DEF FinalCheck, VoicesAll
  <2>1. CASE StillClaimed(jobs, th.run) = {}
    BY <1>7, <2>0, <2>1, EndingIsWhole DEF FinalCheck
  <2>2. CASE StillClaimed(jobs, th.run) # {}
    BY <1>7, <2>0, <2>2, EndingIsWhole DEF FinalCheck
  <2> QED BY <2>1, <2>2
<1> QED BY <1>2, <1>3, <1>4, <1>5, <1>6, <1>7 DEF Work

(* And so does every step.                                                 *)
LEMMA SpeechStaysWhole ==
  ASSUME TypeOK, ClaimsApart', SpeechIsWhole, [Next]_vars
  PROVE  SpeechIsWhole'
<1>1. ASSUME \A n \in threads' : n.owner = "tts" => n \in threads \/ VoicesAll(n)
      PROVE  SpeechIsWhole'
  BY <1>1 DEF SpeechIsWhole
<1>2. ASSUME threads' \subseteq threads PROVE SpeechIsWhole'
  BY <1>1, <1>2
<1>3. \A owner, pc, run : /\ NewThread(owner, pc, run).owner = owner
                          /\ NewThread(owner, pc, run).pc = pc
                          /\ NewThread(owner, pc, run).run = run
                          /\ NewThread(owner, pc, run).answers = {}
  BY DEF NewThread
<1>4. ASSUME NEW n, n.pc \in {"start", "read", "claim"}, n.answers = {},
             n.pc # "claim" => \E i : DOMAIN n.run = {i}
      PROVE  VoicesAll(n)
  BY <1>4 DEF VoicesAll
<1>5. CASE User \/ Timeout \/ UNCHANGED vars
  BY <1>2, <1>5 DEF User, Ask, UserCancel, UserDismiss, UserRetry, Timeout, vars
<1>6. CASE WorkerStep
  <2>1. CASE ClaimRun
    <3>1. PICK run : threads' = threads \cup {NewThread("tts", "start", run)}
                  \/ threads' = threads \cup {NewThread("worker", "read", run)}
      BY <2>1 DEF ClaimRun
    <3>2. ASSUME NEW n \in threads', n = NewThread("tts", "start", run) PROVE VoicesAll(n)
      <4>1. n.pc = "start" /\ n.answers = {}
        BY <1>3, <3>2
      <4>2. \E i : DOMAIN n.run = {i}
        BY <3>2, <4>1 DEF ClaimsApart, StartIsSpeech
      <4> QED BY <1>4, <4>1, <4>2
    <3>3. NewThread("worker", "read", run).owner # "tts"
      BY <1>3
    <3> QED BY <1>1, <3>1, <3>2, <3>3
  <2>2. CASE ~ClaimRun
    BY <1>2, <1>6, <2>2 DEF WorkerStep, WorkerStart, FailTimedOut, CompleteRest, FailTts, Settle
  <2> QED BY <2>1, <2>2
<1>7. ASSUME NEW th \in threads, Work(th) \/ ThreadStep(th) PROVE SpeechIsWhole'
  <2>1. CASE ReadFirstJob(th)
    <3> DEFINE first == CHOOSE id \in DOMAIN th.run : TRUE
               next == [th EXCEPT !.pc = "read", !.run = ClaimOf(jobs, {first})]
    <3>1. threads' \subseteq threads \cup {next} /\ th.pc = "start"
      BY <2>1 DEF ReadFirstJob, Becomes, Exits
    <3>2. /\ next.owner = th.owner /\ next.pc = "read" /\ next.answers = th.answers
          /\ DOMAIN next.run = {first}
      BY DEF TypeOK, IsThread, ClaimOf
    <3> HIDE DEF next, first
    <3>3. th.owner = "tts" => th.answers = {}
      BY <3>1 DEF SpeechIsWhole, VoicesAll
    <3>4. ASSUME th.owner = "tts" PROVE VoicesAll(next)
      <4>1. next.pc = "read" /\ next.answers = {} /\ \E i : DOMAIN next.run = {i}
        BY <3>2, <3>3, <3>4
      <4> QED BY <4>1 DEF VoicesAll
    <3> QED BY <1>1, <3>1, <3>2, <3>4
  <2>2. CASE SettleTts(th)
    <3> DEFINE next == NewThread("tts", "claim", NoRun)
    <3>1. threads' \subseteq threads \cup {next}
      BY <2>2 DEF SettleTts, Becomes, Exits
    <3>2. VoicesAll(next)
      BY <1>3, <1>4
    <3> HIDE DEF next
    <3> QED BY <1>1, <3>1, <3>2
  <2>3. CASE ClaimTts(th)
    <3>1. PICK run : /\ run = ClaimOf(jobs', {HeadOf(jobs)})
                     /\ threads' \subseteq threads \cup {NewThread(th.owner, "read", run)}
      BY <2>3 DEF ClaimTts, Becomes, Exits
    <3> DEFINE next == NewThread(th.owner, "read", run)
    <3>2. next.pc = "read" /\ next.run = run /\ next.answers = {}
      BY <1>3
    <3>3. DOMAIN run = {HeadOf(jobs)}
      BY <3>1 DEF ClaimOf
    <3>4. threads' \subseteq threads \cup {next}
      BY <3>1
    <3> HIDE DEF next
    <3>5. VoicesAll(next)
      <4>1. \E i : DOMAIN next.run = {i}
        BY <3>2, <3>3
      <4> QED BY <3>2, <4>1 DEF VoicesAll
    <3> QED BY <1>1, <3>4, <3>5
  <2>4. CASE \/ Work(th) \/ ReadCards(th) \/ KeepWanted(th) \/ Commit(th) \/ FinalCheck(th)
    <3>1. CASE th.owner = "tts"
      BY <1>1, <2>4, <3>1, VoicesOn
    <3>2. CASE th.owner # "tts"
      <4>1. PICK next : GoesOn(th, next)
        BY <2>4, ThreadGoesOn
      <4>2. threads' \subseteq threads \cup {next} /\ next.owner = th.owner
        BY <4>1 DEF GoesOn, Continues
      <4> QED BY <1>1, <3>2, <4>2
    <3> QED BY <3>1, <3>2
  <2> QED BY <1>7, <2>1, <2>2, <2>3, <2>4 DEF ThreadStep
<1>8. CASE Fault
  <2>1. CASE WorkerDies
    <3>1. \A n \in threads' : n.owner = "orphan"
      BY <2>1 DEF WorkerDies, TypeOK, IsThread
    <3> QED BY <1>1, <3>1
  <2>2. CASE ~WorkerDies
    BY <1>2, <1>8, <2>2 DEF Fault, WorkerStops, TtsDies
  <2> QED BY <2>1, <2>2
<1> QED BY <1>5, <1>6, <1>7, <1>8 DEF Next

(* A subprocess settles its job: a done one is voiced, and what one        *)
(* without its worker settles is not due any more.                         *)
LEMMA SettleTtsKeeps ==
  ASSUME TypeOK, ClaimsApart, SpeechIsWhole, JobsAreKept, NEW th \in threads, SettleTts(th)
  PROVE  JobsAreKept'
<1>0. /\ TableOK(jobs) /\ th.pc = "ended" /\ th.owner # "worker" /\ results' = results
      /\ \/ th.outcome = "done" /\ jobs' = Complete(jobs, th.run)
         \/ jobs' = jobs
         \/ jobs' = Fail(jobs, DOMAIN th.run)
  BY DEF TypeOK, SettleTts
<1>1. KeepsKeys(jobs, jobs') /\ FewerDue
  <2>1. KeepsKeys(jobs, jobs)
    BY DEF KeepsKeys
  <2> QED BY <1>0, <2>1, SettledKeepsKeys DEF SettleTts, FewerDue
<1>2. CASE th.owner = "tts"
  <2> DEFINE next == NewThread("tts", "claim", NoRun)
  <2>0. /\ threads' = (threads \ {th}) \cup {next} /\ worker' = worker /\ worker.pc = "tts"
    BY <1>2 DEF SettleTts, Becomes, ClaimsApart, OneSubprocess
  <2>1. \A i \in DueIds : i \in DOMAIN jobs'
    <3>1. HeldRun(th.run) /\ OpenIsDue(th)
      BY <1>2 DEF JobsAreKept, ThreadsHold, ThreadHolds, Live
    <3>2. CASE th.outcome = "done" /\ jobs' = Complete(jobs, th.run)
      <4>1. Open(th) = {}
        BY <1>0, <1>2, <3>2 DEF SpeechIsWhole, VoicesAll, Open
      <4>2. \A i \in DueIds : i \in DOMAIN jobs /\ i \notin DOMAIN th.run
                /\ ~(i \in Failed(jobs) /\ jobs[i].key \in RunKeys(th.run))
        BY <3>1, <4>1 DEF OpenIsDue, HeldRun, NoneFailed, DueIds
      <4> QED BY <1>0, <3>2, <4>2, CompleteRemoves
    <3>3. CASE jobs' = jobs \/ jobs' = Fail(jobs, DOMAIN th.run)
      BY <1>0, <3>3, WritesKeepRows DEF DueIds
    <3> QED BY <1>0, <3>2, <3>3
  <2>2. next.run = NoRun /\ next.pc = "claim"
    BY DEF NewThread
  <2> HIDE DEF next
  <2>3. HeldRun(next.run)'
    BY <2>2 DEF HeldRun, SameKeys, NoneFailed, RunKeys, NoRun
  <2>4. ThreadHolds(next)'
    BY <2>2, <2>3, NewThreadHolds
  <2>5. ASSUME NEW n \in threads, n # th PROVE ThreadHolds(n)'
    <3>1. ~Live(n)'
      BY <1>2, <2>0, <2>5 DEF ClaimsApart, OneSubprocess, Live, Awaited
    <3>2. n.owner = "orphan" => SameKeys(n.run)'
      BY <1>1, DueBefore DEF JobsAreKept, ThreadsHold, ThreadHolds, SameKeys
    <3> QED BY <3>1, <3>2 DEF ThreadHolds
  <2>6. ThreadsHold'
    BY <2>0, <2>4, <2>5 DEF ThreadsHold
  <2>7. RestIsSpared'
    BY <2>0 DEF RestIsSpared
  <2>8. JobStaysUntilAnswered'
    BY <1>1, <2>1, JobStays DEF JobsAreKept
  <2>9. AnswersKept'
    BY <1>0, <1>1 DEF JobsAreKept, AnswersKept, FewerDue
  <2> QED BY <2>6, <2>7, <2>8, <2>9 DEF JobsAreKept
<1>3. CASE th.owner # "tts"
  <2>0. /\ threads' = threads \ {th} /\ worker' = worker
        /\ astray' = astray \cup RunKeys(th.run)
    BY <1>3 DEF SettleTts, Exits
  <2>1. th.owner = "orphan"
    BY <1>0, <1>3 DEF TypeOK, IsThread, Owners
  <2>2. SameKeys(th.run)
    BY <2>1 DEF JobsAreKept, ThreadsHold, ThreadHolds
  <2>3. \A k \in RunKeys(th.run) : ~IsDue(k)'
    BY <2>0 DEF IsDue
  <2>4. \A i \in DueIds : i \in DOMAIN th.run => jobs[i].key \in RunKeys(th.run)
    BY <2>2 DEF SameKeys, RunKeys
  <2>5. \A i \in DueIds' : /\ i \in DueIds /\ i \in DOMAIN jobs /\ i \in DOMAIN jobs'
                            /\ i \notin DOMAIN th.run
    <3>1. \A i \in DueIds' : i \in DueIds /\ jobs'[i].key = jobs[i].key
      BY <1>1, DueBefore
    <3>2. \A i \in DueIds' : jobs'[i].key \notin RunKeys(th.run)
      BY <2>3 DEF DueIds
    <3> QED BY <2>4, <3>1, <3>2 DEF DueIds
  <2>6. \A i \in DueIds' : jobs'[i] = jobs[i]
    BY <1>0, <2>5, WritesKeepRows
  <2>7. DueRowsStay
    BY <1>1, <2>6, LeftRowsStay
  <2>8. \A i \in DueIds \ DOMAIN jobs' : jobs[i].key \in RunKeys(th.run)
    <3>1. \A i \in DueIds : i \in DOMAIN jobs
      BY DEF DueIds
    <3> QED BY <1>0, <2>4, <3>1, CompleteRemoves, WritesKeepRows
  <2>9. th \notin threads' /\ threads' \subseteq threads \cup {th}
    BY <2>0
  <2> QED BY <1>0, <1>1, <2>0, <2>3, <2>7, <2>8, <2>9, OneThreadKeeps
<1> QED BY <1>2, <1>3

(* A fault takes threads away, or their worker.                            *)
LEMMA FaultKeeps ==
  ASSUME TypeOK, ClaimsApart, ClaimsApart', JobsAreKept, Fault
  PROVE  JobsAreKept'
<1>0. /\ jobs' = jobs /\ results' = results /\ FewerDue /\ KeepsKeys(jobs, jobs')
      /\ DueIds \ DOMAIN jobs' = {}
  BY DEF Fault, WorkerDies, WorkerStops, TtsDies, history, FewerDue, KeepsKeys, DueIds
<1>1. CASE WorkerDies
  <2>1. \A n \in threads' : \E th \in threads :
          th.owner # "worker" /\ n.owner = "orphan" /\ n.run = th.run
    BY <1>1 DEF WorkerDies, TypeOK, IsThread
  <2>2. worker'.pc = "down"
    BY <1>1 DEF WorkerDies
  <2>3. ASSUME NEW n \in threads' PROVE ThreadHolds(n)'
    <3>1. PICK th \in threads : th.owner # "worker" /\ n.owner = "orphan" /\ n.run = th.run
      BY <2>1
    <3>2. th.owner \in {"tts", "orphan"}
      BY <3>1 DEF TypeOK, IsThread, Owners
    <3>3. SameKeys(th.run)
      BY <3>2 DEF JobsAreKept, ThreadsHold, ThreadHolds, Live, HeldRun
    <3>4. SameKeys(n.run)'
      BY <1>0, <3>1, <3>3, DueBefore DEF SameKeys
    <3> QED BY <3>1, <3>4 DEF ThreadHolds, Live, Awaited
  <2>4. ThreadsHold' /\ RestIsSpared'
    BY <2>2, <2>3 DEF ThreadsHold, RestIsSpared
  <2>5. JobStaysUntilAnswered'
    BY <1>0, JobStays DEF JobsAreKept
  <2>6. AnswersKept'
    BY <1>0 DEF JobsAreKept, AnswersKept, FewerDue
  <2> QED BY <2>4, <2>5, <2>6 DEF JobsAreKept
<1>2. CASE WorkerStops
  BY <1>0, <1>2, IdleKeeps DEF WorkerStops
<1>3. ASSUME NEW th \in threads, TtsDies(th) PROVE JobsAreKept'
  <2>1. threads' = threads \ {th} /\ th \notin threads'
    BY <1>3 DEF TtsDies
  <2>2. CASE th.owner = "tts"
    <3>1. worker'.pc = "ttsDead"
      BY <1>3, <2>2 DEF TtsDies, TypeOK, IsWorker
    <3> QED BY <1>0, <2>1, <3>1, IdleKeeps
  <2>3. CASE th.owner # "tts"
    <3>1. worker' = worker /\ DueRowsStay
      BY <1>0, <1>3, <2>3, UnwrittenStay DEF TtsDies
    <3> QED BY <1>0, <2>1, <3>1, OneThreadKeeps
  <2> QED BY <2>2, <2>3
<1> QED BY <1>1, <1>2, <1>3 DEF Fault

(* A job in line stays in the table until its result is there or the user  *)
(* takes it away, whatever of its run is cancelled, answered by halves,    *)
(* timed out or asked for again meanwhile; only a job that got an id a run *)
(* had claimed, or fell to a subprocess without its worker, may go.        *)
THEOREM JobStaysUntilAnsweredAlways == Spec => []JobStaysUntilAnswered
<1>1. Init => SpeechIsWhole /\ JobsAreKept
  BY DEF Init, SpeechIsWhole, JobsAreKept, AnswersKept, ThreadsHold, RestIsSpared,
         JobStaysUntilAnswered
<1>2. TypeOK /\ OneJobPerKey /\ OneJobPerKey' /\ ClaimsApart /\ ClaimsApart'
        /\ RunningIsTended /\ SpeechIsWhole /\ JobsAreKept /\ [Next]_vars
        => SpeechIsWhole' /\ JobsAreKept'
  <2> SUFFICES ASSUME TypeOK, OneJobPerKey, OneJobPerKey', ClaimsApart, ClaimsApart',
                      RunningIsTended, SpeechIsWhole, JobsAreKept, [Next]_vars
               PROVE  JobsAreKept'
    BY SpeechStaysWhole
  <2>1. CASE User
    BY <2>1, UserKeeps
  <2>2. CASE WorkerStep
    BY <2>2, WorkerWriteKeeps, ClaimRunKeeps, SettleKeeps DEF WorkerStep
  <2>3. CASE Timeout
    <3>1. /\ jobs' = jobs /\ results' = results /\ threads' \subseteq threads /\ FewerDue
          /\ worker'.pc = "timedOut" /\ KeepsKeys(jobs, jobs') /\ DueIds \ DOMAIN jobs' = {}
      BY <2>3 DEF Timeout, TypeOK, IsWorker, history, FewerDue, KeepsKeys, DueIds
    <3> QED BY <3>1, IdleKeeps
  <2>4. ASSUME NEW th \in threads, Work(th) \/ ThreadStep(th) PROVE JobsAreKept'
    BY <2>4, ThreadWorkKeeps, ReadFirstKeeps, SettleTtsKeeps, ClaimTtsKeeps DEF ThreadStep
  <2>5. CASE Fault
    BY <2>5, FaultKeeps
  <2>6. CASE UNCHANGED vars
    <3>1. /\ jobs' = jobs /\ results' = results /\ threads' = threads /\ worker' = worker
          /\ FewerDue /\ KeepsKeys(jobs, jobs') /\ DueIds \ DOMAIN jobs' = {}
      BY <2>6 DEF vars, FewerDue, KeepsKeys, DueIds
    <3>2. ThreadsHold' /\ RestIsSpared'
      BY <3>1, UnwrittenStay, ThreadsHoldOn DEF JobsAreKept
    <3>3. JobStaysUntilAnswered' /\ AnswersKept'
      BY <3>1, JobStays DEF JobsAreKept, AnswersKept, FewerDue
    <3> QED BY <3>2, <3>3 DEF JobsAreKept
  <2> QED BY <2>1, <2>2, <2>3, <2>4, <2>5, <2>6 DEF Next
<1>3. JobsAreKept => JobStaysUntilAnswered
  BY DEF JobsAreKept
<1> QED BY <1>1, <1>2, <1>3, TypeCorrect, OneJobPerKeyAlways, ClaimsAlwaysApart,
           RunningAlwaysTended, PTL DEF Spec

-----------------------------------------------------------------------------
(* The line of a table.                                                    *)

(* Some rows of a table, each with the ones before it.                     *)
BeforeIn(t, ids) == [i \in ids |-> {j \in ids : Before(t, j, i)}]

(* The keys of some rows of a table, in the order of the queue.            *)
KeysInLine(t, ids) ==
    LET order == LineUp(BeforeIn(t, ids))
    IN  [n \in DOMAIN order |-> t[order[n]].key]

(* LineOf is the line of the active rows.                                  *)
LEMMA LineOfActive ==
  ASSUME NEW t
  PROVE  LineOf(t) = KeysInLine(t, Active(t))
BY DEF LineOf, KeysInLine, AheadIn, BeforeIn

(* The rows of a table stand in one line: by their time, then by their id. *)
LEMMA RowsLine ==
  ASSUME NEW t, TableOK(t), NEW ids \in SUBSET DOMAIN t
  PROVE  /\ IsLine(BeforeIn(t, ids))
         /\ DOMAIN BeforeIn(t, ids) = ids
         /\ \A i \in ids : BeforeIn(t, ids)[i] = {j \in ids : Before(t, j, i)}
<1> DEFINE f == BeforeIn(t, ids)
<1>1. DOMAIN f = ids /\ \A i \in ids : f[i] = {j \in ids : Before(t, j, i)}
  BY DEF BeforeIn
<1> HIDE DEF f
<1>2. IsFiniteSet(ids)
  BY FS_Subset DEF TableOK
<1>3. \A i \in ids : i \in Nat /\ t[i].created \in Nat
  BY DEF TableOK, Row, JobIds
<1>4. \A i \in ids : f[i] \subseteq ids /\ i \notin f[i]
  BY <1>1, <1>3 DEF Before
<1>5. ASSUME NEW i \in ids, NEW j \in ids, i \in f[j] PROVE f[i] \subseteq f[j]
  <2>1. ASSUME NEW k \in ids, Before(t, k, i) PROVE Before(t, k, j)
    <3>1. Before(t, i, j)
      BY <1>1, <1>5
    <3>2. /\ i \in Nat /\ j \in Nat /\ k \in Nat /\ t[i].created \in Nat
          /\ t[j].created \in Nat /\ t[k].created \in Nat
      BY <1>3
    <3> QED BY <2>1, <3>1, <3>2 DEF Before
  <2> QED BY <2>1, <1>1
<1>6. ASSUME NEW i \in ids, NEW j \in ids PROVE i = j \/ i \in f[j] \/ j \in f[i]
  <2>1. i \in Nat /\ j \in Nat /\ t[i].created \in Nat /\ t[j].created \in Nat
    BY <1>3
  <2> QED BY <2>1, <1>1 DEF Before
<1>7. IsLine(f)
  BY <1>1, <1>2, <1>4, <1>5, <1>6 DEF IsLine
<1> QED BY <1>1, <1>7 DEF f

(* The keys in line: as many as rows, each a row's, in the rows' order.    *)
LEMMA KeysInLineAre ==
  ASSUME NEW t, TableOK(t), NEW ids \in SUBSET DOMAIN t
  PROVE  LET s == LineUp(BeforeIn(t, ids))
             N == Cardinality(ids)
         IN  /\ N \in Nat
             /\ s \in [1 .. N -> ids]
             /\ KeysInLine(t, ids) = [n \in 1 .. N |-> t[s[n]].key]
             /\ KeysInLine(t, ids) \in Seq(Keys)
             /\ Len(KeysInLine(t, ids)) = N
             /\ DOMAIN KeysInLine(t, ids) = 1 .. N
             /\ \A n \in 1 .. N : KeysInLine(t, ids)[n] = t[s[n]].key
             /\ \A i \in ids : \E n \in 1 .. N : s[n] = i
             /\ \A m, n \in 1 .. N : s[m] = s[n] => m = n
<1> DEFINE s == LineUp(BeforeIn(t, ids))
           N == Cardinality(ids)
           keys == KeysInLine(t, ids)
<1>1. /\ N \in Nat
      /\ s \in [1 .. N -> ids]
      /\ \A i \in ids : \E n \in 1 .. N : s[n] = i
      /\ \A m, n \in 1 .. N : s[m] = s[n] => m = n
  BY RowsLine, LineUpIs
<1>2. keys = [n \in 1 .. N |-> t[s[n]].key]
  BY <1>1 DEF KeysInLine
<1>3. \A n \in 1 .. N : t[s[n]].key \in Keys
  BY <1>1 DEF TableOK, Row
<1> HIDE DEF s, N, keys
<1>4. keys \in [1 .. N -> Keys]
  BY <1>2, <1>3
<1>5. keys \in Seq(Keys) /\ Len(keys) = N /\ DOMAIN keys = 1 .. N
  BY <1>1, <1>4
<1>6. \A n \in 1 .. N : keys[n] = t[s[n]].key
  BY <1>2
<1> QED BY <1>1, <1>2, <1>5, <1>6 DEF s, N, keys

(* Rows of the same times, ids and keys have the same line.                *)
LEMMA SameKeysInLine ==
  ASSUME NEW t, NEW u, NEW ids, TableOK(t), ids \subseteq DOMAIN t,
         \A i \in ids : t[i].key = u[i].key /\ t[i].created = u[i].created
  PROVE  KeysInLine(t, ids) = KeysInLine(u, ids)
<1>1. \A i, j \in ids : Before(t, j, i) <=> Before(u, j, i)
  BY DEF Before
<1>2. BeforeIn(t, ids) = BeforeIn(u, ids)
  <2>1. \A i \in ids : {j \in ids : Before(t, j, i)} = {j \in ids : Before(u, j, i)}
    BY <1>1
  <2> QED BY <2>1, Zenon DEF BeforeIn
<1> DEFINE s == LineUp(BeforeIn(t, ids))
<1>3. s \in [1 .. Cardinality(ids) -> ids]
  BY KeysInLineAre
<1>4. KeysInLine(t, ids) = [n \in DOMAIN s |-> t[s[n]].key]
      /\ KeysInLine(u, ids) = [n \in DOMAIN s |-> u[s[n]].key]
  BY <1>2 DEF KeysInLine
<1> HIDE DEF s
<1>5. \A n \in DOMAIN s : t[s[n]].key = u[s[n]].key
  BY <1>3
<1> QED BY <1>4, <1>5

(* The keys of the rows in line without the keys ks.                       *)
KeysLeft(t, all, ks) ==
  Picked(KeysInLine(t, all), {n \in DOMAIN KeysInLine(t, all) : KeysInLine(t, all)[n] \notin ks})

(* The line of some of the rows is the line without the others' keys.      *)
LEMMA FewerKeysInLine ==
  ASSUME NEW t, TableOK(t), OneRowPerKey(t),
         NEW all \in SUBSET DOMAIN t, NEW ids \in SUBSET all, NEW ks,
         \A i \in all : i \in ids <=> t[i].key \notin ks
  PROVE  KeysInLine(t, ids) = KeysLeft(t, all, ks)
<1> DEFINE line == KeysInLine(t, all)
           ahead == BeforeIn(t, all)
           s == LineUp(ahead)
           N == Cardinality(DOMAIN ahead)
           P == PlacesOf(ahead, ids)
           at == Ascending(P)
           M == Cardinality(ids)
<1>1. /\ IsLine(ahead) /\ DOMAIN ahead = all
      /\ \A i \in all : ahead[i] = {j \in all : Before(t, j, i)}
  BY RowsLine
<1>2. Part(ahead, ids) = BeforeIn(t, ids)
  <2>1. \A i \in ids : ahead[i] \cap ids = {j \in ids : Before(t, j, i)}
    BY <1>1
  <2> HIDE DEF ahead
  <2> QED BY <2>1, Zenon DEF Part, BeforeIn
<1>3. /\ s \in [1 .. N -> all]
      /\ DOMAIN line = 1 .. N
      /\ \A n \in 1 .. N : line[n] = t[s[n]].key
  BY <1>1, KeysInLineAre
<1> HIDE DEF ahead
<1>4. /\ at \in [1 .. M -> P]
      /\ LineUp(Part(ahead, ids)) = [n \in 1 .. M |-> s[at[n]]]
  BY <1>1, LineOfPart
<1>9. P = {n \in 1 .. N : s[n] \in ids}
  BY DEF PlacesOf
<1>10. KeysLeft(t, all, ks) = Picked(line, {n \in DOMAIN line : line[n] \notin ks})
  BY Zenon DEF KeysLeft
<1> HIDE DEF s, line, N, M, P
<1>5. P = {n \in DOMAIN line : line[n] \notin ks}
  BY <1>3, <1>9
<1>6. Picked(line, P) = [n \in DOMAIN at |-> line[at[n]]]
  BY DEF Picked
<1> HIDE DEF at
<1>7. KeysInLine(t, ids) = [n \in 1 .. M |-> t[s[at[n]]].key]
  <2> DEFINE order == [n \in 1 .. M |-> s[at[n]]]
  <2>1. KeysInLine(t, ids) = [n \in DOMAIN order |-> t[order[n]].key]
    BY <1>2, <1>4 DEF KeysInLine
  <2> QED BY <2>1
<1>8. [n \in DOMAIN at |-> line[at[n]]] = [n \in 1 .. M |-> t[s[at[n]]].key]
  <2>1. DOMAIN at = 1 .. M /\ \A n \in 1 .. M : line[at[n]] = t[s[at[n]]].key
    BY <1>3, <1>4, <1>9
  <2> QED BY <2>1
<1> QED BY <1>5, <1>6, <1>7, <1>8, <1>10

(* Later rows have their keys in line behind those of the earlier ones.    *)
LEMMA GrownKeysInLine ==
  ASSUME NEW t, TableOK(t),
         NEW old \in SUBSET DOMAIN t, NEW new \in SUBSET DOMAIN t,
         \A i \in old : \A j \in new : t[i].created < t[j].created
  PROVE  KeysInLine(t, old \cup new) = KeysInLine(t, old) \o KeysInLine(t, new)
<1> DEFINE all == old \cup new
           ahead == BeforeIn(t, all)
           N == Cardinality(old)
           M == Cardinality(new)
           a == LineUp(Part(ahead, old))
           b == LineUp(Part(ahead, new))
           both == KeysInLine(t, all)
           front == KeysInLine(t, old)
           back == KeysInLine(t, new)
<1>0. all \in SUBSET DOMAIN t /\ \A i \in all : t[i].created \in Nat
  BY DEF TableOK, Row
<1>1. /\ IsLine(ahead) /\ DOMAIN ahead = all
      /\ \A i \in all : ahead[i] = {j \in all : Before(t, j, i)}
  BY <1>0, RowsLine
<1>2. Part(ahead, old) = BeforeIn(t, old) /\ Part(ahead, new) = BeforeIn(t, new)
  <2>1. /\ \A i \in old : ahead[i] \cap old = {j \in old : Before(t, j, i)}
        /\ \A i \in new : ahead[i] \cap new = {j \in new : Before(t, j, i)}
    BY <1>1
  <2> HIDE DEF ahead
  <2> QED BY <2>1, Zenon DEF Part, BeforeIn
<1>3. old \cap new = {}
  <2>1. ASSUME NEW i \in old, i \in new PROVE FALSE
    <3>1. t[i].created < t[i].created /\ t[i].created \in Nat
      BY <2>1, <1>0
    <3> QED BY <3>1
  <2> QED BY <2>1
<1>4. \A i \in old : ahead[i] \subseteq old
  <2>1. ASSUME NEW i \in old, NEW j \in new, Before(t, j, i) PROVE FALSE
    <3>1. t[i].created < t[j].created /\ t[i].created \in Nat /\ t[j].created \in Nat
      BY <1>0
    <3> QED BY <3>1, <2>1 DEF Before
  <2> HIDE DEF ahead
  <2> QED BY <2>1, <1>1
<1>5. \A i \in new : old \subseteq ahead[i]
  <2> HIDE DEF ahead
  <2> QED BY <1>1 DEF Before
<1> HIDE DEF ahead
<1>6. /\ N \in Nat /\ M \in Nat
      /\ Cardinality(all) = N + M
      /\ \A n \in 1 .. N + M : LineUp(ahead)[n] = IF n <= N THEN a[n] ELSE b[n - N]
  BY <1>1, <1>3, <1>4, <1>5, LinesJoined
<1>7. /\ a \in [1 .. N -> old]
      /\ front \in Seq(Keys) /\ Len(front) = N
      /\ \A n \in 1 .. N : front[n] = t[a[n]].key
  BY <1>2, KeysInLineAre
<1>8. /\ b \in [1 .. M -> new]
      /\ back \in Seq(Keys) /\ Len(back) = M
      /\ \A n \in 1 .. M : back[n] = t[b[n]].key
  BY <1>2, KeysInLineAre
<1>9. /\ both \in Seq(Keys)
      /\ \A n \in 1 .. Len(both) : both[n] = t[LineUp(ahead)[n]].key
  BY <1>0, KeysInLineAre DEF ahead
<1>10. Len(both) = N + M
  BY <1>0, <1>6, KeysInLineAre
<1> HIDE DEF a, b, both, front, back, N, M
<1>11. /\ front \o back \in Seq(Keys) /\ Len(front \o back) = N + M
       /\ \A n \in 1 .. N + M :
             (front \o back)[n] = IF n <= N THEN front[n] ELSE back[n - N]
  BY <1>7, <1>8, ConcatProperties
<1>12. ASSUME NEW n \in 1 .. N + M PROVE both[n] = (front \o back)[n]
  <2>1. CASE n <= N
    <3>1. n \in 1 .. N
      BY <1>6, <2>1
    <3>2. LineUp(ahead)[n] = a[n]
      BY <1>6, <2>1
    <3> QED BY <3>1, <3>2, <2>1, <1>7, <1>9, <1>10, <1>11
  <2>2. CASE ~(n <= N)
    <3>1. n - N \in 1 .. M
      BY <1>6, <2>2
    <3>2. LineUp(ahead)[n] = b[n - N]
      BY <1>6, <2>2
    <3> QED BY <3>1, <3>2, <2>2, <1>8, <1>9, <1>10, <1>11
  <2> QED BY <2>1, <2>2
<1>13. both = front \o back
  BY <1>9, <1>10, <1>11, <1>12, SeqEqual
<1> QED BY <1>13 DEF both, front, back

(* WorkLine has copies of the operators that put things in line.           *)
LEMMA LineCopies ==
  /\ \A S : Line!Cardinality(S) = Cardinality(S)
  /\ \A s, places : Line!Picked(s, places) = Picked(s, places)
<1>1. ASSUME NEW S PROVE Line!Cardinality(S) = Cardinality(S)
  BY Zenon DEF Line!Cardinality, Cardinality
<1>2. ASSUME NEW ahead PROVE Line!LineUp(ahead) = LineUp(ahead)
  BY Zenon DEF Line!LineUp, LineUp, Line!Cardinality, Cardinality
<1>3. ASSUME NEW s, NEW places PROVE Line!Picked(s, places) = Picked(s, places)
  BY <1>2, Zenon DEF Line!Picked, Picked, Line!Ascending, Ascending
<1> QED BY <1>1, <1>3

(* As many keys as rows, each row's once: an order of the rows' keys.      *)
LEMMA KeysInLineOnce ==
  ASSUME NEW t, TableOK(t), OneRowPerKey(t), NEW ids \in SUBSET DOMAIN t
  PROVE  /\ KeysInLine(t, ids) \in Line!SetToSeqs(KeysOf(t, ids))
         /\ {KeysInLine(t, ids)[n] : n \in DOMAIN KeysInLine(t, ids)} = KeysOf(t, ids)
<1> DEFINE s == LineUp(BeforeIn(t, ids))
           N == Cardinality(ids)
           keys == KeysInLine(t, ids)
           ks == KeysOf(t, ids)
           key == [i \in ids |-> t[i].key]
<1>1. /\ N \in Nat
      /\ s \in [1 .. N -> ids]
      /\ keys \in Seq(Keys) /\ Len(keys) = N
      /\ DOMAIN keys = 1 .. N
      /\ \A n \in 1 .. N : keys[n] = t[s[n]].key
      /\ \A i \in ids : \E n \in 1 .. N : s[n] = i
      /\ \A m, n \in 1 .. N : s[m] = s[n] => m = n
  BY KeysInLineAre
<1>2. Cardinality(ks) = N
  <2>1. key \in [ids -> ks] /\ \A k \in ks : \E i \in ids : key[i] = k
    BY DEF KeysOf
  <2>2. \A i, j \in ids : key[i] = key[j] => i = j
    BY DEF OneRowPerKey
  <2>3. IsFiniteSet(ids)
    BY FS_Subset DEF TableOK
  <2> HIDE DEF key, ks
  <2>4. key \in Injection(ids, ks) /\ key \in Surjection(ids, ks)
    BY <2>1, <2>2, Fun_IsInj, Fun_IsSurj
  <2>5. ExistsBijection(ids, ks)
    BY <2>4 DEF ExistsBijection, Bijection
  <2> QED BY <2>3, <2>5, FS_Bijection
<1> HIDE DEF s, keys, N
<1>3. \A n \in 1 .. N : keys[n] \in ks
  BY <1>1 DEF KeysOf
<1>4. keys \in [1 .. N -> ks]
  <2>1. keys \in [1 .. N -> Keys]
    BY <1>1
  <2> HIDE DEF ks
  <2> QED BY <2>1, <1>3
<1>5. \A m, n \in 1 .. N : m # n => keys[m] # keys[n]
  BY <1>1 DEF OneRowPerKey
<1>6. {keys[n] : n \in DOMAIN keys} = ks
  <2>1. \A k \in ks : \E n \in 1 .. N : keys[n] = k
    BY <1>1 DEF KeysOf
  <2> HIDE DEF ks
  <2> QED BY <2>1, <1>1, <1>3
<1> HIDE DEF ks
<1>7. keys \in Line!SetToSeqs(ks)
  <2>1. keys \in [1 .. Line!Cardinality(ks) -> ks]
    BY <1>2, <1>4, LineCopies
  <2>2. \A m, n \in 1 .. Line!Cardinality(ks) : m # n => keys[m] # keys[n]
    BY <1>2, <1>5, LineCopies
  <2> QED BY <2>1, <2>2 DEF Line!SetToSeqs
<1> QED BY <1>6, <1>7 DEF keys, ks

(* Rows with all the rows before them have the keys at the front.          *)
LEMMA FrontOfLine ==
  ASSUME NEW t, TableOK(t), NEW ids \in SUBSET DOMAIN t, NEW D \in SUBSET ids, D # {},
         \A i \in D : \A j \in ids : Before(t, j, i) => j \in D
  PROVE  \E n \in 1 .. Len(KeysInLine(t, ids)) :
            KeysOf(t, D) = {KeysInLine(t, ids)[i] : i \in 1 .. n}
<1> DEFINE ahead == BeforeIn(t, ids)
           s == LineUp(ahead)
           N == Cardinality(ids)
           keys == KeysInLine(t, ids)
<1>1. /\ IsLine(ahead) /\ DOMAIN ahead = ids
      /\ \A i \in ids : ahead[i] = {j \in ids : Before(t, j, i)}
  BY RowsLine
<1>2. /\ N \in Nat
      /\ s \in [1 .. N -> ids]
      /\ Len(keys) = N
      /\ \A n \in 1 .. N : keys[n] = t[s[n]].key
  BY KeysInLineAre
<1> HIDE DEF ahead, N, keys
<1>3. \A i \in D : ahead[i] \subseteq D
  BY <1>1
<1>4. \E n \in 1 .. Cardinality(DOMAIN ahead) : D = Leading(LineUp(ahead), n)
  BY <1>1, <1>3, LineFront
<1>5. PICK n \in 1 .. N : D = {s[i] : i \in 1 .. n}
  BY <1>1, <1>4 DEF N, Leading
<1> HIDE DEF s
<1>6. \A i \in 1 .. n : i \in 1 .. N
  BY <1>2
<1>7. KeysOf(t, D) = {keys[i] : i \in 1 .. n}
  <2>1. ASSUME NEW k \in KeysOf(t, D) PROVE \E i \in 1 .. n : keys[i] = k
    <3>1. PICK j \in D : t[j].key = k
      BY <2>1 DEF KeysOf
    <3>2. PICK i \in 1 .. n : s[i] = j
      BY <1>5
    <3> QED BY <3>1, <3>2, <1>2, <1>6
  <2>2. ASSUME NEW i \in 1 .. n PROVE keys[i] \in KeysOf(t, D)
    <3>1. s[i] \in D /\ keys[i] = t[s[i]].key
      BY <1>2, <1>5, <1>6
    <3> QED BY <3>1 DEF KeysOf
  <2> QED BY <2>1, <2>2
<1> QED BY <1>2, <1>7 DEF keys

-----------------------------------------------------------------------------
(* What the writes of the table do to its line.                            *)

(* The line of t without the keys ks.                                      *)
LineWithout(t, ks) == Picked(LineOf(t), {n \in DOMAIN LineOf(t) : LineOf(t)[n] \notin ks})

(* A write that leaves the active rows active, with their keys and times,  *)
(* leaves the line as it is.                                               *)
LEMMA LineStays ==
  ASSUME NEW t, NEW u, TableOK(t), Active(u) = Active(t),
         \A i \in Active(t) : t[i].key = u[i].key /\ t[i].created = u[i].created
  PROVE  LineOf(u) = LineOf(t)
<1>1. Active(t) \subseteq DOMAIN t
  BY DEF Active, Queued, Running, WithStatus
<1>2. KeysInLine(t, Active(t)) = KeysInLine(u, Active(t))
  BY <1>1, SameKeysInLine
<1> QED BY <1>2, LineOfActive

(* One that leaves some of them active takes the others' keys out of line. *)
LEMMA LineIsLeft ==
  ASSUME NEW t, NEW u, TableOK(t), OneRowPerKey(t), NEW ks, Active(u) \subseteq Active(t),
         \A i \in Active(u) : t[i].key = u[i].key /\ t[i].created = u[i].created,
         \A i \in Active(t) : i \in Active(u) <=> t[i].key \notin ks
  PROVE  LineOf(u) = LineWithout(t, ks)
<1>1. Active(t) \in SUBSET DOMAIN t /\ Active(u) \in SUBSET Active(t)
  BY DEF Active, Queued, Running, WithStatus
<1>2. KeysInLine(t, Active(u)) = KeysInLine(u, Active(u))
  BY <1>1, SameKeysInLine
<1>3. KeysInLine(t, Active(u)) = KeysLeft(t, Active(t), ks)
  BY <1>1, FewerKeysInLine
<1>4. KeysInLine(t, Active(t)) = LineOf(t)
  BY LineOfActive
<1>5. KeysInLine(t, Active(u)) = LineWithout(t, ks)
  BY <1>3, <1>4, Zenon DEF LineWithout, KeysLeft
<1> QED BY <1>2, <1>5, LineOfActive

(* The rows a write takes away take their keys with them.                  *)
LEMMA TakenAway ==
  ASSUME NEW t, NEW u, TableOK(t), OneRowPerKey(t), DOMAIN u \subseteq DOMAIN t,
         \A i \in DOMAIN u : u[i] = t[i],
         NEW ks, ks = KeysOf(t, DOMAIN t \ DOMAIN u)
  PROVE  /\ LineOf(u) = LineWithout(t, ks)
         /\ KeysOf(u, Running(u)) = KeysOf(t, Running(t)) \ ks
         /\ KeysOf(u, Failed(u)) = KeysOf(t, Failed(t)) \ ks
         /\ ks \subseteq Keys
<1>1. \A i \in DOMAIN t : i \in DOMAIN u <=> t[i].key \notin ks
  BY DEF KeysOf, OneRowPerKey
<1>2. ks \subseteq Keys
  BY DEF KeysOf, TableOK, Row
<1>3. /\ \A i \in DOMAIN t : i \in Running(u) <=> i \in Running(t) /\ t[i].key \notin ks
      /\ \A i \in DOMAIN t : i \in Failed(u) <=> i \in Failed(t) /\ t[i].key \notin ks
      /\ \A i \in DOMAIN t : i \in Active(u) <=> i \in Active(t) /\ t[i].key \notin ks
  BY <1>1 DEF Active, Queued, Running, Failed, WithStatus
<1>4. /\ Running(u) \subseteq DOMAIN u /\ Failed(u) \subseteq DOMAIN u
      /\ Active(u) \subseteq DOMAIN u
      /\ Running(t) \subseteq DOMAIN t /\ Failed(t) \subseteq DOMAIN t
      /\ Active(t) \subseteq DOMAIN t
  BY DEF Active, Queued, Running, Failed, WithStatus
<1>5. LineOf(u) = LineWithout(t, ks)
  BY <1>3, <1>4, LineIsLeft
<1>6. KeysOf(u, Running(u)) = KeysOf(t, Running(t)) \ ks
  BY <1>3, <1>4 DEF KeysOf
<1>7. KeysOf(u, Failed(u)) = KeysOf(t, Failed(t)) \ ks
  BY <1>3, <1>4 DEF KeysOf
<1> QED BY <1>2, <1>5, <1>6, <1>7

(* A failure takes the keys out of line, and keeps them.                   *)
LEMMA FailGivesUp ==
  ASSUME NEW t, TableOK(t), OneRowPerKey(t), NEW ids, NEW ks,
         ks = KeysOf(t, ids \cap Running(t))
  PROVE  /\ LineOf(Fail(t, ids)) = LineWithout(t, ks)
         /\ KeysOf(Fail(t, ids), Running(Fail(t, ids))) = KeysOf(t, Running(t)) \ ks
         /\ KeysOf(Fail(t, ids), Failed(Fail(t, ids))) = KeysOf(t, Failed(t)) \cup ks
         /\ ks \subseteq KeysOf(t, Running(t))
         /\ ks \subseteq Keys
<1> DEFINE u == Fail(t, ids)
           gone == ids \cap Running(t)
<1>0. \A i \in DOMAIN t : t[i] \in Row
  BY DEF TableOK
<1>1. /\ DOMAIN u = DOMAIN t
      /\ \A i \in DOMAIN t : /\ u[i].key = t[i].key
                             /\ u[i].created = t[i].created
                             /\ u[i].status = IF i \in gone THEN "failed" ELSE t[i].status
  BY <1>0 DEF Fail, Moved, Row
<1> HIDE DEF u
<1>2. /\ \A i \in DOMAIN t : i \in gone <=> i \in Running(t) /\ t[i].key \in ks
      /\ ks \subseteq KeysOf(t, Running(t))
      /\ ks \subseteq Keys
  BY <1>0 DEF KeysOf, OneRowPerKey, Running, WithStatus, Row
<1>3. /\ \A i \in DOMAIN t : i \in Running(u) <=> i \in Running(t) /\ i \notin gone
      /\ \A i \in DOMAIN t : i \in Failed(u) <=> i \in Failed(t) \/ i \in gone
      /\ \A i \in DOMAIN t : i \in Active(u) <=> i \in Active(t) /\ i \notin gone
  BY <1>1 DEF Active, Queued, Running, Failed, WithStatus
<1>4. /\ Running(u) \subseteq DOMAIN t /\ Failed(u) \subseteq DOMAIN t
      /\ Active(u) \subseteq DOMAIN t
      /\ Running(t) \subseteq DOMAIN t /\ Failed(t) \subseteq DOMAIN t
      /\ Active(t) \subseteq DOMAIN t
      /\ Running(t) \subseteq Active(t)
  BY <1>1 DEF Active, Queued, Running, Failed, WithStatus
<1>5. \A i \in Active(t) : i \in Active(u) <=> t[i].key \notin ks
  <2>1. ASSUME NEW i \in DOMAIN t, t[i].key \in ks PROVE i \in gone
    BY <2>1 DEF KeysOf, OneRowPerKey, Running, WithStatus
  <2> QED BY <2>1, <1>2, <1>3, <1>4
<1> HIDE DEF gone
<1>6. LineOf(u) = LineWithout(t, ks)
  BY <1>1, <1>3, <1>4, <1>5, LineIsLeft
<1>7. KeysOf(u, Running(u)) = KeysOf(t, Running(t)) \ ks
  <2>1. \A i \in Running(u) : i \in Running(t) /\ u[i].key = t[i].key /\ t[i].key \notin ks
    BY <1>1, <1>2, <1>3, <1>4
  <2>2. \A i \in Running(t) : t[i].key \notin ks => i \in Running(u) /\ u[i].key = t[i].key
    BY <1>1, <1>2, <1>3, <1>4
  <2> QED BY <2>1, <2>2 DEF KeysOf
<1>8. KeysOf(u, Failed(u)) = KeysOf(t, Failed(t)) \cup ks
  <2>1. \A i \in Failed(u) : u[i].key = t[i].key /\ (i \in Failed(t) \/ t[i].key \in ks)
    BY <1>1, <1>2, <1>3, <1>4
  <2>2. \A i \in Failed(t) : i \in Failed(u) /\ u[i].key = t[i].key
    BY <1>1, <1>3, <1>4
  <2>3. \A k \in ks : \E i \in Failed(u) : u[i].key = k
    <3> TAKE k \in ks
    <3>1. PICK i \in gone : t[i].key = k
      BY DEF KeysOf, gone
    <3>2. i \in DOMAIN t /\ i \in Failed(u) /\ u[i].key = k
      BY <1>1, <1>3, <1>4, <3>1 DEF gone
    <3> QED BY <3>2
  <2> QED BY <2>1, <2>2, <2>3 DEF KeysOf
<1> QED BY <1>2, <1>6, <1>7, <1>8 DEF u

(* Work put back in line, and work claimed, stands where it stood.         *)
LEMMA RequeuePutsBack ==
  ASSUME NEW t, TableOK(t), OneRowPerKey(t), NEW ids, NEW ks,
         ks = KeysOf(t, ids \cap Running(t))
  PROVE  /\ LineOf(Requeue(t, ids)) = LineOf(t)
         /\ KeysOf(Requeue(t, ids), Running(Requeue(t, ids))) = KeysOf(t, Running(t)) \ ks
         /\ KeysOf(Requeue(t, ids), Failed(Requeue(t, ids))) = KeysOf(t, Failed(t))
         /\ ks \subseteq KeysOf(t, Running(t))
         /\ ks \subseteq Keys
<1> DEFINE u == Requeue(t, ids)
           back == ids \cap Running(t)
<1>0. \A i \in DOMAIN t : t[i] \in Row
  BY DEF TableOK
<1>1. /\ DOMAIN u = DOMAIN t
      /\ \A i \in DOMAIN t : /\ u[i].key = t[i].key
                             /\ u[i].created = t[i].created
                             /\ u[i].status = IF i \in back THEN "queued" ELSE t[i].status
  BY <1>0 DEF Requeue, Row
<1> HIDE DEF u
<1>2. /\ \A i \in DOMAIN t : i \in back <=> i \in Running(t) /\ t[i].key \in ks
      /\ ks \subseteq KeysOf(t, Running(t))
      /\ ks \subseteq Keys
  BY <1>0 DEF KeysOf, OneRowPerKey, Running, WithStatus, Row
<1>3. /\ \A i \in DOMAIN t : i \in Running(u) <=> i \in Running(t) /\ i \notin back
      /\ Failed(u) = Failed(t)
      /\ Active(u) = Active(t)
  BY <1>1 DEF Active, Queued, Running, Failed, WithStatus
<1>4. /\ Running(u) \subseteq DOMAIN t /\ Failed(t) \subseteq DOMAIN t
      /\ Running(t) \subseteq DOMAIN t /\ Active(t) \subseteq DOMAIN t
  BY <1>1 DEF Active, Queued, Running, Failed, WithStatus
<1> HIDE DEF back
<1>5. LineOf(u) = LineOf(t)
  BY <1>1, <1>3, <1>4, LineStays
<1>6. KeysOf(u, Running(u)) = KeysOf(t, Running(t)) \ ks
  <2>1. \A i \in Running(u) : i \in Running(t) /\ u[i].key = t[i].key /\ t[i].key \notin ks
    BY <1>1, <1>2, <1>3, <1>4
  <2>2. \A i \in Running(t) : t[i].key \notin ks => i \in Running(u) /\ u[i].key = t[i].key
    BY <1>1, <1>2, <1>3, <1>4
  <2> QED BY <2>1, <2>2 DEF KeysOf
<1>7. KeysOf(u, Failed(u)) = KeysOf(t, Failed(t))
  BY <1>1, <1>3, <1>4 DEF KeysOf
<1> QED BY <1>2, <1>5, <1>6, <1>7 DEF u

(* A claim of queued rows leaves the line as it is.                        *)
LEMMA ClaimTakes ==
  ASSUME NEW t, TableOK(t), NEW ids \in SUBSET Queued(t), NEW stamp \in Nat
  PROVE  LET u == Claimed(t, ids, stamp)
         IN  /\ LineOf(u) = LineOf(t)
             /\ KeysOf(u, Running(u)) = KeysOf(t, Running(t)) \cup KeysOf(t, ids)
             /\ KeysOf(u, Failed(u)) = KeysOf(t, Failed(t))
<1> DEFINE u == Claimed(t, ids, stamp)
<1>0. \A i \in DOMAIN t : t[i] \in Row
  BY DEF TableOK
<1>1. /\ DOMAIN u = DOMAIN t
      /\ \A i \in DOMAIN t : /\ u[i].key = t[i].key
                             /\ u[i].created = t[i].created
                             /\ u[i].status = IF i \in ids THEN "running" ELSE t[i].status
  BY <1>0 DEF Claimed, Row
<1> HIDE DEF u
<1>2. /\ Running(u) = Running(t) \cup ids
      /\ Failed(u) = Failed(t)
      /\ Active(u) = Active(t)
  BY <1>1 DEF Active, Queued, Running, Failed, WithStatus
<1>3. /\ Running(t) \subseteq DOMAIN t /\ Failed(t) \subseteq DOMAIN t
      /\ ids \subseteq DOMAIN t /\ Active(t) \subseteq DOMAIN t
  BY DEF Active, Queued, Running, Failed, WithStatus
<1>4. LineOf(u) = LineOf(t)
  BY <1>1, <1>2, <1>3, LineStays
<1>5. KeysOf(u, Running(u)) = KeysOf(t, Running(t)) \cup KeysOf(t, ids)
  BY <1>1, <1>2, <1>3 DEF KeysOf
<1>6. KeysOf(u, Failed(u)) = KeysOf(t, Failed(t))
  BY <1>1, <1>2, <1>3 DEF KeysOf
<1> QED BY <1>4, <1>5, <1>6 DEF u

(* New active rows, later than the ones there are, join the line at its    *)
(* end.                                                                    *)
LEMMA LineGrows ==
  ASSUME NEW t, NEW u, TableOK(t), TableOK(u), OneRowPerKey(u), NEW new,
         Active(u) = Active(t) \cup new,
         \A i \in Active(t) : t[i].key = u[i].key /\ t[i].created = u[i].created,
         \A i \in Active(t) : \A j \in new : t[i].created < u[j].created
  PROVE  \E order \in Line!SetToSeqs(KeysOf(u, new)) : LineOf(u) = LineOf(t) \o order
<1>1. /\ Active(t) \subseteq DOMAIN t /\ Active(u) \subseteq DOMAIN u
  BY DEF Active, Queued, Running, WithStatus
<1>2. LineOf(u) = KeysInLine(u, Active(t)) \o KeysInLine(u, new)
  <2>1. Active(t) \in SUBSET DOMAIN u /\ new \in SUBSET DOMAIN u
    BY <1>1
  <2>2. \A i \in Active(t) : \A j \in new : u[i].created < u[j].created
    OBVIOUS
  <2>3. KeysInLine(u, Active(t) \cup new) = KeysInLine(u, Active(t)) \o KeysInLine(u, new)
    BY <2>1, <2>2, GrownKeysInLine
  <2> QED BY <2>3, LineOfActive
<1>3. KeysInLine(t, Active(t)) = KeysInLine(u, Active(t))
  BY <1>1, SameKeysInLine
<1>4. KeysInLine(u, new) \in Line!SetToSeqs(KeysOf(u, new))
  <2>1. new \in SUBSET DOMAIN u
    BY <1>1
  <2> QED BY <2>1, KeysInLineOnce
<1> QED BY <1>2, <1>3, <1>4, LineOfActive

(* What a request does: its keys join the line, and their failures go.     *)
LEMMA EnqueueJoins ==
  ASSUME NEW t, TableOK(t), OneRowPerKey(t), NEW ks \in SUBSET Keys,
         ks \cap KeysOf(t, Active(t)) = {}, NEW at \in Placings(t, ks)
  PROVE  LET u == Enqueue(t, at)
         IN  /\ \E order \in Line!SetToSeqs(ks) : LineOf(u) = LineOf(t) \o order
             /\ KeysOf(u, Running(u)) = KeysOf(t, Running(t))
             /\ KeysOf(u, Failed(u)) = KeysOf(t, Failed(t)) \ ks
<1> DEFINE u == Enqueue(t, at)
           kept == DropFailed(t, ks)
           new == DOMAIN at
<1>1. /\ DOMAIN u = DOMAIN kept \cup new
      /\ \A i \in new : u[i] = NewRow(at[i], Now(t))
      /\ \A i \in DOMAIN kept : u[i] = kept[i]
      /\ new \cap DOMAIN kept = {}
      /\ at \in [new -> ks]
      /\ \A k \in ks : \E i \in new : at[i] = k
  <2>1. /\ DOMAIN u = DOMAIN kept \cup new
        /\ \A i \in new : u[i] = NewRow(at[i], Now(t))
        /\ \A i \in DOMAIN kept : u[i] = kept[i]
    <3>1. Requested(t, ks, at, u)
      BY EnqueueAdds
    <3> QED BY <3>1, Zenon DEF Requested
  <2>2. new \cap DOMAIN kept = {} /\ at \in [new -> ks]
    BY EnqueueShape
  <2>3. \A k \in ks : \E i \in new : at[i] = k
    BY DEF Placings
  <2> QED BY <2>1, <2>2, <2>3, Zenon
<1>2. TableOK(u) /\ OneRowPerKey(u)
  BY EnqueueOK, EnqueueKeepsUnique
<1>3. \A i \in DOMAIN kept : i \in DOMAIN t /\ kept[i] = t[i]
  BY DEF DropFailed, Without
<1>4. \A i \in DOMAIN t : i \in DOMAIN kept <=> ~(i \in Failed(t) /\ t[i].key \in ks)
  BY DEF DropFailed, Without
<1> HIDE DEF u, kept
<1>5. /\ \A i \in DOMAIN kept : u[i] = t[i] /\ i \in DOMAIN t
      /\ \A i \in new : /\ u[i].key = at[i] /\ u[i].status = "queued"
                        /\ u[i].created = Now(t)
  BY <1>1, <1>3 DEF NewRow
<1>6. /\ Active(t) \subseteq DOMAIN kept /\ Running(t) \subseteq DOMAIN kept
      /\ Active(t) \subseteq DOMAIN t /\ Failed(t) \subseteq DOMAIN t
  BY <1>4 DEF Active, Queued, Running, Failed, WithStatus
<1>7. /\ Running(u) = Running(t)
      /\ Active(u) = Active(t) \cup new
      /\ Failed(u) = Failed(t) \cap DOMAIN kept
  <2>1. \A i \in DOMAIN u : /\ i \in Running(u) <=> i \in Running(t)
                            /\ i \in Active(u) <=> i \in Active(t) \cup new
                            /\ i \in Failed(u) <=> i \in Failed(t) \cap DOMAIN kept
    BY <1>1, <1>5, <1>6 DEF Active, Queued, Running, Failed, WithStatus
  <2>2. /\ Running(u) \subseteq DOMAIN u /\ Active(u) \subseteq DOMAIN u
        /\ Failed(u) \subseteq DOMAIN u
    BY DEF Active, Queued, Running, Failed, WithStatus
  <2> QED BY <2>1, <2>2, <1>1, <1>6
<1>8. KeysOf(u, new) = ks
  BY <1>1, <1>5 DEF KeysOf
<1>9. \E order \in Line!SetToSeqs(ks) : LineOf(u) = LineOf(t) \o order
  <2>1. \A i \in Active(t) : t[i].key = u[i].key /\ t[i].created = u[i].created
    BY <1>5, <1>6
  <2>2. \A i \in Active(t) : \A j \in new : t[i].created < u[j].created
    BY <1>5, <1>6, NowIsLater
  <2>3. \E order \in Line!SetToSeqs(KeysOf(u, new)) : LineOf(u) = LineOf(t) \o order
    BY <1>2, <1>7, <2>1, <2>2, LineGrows
  <2> QED BY <2>3, <1>8
<1>10. KeysOf(u, Running(u)) = KeysOf(t, Running(t))
  BY <1>5, <1>6, <1>7 DEF KeysOf
<1>11. KeysOf(u, Failed(u)) = KeysOf(t, Failed(t)) \ ks
  <2>1. \A i \in Failed(u) : i \in Failed(t) /\ u[i].key = t[i].key /\ t[i].key \notin ks
    BY <1>4, <1>5, <1>7
  <2>2. \A i \in Failed(t) : t[i].key \notin ks => i \in Failed(u) /\ u[i].key = t[i].key
    BY <1>4, <1>5, <1>6, <1>7
  <2> QED BY <2>1, <2>2 DEF KeysOf
<1> QED BY <1>9, <1>10, <1>11 DEF u

(* What a retry does: the failed keys it names join the line once more.    *)
LEMMA RetryJoins ==
  ASSUME NEW t, TableOK(t), OneRowPerKey(t), NEW ids, NEW ks,
         ks = KeysOf(t, ids \cap Failed(t))
  PROVE  LET u == Retry(t, ids)
         IN  /\ ks \subseteq Keys
             /\ ks \cap KeysOf(t, Active(t)) = {}
             /\ \E order \in Line!SetToSeqs(ks) : LineOf(u) = LineOf(t) \o order
             /\ KeysOf(u, Running(u)) = KeysOf(t, Running(t))
             /\ KeysOf(u, Failed(u)) = KeysOf(t, Failed(t)) \ ks
<1> DEFINE u == Retry(t, ids)
           new == ids \cap Failed(t)
<1>0. \A i \in DOMAIN t : t[i] \in Row
  BY DEF TableOK
<1>1. DOMAIN u = DOMAIN t
  BY RetryDropsNone
<1>2. \A i \in DOMAIN t :
         /\ u[i].key = t[i].key
         /\ i \in new => u[i].status = "queued" /\ u[i].created = Now(t)
         /\ i \notin new => u[i] = t[i]
  <2> DEFINE kept == Without(t, RetryDropped(t, ids))
  <2>1. DOMAIN u = DOMAIN kept
        /\ \A i \in DOMAIN u : u[i] = IF i \in ids \cap Failed(kept)
                                      THEN NewRow(kept[i].key, Now(t)) ELSE kept[i]
    BY DEF Retry
  <2>2. \A i \in DOMAIN kept : i \in DOMAIN t /\ kept[i] = t[i]
    BY DEF Without
  <2> HIDE DEF kept, u
  <2>3. \A i \in DOMAIN t : i \in Failed(kept) <=> i \in Failed(t)
    BY <1>1, <2>1, <2>2 DEF Failed, WithStatus
  <2> QED BY <1>1, <2>1, <2>2, <2>3 DEF NewRow
<1>3. TableOK(u)
  BY RetryOK
<1>4. OneRowPerKey(u)
  BY SettledKeepsKeys, KeptKeysStayUnique
<1> HIDE DEF u
<1>5. /\ new \subseteq DOMAIN t /\ Failed(t) \subseteq DOMAIN t
      /\ Running(t) \subseteq DOMAIN t /\ Active(t) \subseteq DOMAIN t
      /\ Active(t) \cap new = {}
  BY DEF Active, Queued, Running, Failed, WithStatus
<1>6. /\ Running(u) = Running(t)
      /\ Active(u) = Active(t) \cup new
      /\ Failed(u) = Failed(t) \ new
  <2>1. \A i \in DOMAIN t : /\ i \in Running(u) <=> i \in Running(t)
                            /\ i \in Active(u) <=> i \in Active(t) \cup new
                            /\ i \in Failed(u) <=> i \in Failed(t) \ new
    BY <1>1, <1>2, <1>5 DEF Active, Queued, Running, Failed, WithStatus
  <2>2. /\ Running(u) \subseteq DOMAIN t /\ Active(u) \subseteq DOMAIN t
        /\ Failed(u) \subseteq DOMAIN t
    BY <1>1 DEF Active, Queued, Running, Failed, WithStatus
  <2> QED BY <2>1, <2>2, <1>5
<1>7. KeysOf(u, new) = ks
  BY <1>2, <1>5 DEF KeysOf
<1>8. ks \subseteq Keys
  BY <1>0, <1>5 DEF KeysOf, Row
<1>9. \A i \in DOMAIN t : i \in new <=> t[i].key \in ks
  BY <1>5 DEF KeysOf, OneRowPerKey
<1>10. ks \cap KeysOf(t, Active(t)) = {}
  BY <1>5, <1>9 DEF KeysOf
<1> HIDE DEF new
<1>11. \E order \in Line!SetToSeqs(ks) : LineOf(u) = LineOf(t) \o order
  <2>1. \A i \in Active(t) : t[i].key = u[i].key /\ t[i].created = u[i].created
    BY <1>2, <1>5
  <2>2. \A i \in Active(t) : \A j \in new : t[i].created < u[j].created
    BY <1>2, <1>5, NowIsLater
  <2>3. \E order \in Line!SetToSeqs(KeysOf(u, new)) : LineOf(u) = LineOf(t) \o order
    BY <1>3, <1>4, <1>6, <2>1, <2>2, LineGrows
  <2> QED BY <2>3, <1>7
<1>12. KeysOf(u, Running(u)) = KeysOf(t, Running(t))
  BY <1>2, <1>5, <1>6 DEF KeysOf
<1>13. KeysOf(u, Failed(u)) = KeysOf(t, Failed(t)) \ ks
  <2>1. \A i \in Failed(u) : i \in Failed(t) /\ u[i].key = t[i].key /\ t[i].key \notin ks
    BY <1>2, <1>5, <1>6, <1>9
  <2>2. \A i \in Failed(t) : t[i].key \notin ks => i \in Failed(u) /\ u[i].key = t[i].key
    BY <1>2, <1>5, <1>6, <1>9
  <2> QED BY <2>1, <2>2 DEF KeysOf
<1> QED BY <1>8, <1>10, <1>11, <1>12, <1>13 DEF u

-----------------------------------------------------------------------------
(* The front of the line.                                                  *)

(* What waits in the line is what is queued, in its order.                 *)
LEMMA WaitingIsQueued ==
  ASSUME NEW t, TableOK(t), OneRowPerKey(t)
  PROVE  LineWithout(t, KeysOf(t, Running(t))) = KeysInLine(t, Queued(t))
<1> DEFINE ks == KeysOf(t, Running(t))
<1>1. Active(t) \in SUBSET DOMAIN t /\ Queued(t) \in SUBSET Active(t)
  BY DEF Active, Queued, Running, WithStatus
<1>2. \A i \in Active(t) : i \in Queued(t) <=> t[i].key \notin ks
  BY DEF Active, Queued, Running, WithStatus, KeysOf, OneRowPerKey
<1>3. KeysInLine(t, Queued(t)) = KeysLeft(t, Active(t), ks)
  <2> HIDE DEF ks
  <2> QED BY <1>1, <1>2, FewerKeysInLine
<1>4. KeysInLine(t, Active(t)) = LineOf(t)
  BY LineOfActive
<1> QED BY <1>3, <1>4, Zenon DEF LineWithout, KeysLeft

(* Queued rows of one type with every row queued before them are taken     *)
(* from the front of what waits.                                           *)
LEMMA FrontIsTaken ==
  ASSUME NEW t, TableOK(t), OneRowPerKey(t), NEW ids \in SUBSET Queued(t), ids # {},
         \A i \in ids : \A j \in Queued(t) : Before(t, j, i) => j \in ids,
         \A i, j \in ids : TypeOf[t[i].key] = TypeOf[t[j].key]
  PROVE  \E n \in 1 .. Len(LineWithout(t, KeysOf(t, Running(t)))) :
            /\ KeysOf(t, ids) = Leading(LineWithout(t, KeysOf(t, Running(t))), n)
            /\ \A i \in 1 .. n : TypeOf[LineWithout(t, KeysOf(t, Running(t)))[i]]
                                   = TypeOf[LineWithout(t, KeysOf(t, Running(t)))[1]]
            /\ n \in 1 .. Len(LineOf(t))
<1> DEFINE waiting == KeysInLine(t, Queued(t))
<1>1. Queued(t) \in SUBSET DOMAIN t /\ Queued(t) \subseteq Active(t)
      /\ Active(t) \in SUBSET DOMAIN t
  BY DEF Queued, Running, Active, WithStatus
<1>2. PICK n \in 1 .. Len(waiting) : KeysOf(t, ids) = Leading(waiting, n)
  <2>1. \E n \in 1 .. Len(waiting) : KeysOf(t, ids) = {waiting[i] : i \in 1 .. n}
    BY <1>1, FrontOfLine
  <2> QED BY <2>1 DEF Leading
<1>3. Len(waiting) \in Nat /\ Len(waiting) = Cardinality(Queued(t))
  BY <1>1, KeysInLineAre
<1>4. Len(LineOf(t)) \in Nat /\ Len(LineOf(t)) = Cardinality(Active(t))
  <2>1. Len(KeysInLine(t, Active(t))) = Cardinality(Active(t))
        /\ Cardinality(Active(t)) \in Nat
    BY <1>1, KeysInLineAre
  <2> QED BY <2>1, LineOfActive
<1>5. Cardinality(Queued(t)) <= Cardinality(Active(t))
  <2>1. IsFiniteSet(Active(t))
    BY <1>1, FS_Subset DEF TableOK
  <2> QED BY <2>1, <1>1, FS_Subset
<1> HIDE DEF waiting
<1>6. \A i \in 1 .. n : TypeOf[waiting[i]] = TypeOf[waiting[1]]
  <2> TAKE i \in 1 .. n
  <2>0. 1 \in 1 .. n
    BY <1>3
  <2>1. waiting[i] \in KeysOf(t, ids) /\ waiting[1] \in KeysOf(t, ids)
    BY <1>2, <2>0 DEF Leading
  <2> QED BY <2>1 DEF KeysOf
<1>7. n \in 1 .. Len(LineOf(t))
  BY <1>3, <1>4, <1>5
<1>8. waiting = LineWithout(t, KeysOf(t, Running(t)))
  BY WaitingIsQueued DEF waiting
<1> QED BY <1>2, <1>6, <1>7, <1>8

(* The next run is at the front of the queue: what is before one of its    *)
(* jobs has fewer jobs before it still, all of them of the run.            *)
LEMMA RunIsInFront ==
  ASSUME NEW t, TableOK(t)
  PROVE  /\ NextRun(t) \subseteq Queued(t)
         /\ \A i \in NextRun(t) : \A j \in Queued(t) : Before(t, j, i) => j \in NextRun(t)
<1> DEFINE h == HeadOf(t)
           type == TypeOf[t[h].key]
           ahead(i) == {j \in Queued(t) : Before(t, j, i)}
           joins(i) == /\ TypeOf[t[i].key] = type
                       /\ type \in MixedTypes \/ SourceOf[t[i].key] = SourceOf[t[h].key]
<1>1. NextRun(t) = {i \in Queued(t) : /\ Cardinality(ahead(i)) < RunLimit[type]
                                      /\ \A j \in ahead(i) \cup {i} : joins(j)}
  BY DEF NextRun
<1>2. \A i \in Queued(t) : i \in Nat /\ t[i].created \in Nat
  BY DEF Queued, WithStatus, TableOK, Row, JobIds
<1>3. IsFiniteSet(Queued(t))
  BY FS_Subset DEF Queued, WithStatus, TableOK
<1>4. ASSUME NEW i \in NextRun(t), NEW j \in Queued(t), Before(t, j, i) PROVE j \in NextRun(t)
  <2>0. i \in Queued(t) /\ Cardinality(ahead(i)) < RunLimit[type]
        /\ \A k \in ahead(i) \cup {i} : joins(k)
    BY <1>1
  <2>1. ASSUME NEW k \in ahead(j) PROVE k \in ahead(i)
    <3>1. k \in Queued(t) /\ Before(t, k, j) /\ Before(t, j, i)
      BY <1>4
    <3>2. /\ k \in Nat /\ j \in Nat /\ i \in Nat /\ t[k].created \in Nat
          /\ t[j].created \in Nat /\ t[i].created \in Nat
      BY <1>2, <2>0, <3>1
    <3>3. Before(t, k, i)
      BY <3>1, <3>2 DEF Before
    <3> QED BY <3>1, <3>3
  <2>2. j \in ahead(i)
    BY <1>4
  <2>3. ahead(j) \subseteq ahead(i) /\ ahead(i) \subseteq Queued(t)
    BY <2>1
  <2> DEFINE A == ahead(j)  B == ahead(i)
  <2>4. Cardinality(A) \in Nat /\ Cardinality(B) \in Nat /\ Cardinality(A) <= Cardinality(B)
    <3>1. A \subseteq B /\ B \in SUBSET Queued(t)
      BY <2>3
    <3> HIDE DEF A, B
    <3>2. IsFiniteSet(B)
      BY <1>3, <3>1, FS_Subset
    <3>3. IsFiniteSet(A) /\ Cardinality(A) <= Cardinality(B)
      BY <3>1, <3>2, FS_Subset
    <3> QED BY <3>2, <3>3, FS_CardinalityType
  <2>6. RunLimit[type] \in Nat
    <3>1. TypeOf[t[i].key] = type
      BY <2>0
    <3>2. t[i].key \in Keys
      BY <2>0 DEF Queued, WithStatus, TableOK, Row
    <3> QED BY <3>1, <3>2, KeysAssumption
  <2>7. Cardinality(ahead(j)) < RunLimit[type]
    <3>1. Cardinality(B) < RunLimit[type]
      BY <2>0
    <3> HIDE DEF A, B, type
    <3>2. Cardinality(A) < RunLimit[type]
      BY <2>4, <2>6, <3>1
    <3> QED BY <3>2 DEF A
  <2>8. \A k \in ahead(j) \cup {j} : joins(k)
    <3> HIDE DEF joins, ahead
    <3> QED BY <2>0, <2>2, <2>3
  <2> QED BY <1>1, <2>7, <2>8
<1> QED BY <1>1, <1>4

-----------------------------------------------------------------------------
(* Each write is a step of the line of work.                               *)

(* The line without some keys, as WorkLine says it.                        *)
LEMMA LeftOfIs ==
  ASSUME NEW ks
  PROVE  Line!LeftOf(ks) = LineWithout(jobs, ks)
BY LineCopies, Zenon DEF Line!LeftOf, LineWithout

(* Rows taken away: their keys leave the line.                             *)
LEMMA LeaveStep ==
  ASSUME TypeOK, OneJobPerKey, DOMAIN jobs' \subseteq DOMAIN jobs,
         \A i \in DOMAIN jobs' : jobs'[i] = jobs[i]
  PROVE  Line!Next
<1>1. PICK ks : ks = KeysOf(jobs, DOMAIN jobs \ DOMAIN jobs')
  OBVIOUS
<1>2. TableOK(jobs) /\ OneRowPerKey(jobs)
  BY DEF TypeOK, OneJobPerKey
<1>3. /\ LineOf(jobs') = LineWithout(jobs, ks)
      /\ KeysOf(jobs', Running(jobs')) = KeysOf(jobs, Running(jobs)) \ ks
      /\ KeysOf(jobs', Failed(jobs')) = KeysOf(jobs, Failed(jobs)) \ ks
      /\ ks \subseteq Keys
  BY <1>1, <1>2, TakenAway
<1>4. Line!Leave(ks)
  BY <1>3, LeftOfIs DEF Line!Leave
<1> QED BY <1>3, <1>4 DEF Line!Next

(* A failure of running work gives it up.                                  *)
LEMMA GiveUpStep ==
  ASSUME TypeOK, OneJobPerKey, NEW ids, jobs' = Fail(jobs, ids)
  PROVE  Line!Next
<1>1. PICK ks : ks = KeysOf(jobs, ids \cap Running(jobs))
  OBVIOUS
<1>2. TableOK(jobs) /\ OneRowPerKey(jobs)
  BY DEF TypeOK, OneJobPerKey
<1>3. /\ LineOf(jobs') = LineWithout(jobs, ks)
      /\ KeysOf(jobs', Running(jobs')) = KeysOf(jobs, Running(jobs)) \ ks
      /\ KeysOf(jobs', Failed(jobs')) = KeysOf(jobs, Failed(jobs)) \cup ks
      /\ ks \subseteq KeysOf(jobs, Running(jobs)) /\ ks \subseteq Keys
  BY <1>1, <1>2, FailGivesUp
<1>4. Line!GiveUp(ks)
  BY <1>3, LeftOfIs DEF Line!GiveUp
<1> QED BY <1>3, <1>4 DEF Line!Next

(* A requeue puts work back.                                               *)
LEMMA PutBackStep ==
  ASSUME TypeOK, OneJobPerKey, NEW ids, jobs' = Requeue(jobs, ids)
  PROVE  Line!Next
<1>1. PICK ks : ks = KeysOf(jobs, ids \cap Running(jobs))
  OBVIOUS
<1>2. TableOK(jobs) /\ OneRowPerKey(jobs)
  BY DEF TypeOK, OneJobPerKey
<1>3. /\ LineOf(jobs') = LineOf(jobs)
      /\ KeysOf(jobs', Running(jobs')) = KeysOf(jobs, Running(jobs)) \ ks
      /\ KeysOf(jobs', Failed(jobs')) = KeysOf(jobs, Failed(jobs))
      /\ ks \subseteq KeysOf(jobs, Running(jobs)) /\ ks \subseteq Keys
  BY <1>1, <1>2, RequeuePutsBack
<1>4. Line!PutBack(ks)
  BY <1>3 DEF Line!PutBack
<1> QED BY <1>3, <1>4 DEF Line!Next

(* A claim of the front of the queue takes it.                             *)
LEMMA TakeStep ==
  ASSUME TypeOK, OneJobPerKey, NEW ids \in SUBSET Queued(jobs), ids # {},
         \A i \in ids : \A j \in Queued(jobs) : Before(jobs, j, i) => j \in ids,
         \A i, j \in ids : TypeOf[jobs[i].key] = TypeOf[jobs[j].key],
         NEW stamp \in Nat, jobs' = Claimed(jobs, ids, stamp)
  PROVE  Line!Next
<1>1. TableOK(jobs) /\ OneRowPerKey(jobs)
  BY DEF TypeOK, OneJobPerKey
<1>2. /\ LineOf(jobs') = LineOf(jobs)
      /\ KeysOf(jobs', Running(jobs')) = KeysOf(jobs, Running(jobs)) \cup KeysOf(jobs, ids)
      /\ KeysOf(jobs', Failed(jobs')) = KeysOf(jobs, Failed(jobs))
  BY <1>1, ClaimTakes
<1> DEFINE waiting == LineWithout(jobs, KeysOf(jobs, Running(jobs)))
<1>3. PICK n \in 1 .. Len(waiting) :
         /\ KeysOf(jobs, ids) = Leading(waiting, n)
         /\ \A i \in 1 .. n : TypeOf[waiting[i]] = TypeOf[waiting[1]]
         /\ n \in 1 .. Len(LineOf(jobs))
  BY <1>1, FrontIsTaken
<1>4. waiting = Line!Waiting
  BY LeftOfIs DEF Line!Waiting
<1> HIDE DEF waiting
<1>5. Line!Take(n)
  BY <1>2, <1>3, <1>4 DEF Line!Take, Leading
<1> QED BY <1>3, <1>5 DEF Line!Next

(* The keys in the line are the active ones.                               *)
LEMMA ActiveInLine ==
  ASSUME TypeOK, OneJobPerKey
  PROVE  Line!Active = KeysOf(jobs, Active(jobs))
<1>1. Active(jobs) \in SUBSET DOMAIN jobs /\ TableOK(jobs) /\ OneRowPerKey(jobs)
  BY DEF Active, Queued, Running, WithStatus, TypeOK, OneJobPerKey
<1> DEFINE line == KeysInLine(jobs, Active(jobs))
<1>2. {line[n] : n \in DOMAIN line} = KeysOf(jobs, Active(jobs))
  BY <1>1, KeysInLineOnce
<1>3. line = LineOf(jobs)
  BY LineOfActive
<1> HIDE DEF line
<1>4. Line!Active = {line[n] : n \in DOMAIN line}
  BY <1>3 DEF Line!Active, Line!Range
<1> QED BY <1>2, <1>4

(* New keys, asked for or asked for again, join the line.                  *)
LEMMA JoinStep ==
  ASSUME TypeOK, OneJobPerKey, NEW ks \in SUBSET Keys,
         ks \cap KeysOf(jobs, Active(jobs)) = {},
         \E order \in Line!SetToSeqs(ks) : LineOf(jobs') = LineOf(jobs) \o order,
         KeysOf(jobs', Running(jobs')) = KeysOf(jobs, Running(jobs)),
         KeysOf(jobs', Failed(jobs')) = KeysOf(jobs, Failed(jobs)) \ ks
  PROVE  Line!Next
<1>1. Line!Join(ks)
  BY ActiveInLine DEF Line!Join
<1> QED BY <1>1 DEF Line!Next

(* A step that leaves the table alone leaves the line alone.               *)
LEMMA NoLineStep ==
  ASSUME UNCHANGED jobs
  PROVE  UNCHANGED Line!vars
BY DEF Line!vars

(* The empty table has an empty line.                                      *)
LEMMA InitLine == Init => Line!Init
<1> SUFFICES ASSUME Init PROVE Line!Init
  OBVIOUS
<1>1. TypeOK
  BY InitTypeOK
<1>2. DOMAIN jobs = {}
  BY DEF Init, NoRun
<1>3. Active(jobs) = {} /\ Running(jobs) = {} /\ Failed(jobs) = {}
  BY <1>2 DEF Active, Queued, Running, Failed, WithStatus
<1>4. LineOf(jobs) = <<>>
  <2> DEFINE line == KeysInLine(jobs, {})
  <2>1. line \in Seq(Keys) /\ Len(line) = Cardinality({})
    BY <1>1, KeysInLineAre DEF TypeOK
  <2>2. Cardinality({}) = 0
    BY FS_EmptySet
  <2>3. <<>> \in Seq(Keys) /\ Len(<<>>) = 0
    BY EmptySeq
  <2> HIDE DEF line
  <2>4. line = <<>>
    BY <2>1, <2>2, <2>3, SeqEqual
  <2> QED BY <2>4, <1>3, LineOfActive DEF line
<1> QED BY <1>3, <1>4 DEF Line!Init, KeysOf

(* The user's requests are steps of the line of work.                      *)
LEMMA UserLine ==
  ASSUME TypeOK, OneJobPerKey, User
  PROVE  Line!Next
<1>0. TableOK(jobs) /\ OneRowPerKey(jobs)
  BY DEF TypeOK, OneJobPerKey
<1>1. ASSUME NEW ks \in SUBSET Keys, Ask(ks) PROVE Line!Next
  <2>1. PICK fresh : fresh = Fresh(jobs, ks)
    OBVIOUS
  <2>2. PICK at \in Placings(jobs, fresh) : jobs' = Enqueue(jobs, at)
    BY <1>1, <2>1 DEF Ask
  <2>3. fresh \in SUBSET Keys /\ fresh \cap KeysOf(jobs, Active(jobs)) = {}
    BY <2>1 DEF Fresh
  <2>4. /\ \E order \in Line!SetToSeqs(fresh) : LineOf(jobs') = LineOf(jobs) \o order
        /\ KeysOf(jobs', Running(jobs')) = KeysOf(jobs, Running(jobs))
        /\ KeysOf(jobs', Failed(jobs')) = KeysOf(jobs, Failed(jobs)) \ fresh
    BY <1>0, <2>2, <2>3, EnqueueJoins
  <2> QED BY <2>3, <2>4, JoinStep
<1>2. ASSUME NEW sel, UserCancel(sel) \/ UserDismiss(sel) PROVE Line!Next
  <2>1. /\ DOMAIN jobs' \subseteq DOMAIN jobs
        /\ \A i \in DOMAIN jobs' : jobs'[i] = jobs[i]
    BY <1>2 DEF UserCancel, UserDismiss, Cancel, Dismiss, Without
  <2> QED BY <2>1, LeaveStep
<1>3. ASSUME NEW sel, UserRetry(sel) PROVE Line!Next
  <2>1. PICK ids : jobs' = Retry(jobs, ids)
    BY <1>3 DEF UserRetry
  <2>2. PICK ks : ks = KeysOf(jobs, ids \cap Failed(jobs))
    OBVIOUS
  <2>3. /\ ks \subseteq Keys
        /\ ks \cap KeysOf(jobs, Active(jobs)) = {}
        /\ \E order \in Line!SetToSeqs(ks) : LineOf(jobs') = LineOf(jobs) \o order
        /\ KeysOf(jobs', Running(jobs')) = KeysOf(jobs, Running(jobs))
        /\ KeysOf(jobs', Failed(jobs')) = KeysOf(jobs, Failed(jobs)) \ ks
    <3>1. ks \subseteq Keys /\ ks \cap KeysOf(jobs, Active(jobs)) = {}
      BY <1>0, <2>2, RetryJoins
    <3>2. \E order \in Line!SetToSeqs(ks) : LineOf(jobs') = LineOf(jobs) \o order
      BY <1>0, <2>1, <2>2, RetryJoins
    <3>3. /\ KeysOf(jobs', Running(jobs')) = KeysOf(jobs, Running(jobs))
          /\ KeysOf(jobs', Failed(jobs')) = KeysOf(jobs, Failed(jobs)) \ ks
      BY <1>0, <2>1, <2>2, RetryJoins
    <3> QED BY <3>1, <3>2, <3>3
  <2> QED BY <2>3, JoinStep
<1> QED BY <1>1, <1>2, <1>3 DEF User

(* So are the claims: each takes work from the front.                      *)
LEMMA ClaimLine ==
  ASSUME TypeOK, OneJobPerKey, ClaimRun \/ \E th \in threads : ClaimTts(th)
  PROVE  Line!Next \/ UNCHANGED jobs
<1>0. TableOK(jobs) /\ OneRowPerKey(jobs)
  BY DEF TypeOK, OneJobPerKey
<1>1. CASE ClaimRun
  <2>1. /\ Queued(jobs) # {} /\ FreeStamps # {}
        /\ jobs' = Claimed(jobs, NextRun(jobs), NewStamp)
    BY <1>1 DEF ClaimRun
  <2>2. NewStamp \in Nat
    BY <2>1, NewStampIsNew
  <2>3. /\ NextRun(jobs) \in SUBSET Queued(jobs)
        /\ \A i \in NextRun(jobs) : \A j \in Queued(jobs) :
              Before(jobs, j, i) => j \in NextRun(jobs)
    BY <1>0, RunIsInFront
  <2>4. /\ NextRun(jobs) # {}
        /\ \A i, j \in NextRun(jobs) : TypeOf[jobs[i].key] = TypeOf[jobs[j].key]
    BY <1>0, <2>1, RunHasItsHead
  <2> QED BY <2>1, <2>2, <2>3, <2>4, TakeStep
<1>2. ASSUME NEW th \in threads, ClaimTts(th) PROVE Line!Next \/ UNCHANGED jobs
  <2>1. CASE Queued(jobs) # {} /\ TypeOf[jobs[HeadOf(jobs)].key] = TTS
    <3>1. FreeStamps # {} /\ jobs' = Claimed(jobs, {HeadOf(jobs)}, NewStamp)
      BY <1>2, <2>1 DEF ClaimTts
    <3>2. NewStamp \in Nat
      BY <3>1, NewStampIsNew
    <3>3. /\ HeadOf(jobs) \in Queued(jobs)
          /\ \A i \in Queued(jobs) \ {HeadOf(jobs)} : Before(jobs, HeadOf(jobs), i)
      BY <1>0, <2>1, HeadIsQueued
    <3>4. \A i \in Queued(jobs) : i \in Nat /\ jobs[i].created \in Nat
      BY <1>0 DEF Queued, WithStatus, TableOK, Row, JobIds
    <3>5. \A j \in Queued(jobs) : Before(jobs, j, HeadOf(jobs)) => j = HeadOf(jobs)
      <4> SUFFICES ASSUME NEW j \in Queued(jobs), j # HeadOf(jobs), Before(jobs, j, HeadOf(jobs))
                   PROVE  FALSE
        OBVIOUS
      <4>1. Before(jobs, HeadOf(jobs), j)
        BY <3>3
      <4>2. PICK h \in Queued(jobs) : h = HeadOf(jobs)
        BY <3>3
      <4>3. Before(jobs, h, j) /\ Before(jobs, j, h)
        BY <4>1, <4>2
      <4>4. h \in Nat /\ j \in Nat /\ jobs[h].created \in Nat /\ jobs[j].created \in Nat
        BY <3>4
      <4> QED BY <4>3, <4>4 DEF Before
    <3> DEFINE ids == {HeadOf(jobs)}
    <3>6. /\ ids \in SUBSET Queued(jobs) /\ ids # {}
          /\ \A i \in ids : \A j \in Queued(jobs) : Before(jobs, j, i) => j \in ids
          /\ \A i, j \in ids : TypeOf[jobs[i].key] = TypeOf[jobs[j].key]
      BY <3>3, <3>5
    <3> HIDE DEF ids
    <3> QED BY <3>1, <3>2, <3>6, TakeStep DEF ids
  <2>2. CASE ~(Queued(jobs) # {} /\ TypeOf[jobs[HeadOf(jobs)].key] = TTS)
    BY <1>2, <2>2 DEF ClaimTts
  <2> QED BY <2>1, <2>2
<1> QED BY <1>1, <1>2

(* So is what the worker and the speech subprocess write of their jobs.    *)
LEMMA WriteLine ==
  ASSUME TypeOK, OneJobPerKey,
         \/ WorkerStart \/ FailTimedOut \/ CompleteRest \/ FailTts
         \/ \E th \in threads : Settle(th) \/ SettleTts(th)
  PROVE  Line!Next \/ UNCHANGED jobs
<1>0. TableOK(jobs)
  BY DEF TypeOK
<1>1. ASSUME NEW run, jobs' = Complete(jobs, run) PROVE Line!Next
  <2>1. /\ DOMAIN jobs' \subseteq DOMAIN jobs
        /\ \A i \in DOMAIN jobs' : jobs'[i] = jobs[i]
    BY <1>0, <1>1, SettledKeepsKeys, WritesKeepRows DEF KeepsKeys
  <2> QED BY <2>1, LeaveStep
<1>2. CASE WorkerStart
  BY <1>2, PutBackStep DEF WorkerStart
<1>3. CASE FailTimedOut
  BY <1>3, GiveUpStep DEF FailTimedOut
<1>4. CASE CompleteRest
  BY <1>1, <1>4 DEF CompleteRest
<1>5. CASE FailTts
  BY <1>5, GiveUpStep DEF FailTts, FailRunning
<1>6. ASSUME NEW th \in threads, Settle(th) PROVE Line!Next \/ UNCHANGED jobs
  <2>1. CASE th.outcome = "unavailable" /\ jobs' = Requeue(jobs, DOMAIN th.run)
    BY <2>1, PutBackStep
  <2>2. ASSUME NEW ids, jobs' = Fail(jobs, ids) PROVE Line!Next
    BY <2>2, GiveUpStep
  <2> QED BY <1>1, <1>6, <2>1, <2>2 DEF Settle
<1>7. ASSUME NEW th \in threads, SettleTts(th) PROVE Line!Next \/ UNCHANGED jobs
  BY <1>1, <1>7, GiveUpStep DEF SettleTts
<1> QED BY <1>2, <1>3, <1>4, <1>5, <1>6, <1>7

(* Every step of the queue is a step of the line of work, or none.         *)
LEMMA LineStep ==
  ASSUME TypeOK, OneJobPerKey, [Next]_vars
  PROVE  [Line!Next]_(Line!vars)
<1>1. CASE User
  BY <1>1, UserLine
<1>2. CASE WorkerStep
  BY <1>2, ClaimLine, WriteLine, NoLineStep DEF WorkerStep
<1>3. CASE Timeout
  BY <1>3, NoLineStep DEF Timeout
<1>4. ASSUME NEW th \in threads, Work(th) \/ ThreadStep(th) PROVE [Line!Next]_(Line!vars)
  <2>1. CASE SettleTts(th) \/ ClaimTts(th)
    BY <2>1, ClaimLine, WriteLine, NoLineStep
  <2>2. CASE ~(SettleTts(th) \/ ClaimTts(th))
    <3>1. UNCHANGED jobs
      BY <1>4, <2>2 DEF Work, Answer, Break, FindNoAI, ThreadStep, ReadFirstJob, ReadCards,
                        KeepWanted, Commit, FinalCheck
    <3> QED BY <3>1, NoLineStep
  <2> QED BY <2>1, <2>2
<1>5. CASE Fault
  BY <1>5, NoLineStep DEF Fault, WorkerDies, WorkerStops, TtsDies
<1>6. CASE UNCHANGED vars
  BY <1>6, NoLineStep DEF vars
<1> QED BY <1>1, <1>2, <1>3, <1>4, <1>5, <1>6 DEF Next

(* The queue implements the line of work: nobody is overtaken, a run is    *)
(* taken from the front, and work put back keeps its place.                *)
THEOREM LineIsImplemented == Spec => ImplementsWorkLine
<1>1. Init => Line!Init
  BY InitLine
<1>2. TypeOK /\ OneJobPerKey /\ [Next]_vars => [Line!Next]_(Line!vars)
  BY LineStep
<1>3. Spec => [](TypeOK /\ OneJobPerKey)
  BY TypeCorrect, OneJobPerKeyAlways, PTL
<1> QED BY <1>1, <1>2, <1>3, PTL DEF Spec, ImplementsWorkLine, Line!Spec

=============================================================================
