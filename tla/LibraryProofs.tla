---------------------------- MODULE LibraryProofs ----------------------------
(***************************************************************************)
(* Theorems about the collections and the places of the sources, for every *)
(* set of names, every depth and every bound.                              *)
(***************************************************************************)
EXTENDS Library, FiniteSetTheorems, FunctionTheorems, SequenceTheorems,
        WellFoundedInduction, TLAPS

-----------------------------------------------------------------------------
(* What hangs on a collection, in any set of collections.                  *)

(* A collection hangs on itself.                                           *)
LEMMA RootIsBelow ==
  ASSUME NEW cs, NEW S, NEW c \in S
  PROVE  c \in Below(cs, S, c) /\ Below(cs, S, c) \subseteq S
BY DEF Below, Closed

(* What hangs on c is in every closed set that holds c.                    *)
LEMMA BelowIsLeast ==
  ASSUME NEW cs, NEW S, NEW c, NEW T \in SUBSET S, c \in T,
         \A x \in S \ T : cs[x].parent \notin T
  PROVE  Below(cs, S, c) \subseteq T
BY DEF Below, Closed

(* What does not hang on c does not hang on anything that does.            *)
LEMMA BelowIsClosed ==
  ASSUME NEW cs, NEW S, NEW c, NEW x \in S \ Below(cs, S, c)
  PROVE  cs[x].parent \notin Below(cs, S, c)
<1>1. PICK T \in Closed(cs, S, c) : x \notin T
  BY DEF Below
<1>2. cs[x].parent \notin T
  BY <1>1 DEF Closed
<1> QED BY <1>1, <1>2 DEF Below

(* All but c itself hang by their parents.                                 *)
LEMMA BelowByParent ==
  ASSUME NEW cs, NEW S, NEW c \in S, NEW x \in Below(cs, S, c), x # c
  PROVE  cs[x].parent \in Below(cs, S, c)
<1> SUFFICES ASSUME cs[x].parent \notin Below(cs, S, c) PROVE FALSE
  OBVIOUS
<1> DEFINE T == Below(cs, S, c) \ {x}
<1>1. T \in SUBSET S /\ c \in T
  BY RootIsBelow
<1>2. ASSUME NEW y \in S \ T PROVE cs[y].parent \notin T
  <2>1. CASE y = x
    BY <2>1
  <2>2. CASE y # x
    BY <2>2, <1>2, BelowIsClosed
  <2> QED BY <2>1, <2>2
<1> HIDE DEF T
<1>3. Below(cs, S, c) \subseteq T
  BY <1>1, <1>2, BelowIsLeast
<1> QED BY <1>3 DEF T

(* What hangs on x hangs on all that x hangs on.                           *)
LEMMA BelowIsNested ==
  ASSUME NEW cs, NEW S, NEW c \in S, NEW x \in Below(cs, S, c)
  PROVE  Below(cs, S, x) \subseteq Below(cs, S, c)
<1> DEFINE T == Below(cs, S, c)
<1>1. T \in SUBSET S /\ x \in T
  BY RootIsBelow
<1>2. \A y \in S \ T : cs[y].parent \notin T
  BY BelowIsClosed
<1> HIDE DEF T
<1>3. Below(cs, S, x) \subseteq T
  BY <1>1, <1>2, BelowIsLeast
<1> QED BY <1>3 DEF T

(* In fewer collections with the same parents less hangs on c.             *)
LEMMA FewerBelow ==
  ASSUME NEW cs, NEW S, NEW ds, NEW S2 \in SUBSET S, NEW c \in S2,
         \A x \in S2 : ds[x].parent = cs[x].parent
  PROVE  Below(ds, S2, c) \subseteq Below(cs, S, c)
<1> DEFINE T == Below(cs, S, c) \cap S2
<1>1. T \in SUBSET S2 /\ c \in T
  BY RootIsBelow
<1>2. ASSUME NEW y \in S2 \ T PROVE ds[y].parent \notin T
  BY <1>2, BelowIsClosed
<1> HIDE DEF T
<1>3. Below(ds, S2, c) \subseteq T
  BY <1>1, <1>2, BelowIsLeast
<1> QED BY <1>3 DEF T

(* If c does not hang on itself, nothing below c does.                     *)
LEMMA NothingHangsOnItself ==
  ASSUME NEW cs, NEW S, NEW c \in S, cs[c].parent \notin Below(cs, S, c),
         NEW x \in Below(cs, S, c)
  PROVE  cs[x].parent \notin Below(cs, S, x)
<1> SUFFICES ASSUME cs[x].parent \in Below(cs, S, x), x # c PROVE FALSE
  OBVIOUS
<1> DEFINE T == Below(cs, S, c) \ Below(cs, S, x)
<1>0. x \in S /\ Below(cs, S, x) \subseteq Below(cs, S, c)
  BY RootIsBelow, BelowIsNested
<1>1. c \notin Below(cs, S, x)
  <2> SUFFICES ASSUME c \in Below(cs, S, x) PROVE FALSE
    OBVIOUS
  <2>1. cs[c].parent \in Below(cs, S, x)
    BY <1>0, BelowByParent
  <2> QED BY <1>0, <2>1
<1>2. T \in SUBSET S /\ c \in T
  BY <1>1, RootIsBelow
<1>3. ASSUME NEW y \in S \ T PROVE cs[y].parent \notin T
  <2>1. CASE y \notin Below(cs, S, c)
    BY <2>1, BelowIsClosed
  <2>2. CASE y \in Below(cs, S, x)
    <3>1. cs[y].parent \in Below(cs, S, x)
      BY <1>0, <2>2, BelowByParent
    <3> QED BY <3>1
  <2> QED BY <1>3, <2>1, <2>2
<1> HIDE DEF T
<1>4. Below(cs, S, c) \subseteq T
  BY <1>2, <1>3, BelowIsLeast
<1>5. x \in Below(cs, S, x)
  BY <1>0, RootIsBelow
<1> QED BY <1>4, <1>5 DEF T

-----------------------------------------------------------------------------
(* Trees of collections.                                                   *)

Collections == [name : Names, parent : Nat, position : Nat, dead : Nat]

ColsOK(cs) ==
    /\ cs \in Seq(Collections)
    /\ \A c \in DOMAIN cs : cs[c].parent \in 0 .. Len(cs)

(* The collections c hangs below, itself included: its depth.              *)
Up(cs, c) == {d \in Live(cs) : c \in Subtree(cs, d)}

Rooted(cs) == \A c \in Live(cs) : cs[c].parent \in Live(cs) \cup {Top}
Acyclic(cs) == \A c \in Live(cs) : cs[c].parent \notin Subtree(cs, c)
Shallow(cs) == \A c \in Live(cs) : Cardinality(Up(cs, c)) <= MaxDepth

Trees(cs) == Rooted(cs) /\ Acyclic(cs) /\ Shallow(cs)

(* Live collections are finitely many positive numbers.                    *)
LEMMA LiveFinite ==
  ASSUME NEW cs, ColsOK(cs)
  PROVE  /\ DOMAIN cs = 1 .. Len(cs) /\ Len(cs) \in Nat
         /\ Live(cs) \subseteq 1 .. Len(cs) /\ IsFiniteSet(Live(cs))
         /\ Top \notin Live(cs)
<1>1. DOMAIN cs = 1 .. Len(cs) /\ Len(cs) \in Nat
  BY DEF ColsOK
<1>2. IsFiniteSet(1 .. Len(cs))
  BY <1>1, FS_Interval
<1>3. Live(cs) \subseteq 1 .. Len(cs)
  BY <1>1 DEF Live
<1>4. IsFiniteSet(Live(cs))
  BY <1>2, <1>3, FS_Subset
<1>5. Top \notin Live(cs)
  BY <1>1, <1>3 DEF Top
<1> QED BY <1>1, <1>3, <1>4, <1>5

(* The parts of the live collections are finite.                           *)
LEMMA LivePart ==
  ASSUME NEW cs, ColsOK(cs), NEW T \in SUBSET Live(cs)
  PROVE  IsFiniteSet(T) /\ Cardinality(T) \in Nat
BY LiveFinite, FS_Subset, FS_CardinalityType

(* The depth of a collection counts what it hangs below and itself.        *)
LEMMA DepthIsUp ==
  ASSUME NEW cs, ColsOK(cs), NEW c \in Live(cs)
  PROVE  Depth(cs, c) = Cardinality(Up(cs, c))
<1>1. Up(cs, c) = Ancestors(cs, c) \cup {c} /\ c \notin Ancestors(cs, c)
  BY RootIsBelow DEF Up, Ancestors, Subtree
<1>2. IsFiniteSet(Ancestors(cs, c))
  BY LivePart DEF Ancestors
<1> QED BY <1>1, <1>2, FS_AddElement DEF Depth

(* A number of a part of the live collections is below a larger part's.    *)
LEMMA PartIsSmaller ==
  ASSUME NEW cs, ColsOK(cs), NEW T \in SUBSET Live(cs), NEW U \in SUBSET T
  PROVE  Cardinality(U) <= Cardinality(T)
BY LivePart, FS_Subset

-----------------------------------------------------------------------------
(* How the trees change.                                                   *)

(* Neither the collections nor their parents change.                       *)
SameTrees(cs, ds) ==
    /\ Live(ds) = Live(cs)
    /\ \A c \in Live(cs) : ds[c].parent = cs[c].parent

(* The trees stay what they were.                                          *)
LEMMA SameTreesKept ==
  ASSUME NEW cs, NEW ds, SameTrees(cs, ds)
  PROVE  /\ \A c \in Live(cs) : Subtree(ds, c) = Subtree(cs, c)
         /\ Trees(cs) => Trees(ds)
<1>1. ASSUME NEW c \in Live(cs) PROVE Subtree(ds, c) = Subtree(cs, c)
  <2>1. Below(ds, Live(cs), c) \subseteq Below(cs, Live(cs), c)
    BY FewerBelow DEF SameTrees
  <2>2. Below(cs, Live(cs), c) \subseteq Below(ds, Live(cs), c)
    BY FewerBelow DEF SameTrees
  <2> QED BY <2>1, <2>2 DEF Subtree, SameTrees
<1>2. ASSUME NEW c \in Live(cs) PROVE Up(ds, c) = Up(cs, c)
  BY <1>1 DEF Up, SameTrees
<1> QED BY <1>1, <1>2 DEF Trees, Rooted, Acyclic, Shallow, SameTrees

(* c and all below it go.                                                  *)
LEMMA PrunedIsTrees ==
  ASSUME NEW cs, ColsOK(cs), Trees(cs), NEW ds, NEW c \in Live(cs),
         Live(ds) = Live(cs) \ Subtree(cs, c),
         \A d \in Live(ds) : ds[d].parent = cs[d].parent
  PROVE  Trees(ds)
<1>1. ASSUME NEW d \in Live(ds) PROVE Subtree(ds, d) \subseteq Subtree(cs, d)
  BY FewerBelow DEF Subtree
<1>2. ASSUME NEW d \in Live(ds) PROVE ds[d].parent \in Live(ds) \cup {Top}
  BY BelowIsClosed DEF Subtree, Trees, Rooted
<1>3. ASSUME NEW d \in Live(ds) PROVE Cardinality(Up(ds, d)) <= MaxDepth
  <2>1. Up(ds, d) \subseteq Up(cs, d) /\ Up(cs, d) \subseteq Live(cs)
    BY <1>1 DEF Up
  <2>2. Cardinality(Up(ds, d)) <= Cardinality(Up(cs, d))
    BY <2>1, PartIsSmaller
  <2>3. Cardinality(Up(cs, d)) <= MaxDepth /\ Cardinality(Up(cs, d)) \in Nat
    BY <2>1, LivePart DEF Trees, Shallow
  <2>4. Cardinality(Up(ds, d)) \in Nat
    BY <2>1, LivePart
  <2> QED BY <2>2, <2>3, <2>4, LibraryAssumption
<1>4. ASSUME NEW d \in Live(ds) PROVE ds[d].parent \notin Subtree(ds, d)
  BY <1>1 DEF Trees, Acyclic
<1> QED BY <1>2, <1>3, <1>4 DEF Trees, Rooted, Acyclic, Shallow

(* G is a tree of its own with root c, hung on the trees.                  *)
Grafted(cs, ds, G, c) ==
    /\ Live(ds) = Live(cs) \cup G /\ Live(cs) \cap G = {}
    /\ \A d \in Live(cs) : ds[d].parent = cs[d].parent
    /\ c \in G /\ Below(ds, G, c) = G
    /\ ds[c].parent \in Live(cs) \cup {Top}
    /\ Top \notin G

(* Below the old collections hang the old ones and perhaps the new.        *)
LEMMA GraftedBelow ==
  ASSUME NEW cs, Rooted(cs), NEW ds, NEW G, NEW c, Grafted(cs, ds, G, c)
  PROVE  /\ \A d \in Live(cs) : Subtree(ds, d) \subseteq Subtree(cs, d) \cup G
         /\ Subtree(ds, c) = G
<1> USE DEF Grafted
<1>1. \A z \in Live(cs) : ds[z].parent \notin G
  BY DEF Rooted
<1>2. ASSUME NEW d \in Live(cs) PROVE Subtree(ds, d) \subseteq Subtree(cs, d) \cup G
  <2> DEFINE T == Subtree(cs, d) \cup G
  <2>1. T \in SUBSET Live(ds) /\ d \in T
    BY RootIsBelow DEF Subtree
  <2>2. ASSUME NEW z \in Live(ds) \ T PROVE ds[z].parent \notin T
    BY <1>1, <2>2, BelowIsClosed DEF Subtree
  <2> HIDE DEF T
  <2>3. Below(ds, Live(ds), d) \subseteq T
    BY <2>1, <2>2, BelowIsLeast
  <2> QED BY <2>3 DEF T, Subtree
<1>3. Subtree(ds, c) \subseteq G
  <2>1. G \in SUBSET Live(ds) /\ \A z \in Live(ds) \ G : ds[z].parent \notin G
    BY <1>1
  <2> QED BY <2>1, BelowIsLeast DEF Subtree
<1>4. G \subseteq Subtree(ds, c)
  BY FewerBelow DEF Subtree
<1> QED BY <1>2, <1>3, <1>4

(* The trees stay trees as long as what is hung on is not too deep.        *)
LEMMA GraftedIsTrees ==
  ASSUME NEW cs, ColsOK(cs), Trees(cs), NEW ds, ColsOK(ds), NEW G, NEW c,
         Grafted(cs, ds, G, c),
         \A x \in G : Cardinality(Up(ds, x)) <= MaxDepth
  PROVE  Trees(ds)
<1> USE DEF Grafted
<1>0. c \in Live(ds) /\ ds[c].parent \notin Subtree(ds, c)
  BY GraftedBelow DEF Trees
<1>1. ASSUME NEW x \in G
      PROVE  ds[x].parent \in Live(ds) \cup {Top} /\ ds[x].parent \notin Subtree(ds, x)
  <2>1. x # c => ds[x].parent \in G
    BY <1>1, BelowByParent
  <2>2. x \in Subtree(ds, c)
    BY GraftedBelow DEF Trees
  <2>3. ds[x].parent \notin Subtree(ds, x)
    BY <1>0, <2>2, NothingHangsOnItself DEF Subtree
  <2> QED BY <2>1, <2>3
<1>2. ASSUME NEW x \in Live(cs)
      PROVE  ds[x].parent \in Live(ds) \cup {Top} /\ ds[x].parent \notin Subtree(ds, x)
  <2>1. Subtree(ds, x) \subseteq Subtree(cs, x) \cup G
    BY GraftedBelow DEF Trees
  <2>2. cs[x].parent \in Live(cs) \cup {Top} /\ cs[x].parent \notin Subtree(cs, x)
    BY DEF Trees, Rooted, Acyclic
  <2> QED BY <2>1, <2>2
<1>3. ASSUME NEW x \in Live(cs) PROVE Cardinality(Up(ds, x)) <= MaxDepth
  <2>1. Up(ds, x) \subseteq Up(cs, x)
    <3> SUFFICES ASSUME NEW d \in Up(ds, x) PROVE d \in Up(cs, x)
      OBVIOUS
    <3>1. d \in Live(ds) /\ x \in Subtree(ds, d) /\ x \notin G
      BY <1>3 DEF Up
    <3>2. d \notin G
      <4> SUFFICES ASSUME d \in G PROVE FALSE
        OBVIOUS
      <4>1. d \in Subtree(ds, c)
        BY GraftedBelow DEF Trees
      <4>2. Subtree(ds, d) \subseteq Subtree(ds, c)
        BY <1>0, <4>1, BelowIsNested DEF Subtree
      <4> QED BY <3>1, <4>2, GraftedBelow DEF Trees
    <3> QED BY <3>1, <3>2, GraftedBelow DEF Up, Trees
  <2>2. Up(cs, x) \subseteq Live(cs)
    BY DEF Up
  <2>3. Cardinality(Up(ds, x)) <= Cardinality(Up(cs, x))
    BY <2>1, <2>2, PartIsSmaller
  <2>4. Cardinality(Up(cs, x)) \in Nat /\ Cardinality(Up(ds, x)) \in Nat
    BY <2>1, <2>2, LivePart
  <2> QED BY <2>3, <2>4, LibraryAssumption DEF Trees, Shallow
<1> QED BY <1>1, <1>2, <1>3 DEF Trees, Rooted, Acyclic, Shallow

(* The greatest of finitely many naturals is one of them: of the sets of   *)
(* those above n one has no smaller one beside it, and it is empty.        *)
LEMMA MaxIsGreatest ==
  ASSUME NEW S \in SUBSET Nat, IsFiniteSet(S), S # {}
  PROVE  Max(S) \in S /\ \A k \in S : k <= Max(S)
<1> DEFINE Above(n) == {k \in S : k > n}
           Aboves == {Above(n) : n \in S}
<1>1. Aboves \subseteq FiniteSubsetsOf(S) /\ Aboves # {}
  <2>1. ASSUME NEW n \in S PROVE Above(n) \in FiniteSubsetsOf(S)
    <3>1. Above(n) \in SUBSET S
      OBVIOUS
    <3>2. IsFiniteSet(Above(n))
      BY <3>1, FS_Subset
    <3> QED BY <3>1, <3>2 DEF FiniteSubsetsOf
  <2> HIDE DEF Above
  <2> QED BY <2>1
<1>2. PICK U \in Aboves : \A V \in Aboves : <<V, U>> \notin StrictSubsetOrdering(S)
  <2> HIDE DEF Aboves
  <2> QED BY <1>1, FS_StrictSubsetOrderingWellFounded, WFMin
<1>3. PICK m \in S : U = Above(m)
  <2> HIDE DEF Above
  <2> QED OBVIOUS
<1>4. ASSUME NEW k \in S, k > m PROVE FALSE
  <2>0. k \in Nat /\ m \in Nat /\ S \subseteq Nat
    OBVIOUS
  <2>1. \A j \in Nat : j > k => j > m
    BY <2>0, <1>4
  <2>2. Above(k) \subseteq Above(m)
    BY <2>0, <2>1
  <2>3. k \in Above(m) /\ k \notin Above(k)
    BY <1>4, <2>0
  <2>4. <<Above(k), Above(m)>> \in StrictSubsetOrdering(S)
    <3>1. Above(k) \in SUBSET S /\ Above(m) \in SUBSET S
      OBVIOUS
    <3> HIDE DEF Above
    <3> QED BY <2>2, <2>3, <3>1 DEF StrictSubsetOrdering
  <2>5. Above(k) \in Aboves
    OBVIOUS
  <2> HIDE DEF Above, Aboves
  <2> QED BY <2>4, <2>5, <1>2, <1>3
<1>5. \A k \in S : ~(k > m)
  BY <1>4
<1>6. \E top \in S : \A k \in S : top >= k
  BY <1>5
<1> QED BY <1>6 DEF Max

(* A union has at most the members of its parts together.                  *)
LEMMA UnionIsSmaller ==
  ASSUME NEW T, NEW U, IsFiniteSet(T), IsFiniteSet(U)
  PROVE  Cardinality(T \cup U) <= Cardinality(T) + Cardinality(U)
<1>1. Cardinality(T \cup U) = Cardinality(T) + Cardinality(U) - Cardinality(T \cap U)
  BY FS_Union
<1>2. IsFiniteSet(T \cap U) /\ Cardinality(T \cap U) \in Nat
  BY FS_Intersection, FS_CardinalityType
<1> QED BY <1>1, <1>2, FS_CardinalityType

(* The height of a collection counts the longest way down.                 *)
LEMMA HeightBounds ==
  ASSUME NEW cs, ColsOK(cs), NEW c \in Live(cs)
  PROVE  /\ Height(cs, c) \in Nat
         /\ \A d \in Subtree(cs, c) :
                Cardinality(Up(cs, d) \cap Subtree(cs, c)) <= Height(cs, c)
         /\ \E d \in Subtree(cs, c) :
                Cardinality(Up(cs, d) \cap Subtree(cs, c)) = Height(cs, c)
<1> DEFINE own == Subtree(cs, c)
           above(d) == Ancestors(cs, d) \cap own
           size == [d \in own |-> Cardinality(above(d))]
           sizes == {Cardinality(above(d)) : d \in own}
<1>1. c \in own /\ own \subseteq Live(cs) /\ IsFiniteSet(own)
  BY RootIsBelow, LivePart DEF Subtree
<1>2. ASSUME NEW d \in own
      PROVE  /\ IsFiniteSet(above(d)) /\ Cardinality(above(d)) \in Nat
             /\ Cardinality(Up(cs, d) \cap own) = Cardinality(above(d)) + 1
  <2>1. above(d) \in SUBSET Live(cs) /\ d \notin above(d)
    BY DEF Ancestors
  <2>2. Up(cs, d) \cap own = above(d) \cup {d}
    BY <1>1, RootIsBelow DEF Up, Ancestors, Subtree
  <2>3. IsFiniteSet(above(d)) /\ Cardinality(above(d)) \in Nat
    <3> HIDE DEF above
    <3> QED BY <2>1, LivePart
  <2> HIDE DEF above, own
  <2> QED BY <2>1, <2>2, <2>3, FS_AddElement
<1> HIDE DEF above
<1>3. size \in Surjection(own, sizes)
  <2>1. size \in [own -> sizes] /\ \A n \in sizes : \E d \in own : size[d] = n
    OBVIOUS
  <2> HIDE DEF size, sizes
  <2> QED BY <2>1, Fun_IsSurj
<1>4. /\ sizes \in SUBSET Nat /\ sizes # {} /\ \A d \in own : Cardinality(above(d)) \in sizes
      /\ \A n \in sizes : \E d \in own : n = Cardinality(above(d))
  <2> HIDE DEF own
  <2> QED BY <1>1, <1>2
<1>5. IsFiniteSet(sizes)
  <2> HIDE DEF size, sizes
  <2> QED BY <1>1, <1>3, FS_Surjection
<1>6. Height(cs, c) = 1 + Max(sizes)
  BY DEF Height, above
<1> HIDE DEF sizes, size
<1>7. Max(sizes) \in Nat /\ Max(sizes) \in sizes /\ \A n \in sizes : n <= Max(sizes)
  BY <1>4, <1>5, MaxIsGreatest
<1>8. ASSUME NEW d \in own PROVE Cardinality(Up(cs, d) \cap own) <= Height(cs, c)
  <2> HIDE DEF own
  <2> QED BY <1>2, <1>4, <1>6, <1>7
<1>9. \E d \in own : Cardinality(Up(cs, d) \cap own) = Height(cs, c)
  <2>1. PICK d \in own : Max(sizes) = Cardinality(above(d))
    BY <1>4, <1>7
  <2> HIDE DEF own
  <2> QED BY <1>2, <1>6, <1>7, <2>1
<1>10. Height(cs, c) \in Nat
  BY <1>6, <1>7
<1> QED BY Zenon, <1>8, <1>9, <1>10

(* What x hangs below and c is not part of, c hangs below as well.         *)
LEMMA UpThroughRoot ==
  ASSUME NEW cs, NEW c \in Live(cs), NEW x \in Subtree(cs, c), NEW d \in Up(cs, x),
         d \notin Subtree(cs, c)
  PROVE  d \in Up(cs, c)
<1> SUFFICES ASSUME c \notin Subtree(cs, d) PROVE FALSE
  BY DEF Up
<1> DEFINE T == Subtree(cs, d) \ Subtree(cs, c)
<1>1. T \in SUBSET Live(cs) /\ d \in T /\ x \in Subtree(cs, d) /\ d \in Live(cs)
  BY RootIsBelow DEF Subtree, Up
<1>2. ASSUME NEW z \in Live(cs) \ T PROVE cs[z].parent \notin T
  <2>1. CASE z \notin Subtree(cs, d)
    BY <2>1, BelowIsClosed DEF Subtree
  <2>2. CASE z \in Subtree(cs, d)
    <3>1. z \in Subtree(cs, c) /\ z # c
      BY <1>2, <2>2
    <3> QED BY <3>1, BelowByParent DEF Subtree
  <2> QED BY <2>1, <2>2
<1> HIDE DEF T
<1>3. Subtree(cs, d) \subseteq T
  BY <1>1, <1>2, BelowIsLeast DEF Subtree
<1> QED BY <1>1, <1>3 DEF T

(* So no collection below c is deeper than c and its height allow.         *)
LEMMA DepthBelowRoot ==
  ASSUME NEW cs, ColsOK(cs), NEW c \in Live(cs), NEW x \in Subtree(cs, c), Fits(cs, c)
  PROVE  Cardinality(Up(cs, x)) <= MaxDepth
<1> DEFINE T == Ancestors(cs, c)
           U == Up(cs, x) \cap Subtree(cs, c)
<1>1. T \in SUBSET Live(cs) /\ U \in SUBSET Live(cs) /\ Up(cs, x) \in SUBSET Live(cs)
  BY DEF Ancestors, Up
<1>2. Up(cs, x) \subseteq T \cup U
  BY UpThroughRoot, RootIsBelow DEF Up, Ancestors, Subtree
<1>3. Cardinality(U) <= Height(cs, c) /\ Height(cs, c) \in Nat
  BY HeightBounds
<1>4. Cardinality(T) + 1 + Height(cs, c) - 1 <= MaxDepth
  BY DEF Fits, Depth
<1> HIDE DEF T, U
<1>5. Cardinality(Up(cs, x)) <= Cardinality(T \cup U)
  BY <1>1, <1>2, PartIsSmaller
<1>6. Cardinality(T \cup U) <= Cardinality(T) + Cardinality(U)
  BY <1>1, LivePart, UnionIsSmaller
<1>7. /\ Cardinality(T) \in Nat /\ Cardinality(U) \in Nat
      /\ Cardinality(Up(cs, x)) \in Nat /\ Cardinality(T \cup U) \in Nat
  BY <1>1, LivePart
<1> QED BY <1>3, <1>4, <1>5, <1>6, <1>7, LibraryAssumption

(* A new collection hung on a fit parent.                                  *)
LEMMA CreatedIsTrees ==
  ASSUME NEW cs, ColsOK(cs), Trees(cs), NEW ds, ColsOK(ds), NEW c, c \notin Live(cs),
         c # Top, Live(ds) = Live(cs) \cup {c},
         \A d \in Live(cs) : ds[d].parent = cs[d].parent,
         ParentIsFit(cs, ds[c].parent)
  PROVE  Trees(ds)
<1> DEFINE p == ds[c].parent
           G == {c}
<1>1. Below(ds, G, c) = G
  BY RootIsBelow
<1>2. Grafted(cs, ds, G, c)
  BY <1>1 DEF Grafted, ParentIsFit
<1>3. Cardinality(Up(ds, c)) <= MaxDepth
  <2>1. ASSUME NEW d \in Up(ds, c), d # c PROVE p # Top /\ d \in Up(cs, p)
    <3>1. d \in Live(cs) /\ c \in Subtree(ds, d)
      BY <2>1 DEF Up
    <3>2. p \in Subtree(ds, d)
      BY <2>1, <3>1, BelowByParent DEF Subtree
    <3>3. p \in Live(ds) /\ p # Top
      BY <3>1, <3>2, RootIsBelow, LiveFinite DEF Subtree
    <3>4. p # c
      BY <3>3 DEF ParentIsFit
    <3>5. Subtree(ds, d) \subseteq Subtree(cs, d) \cup G
      <4> HIDE DEF G
      <4> QED BY <1>2, <3>1, GraftedBelow DEF Trees
    <3> QED BY <3>1, <3>2, <3>3, <3>4, <3>5 DEF Up
  <2>2. CASE p = Top
    <3>1. Up(ds, c) \subseteq {c}
      BY <2>1, <2>2
    <3>2. Cardinality(Up(ds, c)) <= Cardinality({c})
      BY <3>1, FS_Singleton, FS_Subset
    <3>3. Cardinality({c}) = 1
      BY FS_Singleton
    <3>4. Cardinality(Up(ds, c)) \in Nat
      BY <3>1, FS_Singleton, FS_Subset, FS_CardinalityType
    <3> QED BY <3>2, <3>3, <3>4, LibraryAssumption
  <2>3. CASE p # Top
    <3>1. p \in Live(cs) /\ Depth(cs, p) < MaxDepth
      BY <2>3 DEF ParentIsFit, CanHoldChildren
    <3> DEFINE U == Up(cs, p)
    <3>2. U \in SUBSET Live(cs) /\ Up(ds, c) \subseteq U \cup {c} /\ c \notin U
      BY <2>1 DEF Up
    <3>3. Cardinality(U) < MaxDepth
      BY <3>1, DepthIsUp
    <3> HIDE DEF U
    <3>4. IsFiniteSet(U) /\ Cardinality(U) \in Nat
      BY <3>2, LivePart
    <3>5. IsFiniteSet(U \cup {c}) /\ Cardinality(U \cup {c}) = Cardinality(U) + 1
      BY <3>2, <3>4, FS_AddElement
    <3>6. Cardinality(Up(ds, c)) <= Cardinality(U \cup {c}) /\ Cardinality(Up(ds, c)) \in Nat
      BY <3>2, <3>5, FS_Subset, FS_CardinalityType
    <3> QED BY <3>3, <3>4, <3>5, <3>6, LibraryAssumption
  <2> QED BY <2>2, <2>3
<1>4. \A x \in G : Cardinality(Up(ds, x)) <= MaxDepth
  BY <1>3
<1> HIDE DEF G
<1> QED BY <1>2, <1>4, GraftedIsTrees

(* c hangs on p instead.                                                   *)
Moved(cs, ds, c, p) ==
    /\ Live(ds) = Live(cs) /\ c \in Live(cs)
    /\ \A d \in Live(cs) \ {c} : ds[d].parent = cs[d].parent
    /\ ds[c].parent = p

(* What hangs on the others afterwards, and on those that moved along.     *)
LEMMA MovedBelow ==
  ASSUME NEW cs, NEW ds, NEW c, NEW p, Moved(cs, ds, c, p),
         p \in (Live(cs) \ Subtree(cs, c)) \cup {Top}, Top \notin Live(cs)
  PROVE  /\ \A d \in Live(cs) : Subtree(ds, d) \subseteq Subtree(cs, d) \cup Subtree(cs, c)
         /\ \A d \in Subtree(cs, c) : Subtree(ds, d) \subseteq Subtree(cs, d)
         /\ \A d \in Live(cs) : p \notin Subtree(cs, d) =>
                Subtree(ds, d) \subseteq Subtree(cs, d)
         /\ \A d \in Live(cs) \ Subtree(cs, c) : p \notin Subtree(cs, d) =>
                Subtree(ds, d) \cap Subtree(cs, c) = {}
<1> USE DEF Moved
<1> DEFINE own == Subtree(cs, c)
<1>0. c \in own /\ own \subseteq Live(cs) /\ p \notin own
  BY RootIsBelow DEF Subtree
<1>1. ASSUME NEW d \in Live(cs) PROVE Subtree(ds, d) \subseteq Subtree(cs, d) \cup own
  <2> DEFINE T == Subtree(cs, d) \cup own
  <2>1. T \in SUBSET Live(ds) /\ d \in T
    BY RootIsBelow DEF Subtree
  <2>2. ASSUME NEW z \in Live(ds) \ T PROVE ds[z].parent \notin T
    BY <1>0, <2>2, BelowIsClosed DEF Subtree
  <2> HIDE DEF T
  <2>3. Below(ds, Live(ds), d) \subseteq T
    BY <2>1, <2>2, BelowIsLeast
  <2> QED BY <2>3 DEF T, Subtree
<1>2. ASSUME NEW d \in Live(cs), p \notin Subtree(cs, d)
      PROVE  Subtree(ds, d) \subseteq Subtree(cs, d)
  <2> DEFINE T == Subtree(cs, d)
  <2>1. T \in SUBSET Live(ds) /\ d \in T
    BY RootIsBelow DEF Subtree
  <2>2. ASSUME NEW z \in Live(ds) \ T PROVE ds[z].parent \notin T
    BY <1>2, <2>2, BelowIsClosed DEF Subtree
  <2> HIDE DEF T
  <2>3. Below(ds, Live(ds), d) \subseteq T
    BY <2>1, <2>2, BelowIsLeast
  <2> QED BY <2>3 DEF T, Subtree
<1>3. ASSUME NEW d \in own PROVE Subtree(ds, d) \subseteq Subtree(cs, d)
  <2>1. Subtree(cs, d) \subseteq own
    BY BelowIsNested DEF Subtree
  <2> QED BY <1>0, <1>2, <2>1
<1>4. ASSUME NEW d \in Live(cs) \ own, p \notin Subtree(cs, d)
      PROVE  Subtree(ds, d) \cap own = {}
  <2> DEFINE T == Subtree(cs, d) \ own
  <2>1. T \in SUBSET Live(ds) /\ d \in T
    BY <1>4, RootIsBelow DEF Subtree
  <2>2. ASSUME NEW z \in Live(ds) \ T PROVE ds[z].parent \notin T
    <3>1. CASE z = c
      BY <1>4, <3>1
    <3>2. CASE z # c /\ z \in own
      <4>1. cs[z].parent \in own
        BY <3>2, BelowByParent DEF Subtree
      <4> QED BY <3>2, <4>1
    <3>3. CASE z # c /\ z \notin own
      <4>1. z \notin Subtree(cs, d)
        BY <2>2, <3>3
      <4> QED BY <3>3, <4>1, BelowIsClosed DEF Subtree
    <3> QED BY <3>1, <3>2, <3>3
  <2> HIDE DEF T
  <2>3. Below(ds, Live(ds), d) \subseteq T
    BY <2>1, <2>2, BelowIsLeast
  <2> QED BY <2>3 DEF T, Subtree
<1> QED BY <1>1, <1>2, <1>3, <1>4

(* A move that fits keeps the trees.                                       *)
LEMMA MovedIsTrees ==
  ASSUME NEW cs, ColsOK(cs), Trees(cs), NEW ds, ColsOK(ds), NEW c, NEW p,
         Moved(cs, ds, c, p), PlaceIsFit(cs, c, p)
  PROVE  Trees(ds)
<1> DEFINE own == Subtree(cs, c)
<1>0. /\ p \in (Live(cs) \ own) \cup {Top} /\ Top \notin Live(cs)
      /\ c \in own /\ own \subseteq Live(cs) /\ p \notin own
  BY RootIsBelow, LiveFinite DEF Subtree, PlaceIsFit, Moved
<1>7. /\ \A d \in Live(cs) : Subtree(ds, d) \subseteq Subtree(cs, d) \cup own
      /\ \A d \in own : Subtree(ds, d) \subseteq Subtree(cs, d)
      /\ \A d \in Live(cs) \ own : p \notin Subtree(cs, d) => Subtree(ds, d) \cap own = {}
  <2>1. p \in (Live(cs) \ Subtree(cs, c)) \cup {Top}
    BY <1>0
  <2> QED BY <1>0, <2>1, MovedBelow
<1> USE DEF Moved
<1>1. ASSUME NEW x \in Live(cs) PROVE ds[x].parent \in Live(ds) \cup {Top}
  BY <1>0 DEF Trees, Rooted
<1>2. ASSUME NEW x \in Live(cs) PROVE ds[x].parent \notin Subtree(ds, x)
  <2>1. cs[x].parent \notin Subtree(cs, x)
    BY DEF Trees, Acyclic
  <2>2. CASE x \in own
    <3>1. Subtree(ds, x) \subseteq Subtree(cs, x)
      BY <1>7, <2>2
    <3>2. Subtree(cs, x) \subseteq own
      BY <2>2, BelowIsNested DEF Subtree
    <3>3. CASE x = c
      BY <1>0, <3>1, <3>2, <3>3
    <3>4. CASE x # c
      BY <2>1, <3>1, <3>4
    <3> QED BY <3>3, <3>4
  <2>3. CASE x \notin own
    <3>1. Subtree(ds, x) \subseteq Subtree(cs, x) \cup own
      BY <1>7
    <3>2. cs[x].parent \notin own /\ x # c
      BY <1>0, <2>3, BelowIsClosed DEF Subtree
    <3> QED BY <2>1, <3>1, <3>2
  <2> QED BY <2>2, <2>3
<1>3. ASSUME NEW x \in Live(cs) \ own PROVE Up(ds, x) \subseteq Up(cs, x)
  BY <1>0, <1>7, MovedBelow DEF Up
<1>4. ASSUME NEW x \in own PROVE Cardinality(Up(ds, x)) <= MaxDepth
  <2> DEFINE U == Up(cs, x) \cap own
  <2>0. U \in SUBSET Live(cs) /\ Up(cs, x) \in SUBSET Live(cs)
    BY DEF Up
  <2>1. ASSUME NEW d \in Up(ds, x) PROVE d \in U \/ (p # Top /\ d \in Up(cs, p))
    <3>1. d \in Live(cs) /\ x \in Subtree(ds, d)
      BY DEF Up
    <3>2. CASE d \in own
      BY <1>7, <3>1, <3>2 DEF Up
    <3>3. CASE d \notin own
      <4>1. p \in Subtree(cs, d)
        <5> SUFFICES ASSUME p \notin Subtree(cs, d) PROVE FALSE
          OBVIOUS
        <5>1. Subtree(ds, d) \cap own = {}
          BY <1>7, <3>1, <3>3
        <5> QED BY <3>1, <5>1
      <4>2. p \in Live(cs)
        BY <3>1, <4>1, RootIsBelow DEF Subtree
      <4> QED BY <1>0, <3>1, <4>1, <4>2 DEF Up
    <3> QED BY <3>2, <3>3
  <2>2. CASE p = Top
    <3>1. Up(ds, x) \subseteq Up(cs, x)
      BY <2>1, <2>2
    <3>2. Cardinality(Up(ds, x)) <= Cardinality(Up(cs, x))
      BY <2>0, <3>1, PartIsSmaller
    <3>3. Cardinality(Up(cs, x)) \in Nat /\ Cardinality(Up(ds, x)) \in Nat
      BY <2>0, <3>1, LivePart
    <3>4. Cardinality(Up(cs, x)) <= MaxDepth
      BY <1>0 DEF Trees, Shallow
    <3> QED BY <3>2, <3>3, <3>4, LibraryAssumption
  <2>3. CASE p # Top
    <3> DEFINE V == Up(cs, p)
    <3>1. V \in SUBSET Live(cs) /\ Up(ds, x) \subseteq V \cup U
      BY <2>1 DEF Up
    <3>2. Cardinality(V) + Height(cs, c) <= MaxDepth
      <4>1. p \in Live(cs) /\ Depth(cs, p) + Height(cs, c) <= MaxDepth
        BY <2>3 DEF PlaceIsFit
      <4> QED BY <4>1, DepthIsUp
    <3>3. Cardinality(U) <= Height(cs, c) /\ Height(cs, c) \in Nat
      BY HeightBounds
    <3> HIDE DEF V, U
    <3>4. V \cup U \in SUBSET Live(cs)
      BY <2>0, <3>1
    <3>5. Cardinality(Up(ds, x)) <= Cardinality(V \cup U)
      BY <3>1, <3>4, PartIsSmaller
    <3>6. Cardinality(V \cup U) <= Cardinality(V) + Cardinality(U)
      BY <2>0, <3>1, LivePart, UnionIsSmaller
    <3>7. /\ Cardinality(V) \in Nat /\ Cardinality(U) \in Nat
          /\ Cardinality(V \cup U) \in Nat /\ Cardinality(Up(ds, x)) \in Nat
      BY <2>0, <3>1, <3>4, LivePart
    <3> QED BY <3>2, <3>3, <3>5, <3>6, <3>7, LibraryAssumption
  <2> QED BY <2>2, <2>3
<1>5. ASSUME NEW x \in Live(cs) \ own PROVE Cardinality(Up(ds, x)) <= MaxDepth
  <2>1. Up(cs, x) \in SUBSET Live(cs) /\ Up(ds, x) \subseteq Up(cs, x)
    BY <1>3 DEF Up
  <2>2. Cardinality(Up(ds, x)) <= Cardinality(Up(cs, x))
    BY <2>1, PartIsSmaller
  <2>3. Cardinality(Up(cs, x)) \in Nat /\ Cardinality(Up(ds, x)) \in Nat
    BY <2>1, LivePart
  <2>4. Cardinality(Up(cs, x)) <= MaxDepth
    BY DEF Trees, Shallow
  <2> QED BY <2>2, <2>3, <2>4, LibraryAssumption
<1>6. ASSUME NEW x \in Live(cs) PROVE Cardinality(Up(ds, x)) <= MaxDepth
  BY <1>4, <1>5
<1> QED BY <1>1, <1>2, <1>6 DEF Trees, Rooted, Acyclic, Shallow

-----------------------------------------------------------------------------
(* Siblings in their order.                                                *)

(* The members of S that come before c, and their number.                  *)
Predecessors(cs, S, c) == {d \in S : Before(cs, d, c)}
Rank(cs, S) == [c \in S |-> Cardinality(Predecessors(cs, S, c))]

(* Position and id order any collections.                                  *)
LEMMA BeforeIsOrder ==
  ASSUME NEW cs, ColsOK(cs), NEW a \in DOMAIN cs, NEW b \in DOMAIN cs, NEW c \in DOMAIN cs
  PROVE  /\ ~ Before(cs, a, a)
         /\ a # b => Before(cs, a, b) \/ Before(cs, b, a)
         /\ Before(cs, a, b) /\ Before(cs, b, c) => Before(cs, a, c)
         /\ ~ (Before(cs, a, b) /\ Before(cs, b, a))
<1>1. /\ a \in Nat /\ b \in Nat /\ c \in Nat
      /\ cs[a].position \in Nat /\ cs[b].position \in Nat /\ cs[c].position \in Nat
  <2>1. a \in 1 .. Len(cs) /\ b \in 1 .. Len(cs) /\ c \in 1 .. Len(cs) /\ Len(cs) \in Nat
    BY LiveFinite
  <2>2. cs[a] \in Collections /\ cs[b] \in Collections /\ cs[c] \in Collections
    BY <2>1 DEF ColsOK
  <2>3. \A r \in Collections : r.position \in Nat
    BY DEF Collections
  <2> QED BY <2>1, <2>2, <2>3
<1> QED BY <1>1 DEF Before

(* Each member has a rank of its own, and each rank is taken.              *)
LEMMA RankIsBijection ==
  ASSUME NEW cs, ColsOK(cs), NEW S \in SUBSET DOMAIN cs
  PROVE  /\ IsFiniteSet(S) /\ Cardinality(S) \in Nat
         /\ Rank(cs, S) \in Injection(S, 0 .. Cardinality(S) - 1)
         /\ Rank(cs, S) \in Surjection(S, 0 .. Cardinality(S) - 1)
<1>0. IsFiniteSet(S) /\ Cardinality(S) \in Nat
  <2>1. DOMAIN cs = 1 .. Len(cs) /\ Len(cs) \in Nat
    BY LiveFinite
  <2>2. IsFiniteSet(DOMAIN cs)
    BY <2>1, FS_Interval
  <2>3. IsFiniteSet(S)
    BY <2>2, FS_Subset
  <2> QED BY <2>3, FS_CardinalityType
<1> DEFINE n == Cardinality(S)
           r == Rank(cs, S)
           before(c) == Predecessors(cs, S, c)
<1>1. ASSUME NEW c \in S
      PROVE  /\ before(c) \subseteq S \ {c} /\ IsFiniteSet(before(c))
             /\ Cardinality(before(c)) \in 0 .. n - 1
  <2>1. before(c) \subseteq S \ {c}
    BY BeforeIsOrder DEF Predecessors
  <2> HIDE DEF before
  <2>2. IsFiniteSet(S \ {c}) /\ Cardinality(S \ {c}) = n - 1
    BY <1>0, FS_RemoveElement
  <2>3. IsFiniteSet(before(c)) /\ Cardinality(before(c)) <= n - 1
    BY <2>1, <2>2, FS_Subset
  <2>4. Cardinality(before(c)) \in Nat
    BY <2>3, FS_CardinalityType
  <2> QED BY <1>0, <2>1, <2>3, <2>4
<1>2. ASSUME NEW c \in S, NEW d \in S, Before(cs, c, d)
      PROVE  Cardinality(before(c)) # Cardinality(before(d))
  <2>1. before(c) \subseteq before(d) /\ c \in before(d) /\ c \notin before(c)
    BY <1>2, BeforeIsOrder DEF Predecessors
  <2> HIDE DEF before
  <2> QED BY <1>1, <2>1, FS_Subset
<1>3. r \in [S -> 0 .. n - 1]
  BY <1>1 DEF Rank
<1>4. ASSUME NEW c \in S, NEW d \in S, r[c] = r[d] PROVE c = d
  <2>1. Cardinality(before(c)) = Cardinality(before(d))
    BY <1>4 DEF Rank
  <2> HIDE DEF before
  <2> QED BY <1>2, <2>1, BeforeIsOrder
<1> HIDE DEF r
<1>5. r \in Injection(S, 0 .. n - 1)
  BY <1>3, <1>4, Fun_IsInj
<1>6. IsFiniteSet(0 .. n - 1) /\ Cardinality(0 .. n - 1) = n
  <2> DEFINE z == n - 1
  <2>1. z \in Int /\ 0 \in Int /\ n \in Nat /\ (0 > z => n = 0) /\ z - 0 + 1 = n
    BY <1>0
  <2> HIDE DEF z, n
  <2>2. IsFiniteSet(0 .. z) /\ Cardinality(0 .. z) = IF 0 > z THEN 0 ELSE z - 0 + 1
    BY <2>1, FS_Interval
  <2> QED BY <2>1, <2>2 DEF z
<1>7. r \in Surjection(S, 0 .. n - 1)
  BY <1>5, <1>6, FS_Injection
<1> QED BY <1>0, <1>5, <1>7 DEF r

(* The order is a sequence of the members, each at its rank.               *)
LEMMA InOrderRanks ==
  ASSUME NEW cs, ColsOK(cs), NEW S \in SUBSET DOMAIN cs
  PROVE  /\ InOrder(cs, S) \in Seq(S) /\ Len(InOrder(cs, S)) = Cardinality(S)
         /\ \A i \in 1 .. Cardinality(S) :
                InOrder(cs, S)[i] \in S /\ Rank(cs, S)[InOrder(cs, S)[i]] = i - 1
<1>0. Cardinality(S) \in Nat
  BY RankIsBijection
<1>1. ASSUME NEW i \in 1 .. Cardinality(S)
      PROVE  InOrder(cs, S)[i] \in S /\ Rank(cs, S)[InOrder(cs, S)[i]] = i - 1
  <2>1. i - 1 \in 0 .. Cardinality(S) - 1
    BY <1>0
  <2>2. PICK c \in S : Rank(cs, S)[c] = i - 1
    <3> DEFINE r == Rank(cs, S)
               ranks == 0 .. Cardinality(S) - 1
    <3>1. r \in Surjection(S, ranks)
      BY RankIsBijection
    <3>2. i - 1 \in ranks
      BY <2>1
    <3> HIDE DEF r, ranks
    <3>3. \E c \in S : r[c] = i - 1
      BY <3>1, <3>2, Fun_SurjectionProperties
    <3> QED BY <3>3 DEF r
  <2>3. \E d \in S : Cardinality({e \in S : Before(cs, e, d)}) = i - 1
    BY <2>2 DEF Rank, Predecessors
  <2>4. InOrder(cs, S)[i] = CHOOSE d \in S : Cardinality({e \in S : Before(cs, e, d)}) = i - 1
    BY DEF InOrder
  <2> QED BY <2>3, <2>4 DEF Rank, Predecessors
<1>2. InOrder(cs, S) \in [1 .. Cardinality(S) -> S]
  BY <1>1 DEF InOrder
<1> QED BY <1>0, <1>1, <1>2

-----------------------------------------------------------------------------
(* What every write leaves of the collections.                             *)

(* Collections that went together: the live ones, or those of one delete.  *)
Together(cs, stamp) == {c \in DOMAIN cs : cs[c].dead = stamp}

(* Siblings that live, or went together, differ in their names.            *)
NamesDiffer(cs) ==
    \A c, d \in DOMAIN cs :
        /\ cs[c].dead = cs[d].dead
        /\ cs[c].parent = cs[d].parent
        /\ cs[c].name = cs[d].name
        => c = d

(* What went together hangs together on the collection that was deleted.   *)
HangTogether(cs) ==
    \A c \in DOMAIN cs : cs[c].dead # 0 =>
        LET stamp == cs[c].dead
        IN  stamp \in Together(cs, stamp)
            /\ Below(cs, Together(cs, stamp), stamp) = Together(cs, stamp)

ColsSound(cs) == ColsOK(cs) /\ Trees(cs) /\ NamesDiffer(cs) /\ HangTogether(cs)

(* The live ones are those that never went or came back.                   *)
LEMMA LiveIsTogether ==
  ASSUME NEW cs PROVE Live(cs) = Together(cs, 0)
BY DEF Live, Together

(* What is below a collection depends on the parents alone.                *)
LEMMA SameBelow ==
  ASSUME NEW cs, NEW ds, NEW S, NEW c \in S, \A x \in S : ds[x].parent = cs[x].parent
  PROVE  Below(ds, S, c) = Below(cs, S, c)
<1>1. Below(ds, S, c) \subseteq Below(cs, S, c)
  BY FewerBelow
<1>2. Below(cs, S, c) \subseteq Below(ds, S, c)
  BY FewerBelow
<1> QED BY <1>1, <1>2

(* The dead are not touched: they hang together as before.                 *)
LEMMA DeadKept ==
  ASSUME NEW cs, HangTogether(cs), NEW ds,
         \A c \in DOMAIN ds : ds[c].dead # 0 =>
            c \in DOMAIN cs /\ ds[c].dead = cs[c].dead /\ ds[c].parent = cs[c].parent,
         \A c \in DOMAIN cs : cs[c].dead # 0 => c \in DOMAIN ds /\ ds[c].dead = cs[c].dead
  PROVE  HangTogether(ds)
<1> SUFFICES ASSUME NEW c \in DOMAIN ds, ds[c].dead # 0
             PROVE  /\ ds[c].dead \in Together(ds, ds[c].dead)
                    /\ Below(ds, Together(ds, ds[c].dead), ds[c].dead)
                          = Together(ds, ds[c].dead)
  BY DEF HangTogether
<1> DEFINE stamp == ds[c].dead
           G == Together(cs, stamp)
<1>1. c \in DOMAIN cs /\ cs[c].dead = stamp /\ stamp # 0
  OBVIOUS
<1>2. stamp \in G /\ Below(cs, G, stamp) = G
  BY <1>1 DEF HangTogether
<1>3. Together(ds, stamp) = G
  BY <1>1 DEF Together
<1>4. \A x \in G : ds[x].parent = cs[x].parent
  BY <1>1 DEF Together
<1> HIDE DEF G
<1>5. Below(ds, G, stamp) = G
  BY <1>2, <1>4, SameBelow
<1> QED BY <1>2, <1>3, <1>5

(* A new collection under a fit parent with a free name.                   *)
LEMMA AppendedIsSound ==
  ASSUME NEW cs, ColsSound(cs), NEW name \in Names, NEW p, NEW position \in Nat,
         ParentIsFit(cs, p), NameIsFree(cs, name, p, 0)
  PROVE  ColsSound(Append(cs, Record(name, p, position)))
<1> DEFINE new == Record(name, p, position)
           ds == Append(cs, new)
           c == Len(cs) + 1
<1>0. /\ ColsOK(cs) /\ Len(cs) \in Nat /\ DOMAIN cs = 1 .. Len(cs)
      /\ Live(cs) \subseteq 1 .. Len(cs)
  BY LiveFinite DEF ColsSound
<1>1. p \in 0 .. Len(cs) /\ p \in Live(cs) \cup {Top}
  BY <1>0 DEF ParentIsFit, Top
<1>2. new \in Collections /\ new.parent = p /\ new.name = name /\ new.dead = 0
  BY <1>0, <1>1 DEF Record, Collections
<1> HIDE DEF new
<1>3. /\ ds \in Seq(Collections) /\ Len(ds) = Len(cs) + 1 /\ DOMAIN ds = 1 .. Len(cs) + 1
      /\ \A d \in 1 .. Len(cs) : ds[d] = cs[d]
      /\ ds[c] = new
  BY <1>0, <1>2 DEF ColsOK
<1> HIDE DEF ds
<1>4. ColsOK(ds)
  BY <1>0, <1>1, <1>2, <1>3 DEF ColsOK
<1>5. /\ Live(ds) = Live(cs) \cup {c} /\ c \notin Live(cs) /\ c # Top
      /\ c \in DOMAIN ds /\ c \notin DOMAIN cs
  BY <1>0, <1>2, <1>3 DEF Live, Top
<1>6. \A d \in DOMAIN ds : d # c => d \in DOMAIN cs /\ ds[d] = cs[d]
  BY <1>0, <1>3
<1>7. Trees(ds)
  <2>1. \A d \in Live(cs) : ds[d].parent = cs[d].parent
    BY <1>0, <1>3
  <2>2. ParentIsFit(cs, ds[c].parent)
    BY <1>2, <1>3
  <2> HIDE DEF c
  <2> QED BY <1>4, <1>5, <2>1, <2>2, CreatedIsTrees DEF ColsSound
<1>8. NamesDiffer(ds)
  <2>1. ASSUME NEW d \in DOMAIN ds, d # c, ds[d].dead = 0, ds[d].parent = p
        PROVE  ds[d].name # name
    <3>1. d \in Live(cs) /\ cs[d].parent = p /\ cs[d].name = ds[d].name /\ d # 0
      BY <1>0, <1>6, <2>1 DEF Live
    <3> QED BY <3>1 DEF NameIsFree, ChildrenOf
  <2>2. \A d, e \in DOMAIN cs :
           /\ cs[d].dead = cs[e].dead
           /\ cs[d].parent = cs[e].parent
           /\ cs[d].name = cs[e].name
           => d = e
    BY DEF ColsSound, NamesDiffer
  <2> HIDE DEF c
  <2> QED BY <1>2, <1>3, <1>6, <2>1, <2>2 DEF NamesDiffer
<1>9. HangTogether(ds)
  <2>1. \A d \in DOMAIN cs : d \in DOMAIN ds /\ ds[d] = cs[d]
    BY <1>0, <1>3
  <2>2. ds[c].dead = 0
    BY <1>2, <1>3
  <2> HIDE DEF c
  <2> QED BY <1>6, <2>1, <2>2, DeadKept DEF ColsSound
<1> QED BY <1>4, <1>7, <1>8, <1>9 DEF ColsSound, ds, new

(* Collections that kept their parents and whether they live are sound as  *)
(* long as their names differ.                                             *)
LEMMA AlikeIsSound ==
  ASSUME NEW cs, ColsSound(cs), NEW ds \in Seq(Collections), Len(ds) = Len(cs),
         \A d \in DOMAIN cs : ds[d].dead = cs[d].dead /\ ds[d].parent = cs[d].parent,
         NamesDiffer(ds)
  PROVE  ColsSound(ds)
<1>0. DOMAIN ds = DOMAIN cs /\ ColsOK(cs)
  BY DEF ColsSound, ColsOK
<1>1. ColsOK(ds)
  BY <1>0 DEF ColsOK
<1>2. SameTrees(cs, ds)
  BY <1>0 DEF SameTrees, Live
<1>3. Trees(ds)
  BY <1>2, SameTreesKept DEF ColsSound
<1>4. HangTogether(ds)
  BY <1>0, DeadKept DEF ColsSound
<1> QED BY <1>1, <1>3, <1>4 DEF ColsSound

(* A collection is renamed to a name no sibling has.                       *)
LEMMA RenamedIsSound ==
  ASSUME NEW cs, ColsSound(cs), NEW c \in Live(cs), NEW name \in Names,
         NameIsFree(cs, name, cs[c].parent, c)
  PROVE  ColsSound([cs EXCEPT ![c].name = name])
<1> DEFINE ds == [cs EXCEPT ![c].name = name]
<1>0. c \in DOMAIN cs /\ cs[c].dead = 0 /\ cs \in Seq(Collections)
  BY DEF Live, ColsSound, ColsOK
<1>1. /\ ds \in Seq(Collections) /\ Len(ds) = Len(cs) /\ DOMAIN ds = DOMAIN cs
      /\ \A d \in DOMAIN cs : ds[d].dead = cs[d].dead /\ ds[d].parent = cs[d].parent
      /\ \A d \in DOMAIN cs \ {c} : ds[d].name = cs[d].name
      /\ ds[c].name = name
  <2> DEFINE r == [cs[c] EXCEPT !.name = name]
  <2>1. /\ r \in Collections /\ r.name = name
        /\ r.dead = cs[c].dead /\ r.parent = cs[c].parent
    <3>1. cs[c] \in Collections
      BY <1>0
    <3> QED BY <3>1 DEF Collections
  <2>2. ds = [cs EXCEPT ![c] = r]
    OBVIOUS
  <2> HIDE DEF ds, r
  <2> QED BY <1>0, <2>1, <2>2
<1> HIDE DEF ds
<1>2. ASSUME NEW d \in DOMAIN cs, d # c, cs[d].dead = 0, cs[d].parent = cs[c].parent
      PROVE  cs[d].name # name
  <2>1. d \in ChildrenOf(cs, cs[c].parent)
    BY <1>2 DEF ChildrenOf, Live
  <2> QED BY <1>2, <2>1 DEF NameIsFree
<1>3. NamesDiffer(ds)
  <2> SUFFICES ASSUME NEW d \in DOMAIN cs, NEW e \in DOMAIN cs,
                      ds[d].dead = ds[e].dead, ds[d].parent = ds[e].parent,
                      ds[d].name = ds[e].name, d # e
               PROVE  FALSE
    BY <1>1 DEF NamesDiffer
  <2>1. cs[d].dead = cs[e].dead /\ cs[d].parent = cs[e].parent
    BY <1>1
  <2>2. CASE d = c
    BY <1>0, <1>1, <1>2, <2>1, <2>2
  <2>3. CASE e = c
    BY <1>0, <1>1, <1>2, <2>1, <2>3
  <2>4. CASE d # c /\ e # c
    BY <1>1, <2>1, <2>4 DEF NamesDiffer, ColsSound
  <2> QED BY <2>2, <2>3, <2>4
<1> QED BY <1>1, <1>3, AlikeIsSound DEF ds

(* Numbering anew touches the positions alone.                             *)
LEMMA RenumberedKeeps ==
  ASSUME NEW cs \in Seq(Collections), NEW S, NEW order \in Seq(S)
  PROVE  /\ Renumbered(cs, order) \in Seq(Collections)
         /\ Len(Renumbered(cs, order)) = Len(cs)
         /\ \A d \in DOMAIN cs :
                /\ Renumbered(cs, order)[d].dead = cs[d].dead
                /\ Renumbered(cs, order)[d].parent = cs[d].parent
                /\ Renumbered(cs, order)[d].name = cs[d].name
<1> DEFINE ds == Renumbered(cs, order)
<1>0. DOMAIN cs = 1 .. Len(cs) /\ Len(cs) \in Nat /\ DOMAIN ds = DOMAIN cs
  BY DEF Renumbered
<1>1. ASSUME NEW d \in DOMAIN cs
      PROVE  /\ ds[d] \in Collections
             /\ ds[d].dead = cs[d].dead
             /\ ds[d].parent = cs[d].parent
             /\ ds[d].name = cs[d].name
  <2>0. cs[d] \in Collections
    BY <1>0
  <2>1. CASE d \in Range(order)
    <3> DEFINE k == CHOOSE k \in DOMAIN order : order[k] = d
    <3>1. \E j \in DOMAIN order : order[j] = d
      BY <2>1 DEF Range
    <3>2. k \in DOMAIN order
      BY <3>1
    <3>3. k - 1 \in Nat
      BY <3>2
    <3>4. ds[d] = [cs[d] EXCEPT !.position = k - 1]
      BY <2>1 DEF Renumbered
    <3> HIDE DEF k, ds
    <3> QED BY <2>0, <3>3, <3>4 DEF Collections
  <2>2. CASE d \notin Range(order)
    <3>1. ds[d] = cs[d]
      BY <2>2 DEF Renumbered
    <3> QED BY <2>0, <3>1
  <2> QED BY <2>1, <2>2
<1> HIDE DEF ds
<1>2. ds \in Seq(Collections) /\ Len(ds) = Len(cs)
  <2>1. ds \in [1 .. Len(cs) -> Collections]
    <3>1. ds = [d \in DOMAIN cs |-> ds[d]]
      BY DEF ds, Renumbered
    <3> QED BY <1>0, <1>1, <3>1
  <2> QED BY <1>0, <2>1
<1> QED BY <1>1, <1>2 DEF ds

(* The others are a sequence of their own.                                 *)
LEMMA OthersAreSequence ==
  ASSUME NEW cs, ColsOK(cs), NEW p, NEW c
  PROVE  /\ Others(cs, p, c) \in Seq(ChildrenOf(cs, p) \ {c})
         /\ Len(Others(cs, p, c)) \in Nat
<1>1. ChildrenOf(cs, p) \ {c} \in SUBSET DOMAIN cs
  BY DEF ChildrenOf, Live
<1>2. Others(cs, p, c) \in Seq(ChildrenOf(cs, p) \ {c})
  BY <1>1, InOrderRanks DEF Others
<1> QED BY <1>2

(* A move hangs c on p and renumbers.                                      *)
LEMMA PlacedKeeps ==
  ASSUME NEW cs, ColsOK(cs), NEW c \in DOMAIN cs, NEW p \in Nat, NEW i \in Nat
  PROVE  /\ Placed(cs, c, p, i) \in Seq(Collections)
         /\ Len(Placed(cs, c, p, i)) = Len(cs)
         /\ \A d \in DOMAIN cs :
                /\ Placed(cs, c, p, i)[d].dead = cs[d].dead
                /\ Placed(cs, c, p, i)[d].name = cs[d].name
                /\ d # c => Placed(cs, c, p, i)[d].parent = cs[d].parent
         /\ Placed(cs, c, p, i)[c].parent = p
<1> DEFINE others == Others(cs, p, c)
           index == Min({i, Len(others)})
           hung == [cs EXCEPT ![c].parent = p]
           order == InsertAt(others, index + 1, c)
           here == Renumbered(hung, order)
           left == Others(cs, cs[c].parent, c)
<1>1. /\ hung \in Seq(Collections) /\ Len(hung) = Len(cs) /\ DOMAIN hung = DOMAIN cs
      /\ \A d \in DOMAIN cs :
             /\ hung[d].dead = cs[d].dead
             /\ hung[d].name = cs[d].name
             /\ hung[d].parent = IF d = c THEN p ELSE cs[d].parent
  <2> DEFINE r == [cs[c] EXCEPT !.parent = p]
  <2>1. /\ r \in Collections /\ r.parent = p
        /\ r.dead = cs[c].dead /\ r.name = cs[c].name
    <3>1. cs[c] \in Collections
      BY DEF ColsOK
    <3> QED BY <3>1 DEF Collections
  <2>2. hung = [cs EXCEPT ![c] = r]
    OBVIOUS
  <2> HIDE DEF hung, r
  <2> QED BY <2>1, <2>2 DEF ColsOK
<1>2. others \in Seq(DOMAIN cs) /\ Len(others) \in Nat
  <2>1. ChildrenOf(cs, p) \ {c} \in SUBSET DOMAIN cs
    BY DEF ChildrenOf, Live
  <2>2. others \in Seq(ChildrenOf(cs, p) \ {c}) /\ Len(others) \in Nat
    BY OthersAreSequence
  <2> HIDE DEF others
  <2> QED BY <2>1, <2>2
<1>3. left \in Seq(ChildrenOf(cs, cs[c].parent) \ {c})
  BY OthersAreSequence
<1> HIDE DEF others, left, hung
<1>4. index \in Nat /\ index <= Len(others)
  <2>1. \E m \in {i, Len(others)} : \A k \in {i, Len(others)} : m <= k
    BY <1>2
  <2>2. /\ index \in {i, Len(others)} /\ \A k \in {i, Len(others)} : index <= k
    BY <2>1 DEF Min
  <2> QED BY <1>2, <2>2
<1> HIDE DEF index
<1>5. order \in Seq(DOMAIN cs)
  <2>1. <<c>> \in Seq(DOMAIN cs)
    OBVIOUS
  <2>2. SubSeq(others, 1, index) \in Seq(DOMAIN cs)
    BY <1>2, <1>4
  <2>3. SubSeq(others, index + 1, Len(others)) \in Seq(DOMAIN cs)
    BY <1>2, <1>4
  <2>4. order = SubSeq(others, 1, index) \o <<c>> \o SubSeq(others, index + 1, Len(others))
    <3> DEFINE j == index + 1
    <3>1. j - 1 = index
      BY <1>4
    <3> HIDE DEF j
    <3>2. InsertAt(others, j, c) = SubSeq(others, 1, j - 1) \o <<c>>
                      \o SubSeq(others, j, Len(others))
      BY DEF InsertAt
    <3> QED BY <3>1, <3>2 DEF j
  <2>5. SubSeq(others, 1, index) \o <<c>> \in Seq(DOMAIN cs)
    BY <2>1, <2>2
  <2> HIDE DEF order
  <2> QED BY <2>3, <2>4, <2>5
<1> HIDE DEF order
<1>6. /\ here \in Seq(Collections) /\ Len(here) = Len(cs) /\ DOMAIN here = DOMAIN cs
      /\ \A d \in DOMAIN cs :
             /\ here[d].dead = cs[d].dead
             /\ here[d].name = cs[d].name
             /\ here[d].parent = IF d = c THEN p ELSE cs[d].parent
  <2>1. /\ here \in Seq(Collections) /\ Len(here) = Len(hung)
        /\ \A d \in DOMAIN hung :
               /\ here[d].dead = hung[d].dead
               /\ here[d].parent = hung[d].parent
               /\ here[d].name = hung[d].name
    BY <1>1, <1>5, RenumberedKeeps
  <2> HIDE DEF here
  <2>2. DOMAIN here = DOMAIN hung
    BY <1>1, <2>1
  <2> QED BY <1>1, <2>1, <2>2
<1> HIDE DEF here
<1>7. CASE cs[c].parent = p
  <2>1. Placed(cs, c, p, i) = here
    BY <1>7 DEF Placed, here, hung, order, index, others
  <2> QED BY <1>6, <2>1
<1>8. CASE cs[c].parent # p
  <2>1. Placed(cs, c, p, i) = Renumbered(here, left)
    BY <1>8 DEF Placed, here, hung, order, index, others, left
  <2>2. /\ Renumbered(here, left) \in Seq(Collections)
        /\ Len(Renumbered(here, left)) = Len(here)
        /\ \A d \in DOMAIN here :
               /\ Renumbered(here, left)[d].dead = here[d].dead
               /\ Renumbered(here, left)[d].parent = here[d].parent
               /\ Renumbered(here, left)[d].name = here[d].name
    BY <1>3, <1>6, RenumberedKeeps
  <2> QED BY <1>6, <2>1, <2>2
<1> QED BY <1>7, <1>8

(* A collection moves where it fits and its name is free.                  *)
LEMMA MovedIsSound ==
  ASSUME NEW cs, ColsSound(cs), NEW c \in Live(cs), NEW p \in Nat, NEW i \in Nat,
         MayMove(cs, c, p)
  PROVE  ColsSound(Placed(cs, c, p, i))
<1> DEFINE ds == Placed(cs, c, p, i)
<1>0. /\ c \in DOMAIN cs /\ cs[c].dead = 0 /\ ColsOK(cs)
      /\ DOMAIN cs = 1 .. Len(cs) /\ Len(cs) \in Nat
      /\ Live(cs) \subseteq DOMAIN cs
  BY LiveFinite DEF Live, ColsSound
<1>1. /\ ds \in Seq(Collections) /\ Len(ds) = Len(cs)
      /\ \A d \in DOMAIN cs :
             /\ ds[d].dead = cs[d].dead
             /\ ds[d].name = cs[d].name
             /\ d # c => ds[d].parent = cs[d].parent
      /\ ds[c].parent = p
  <2> HIDE DEF ds
  <2>1. c \in DOMAIN cs /\ ColsOK(cs)
    BY <1>0
  <2>2. /\ Placed(cs, c, p, i) \in Seq(Collections)
        /\ Len(Placed(cs, c, p, i)) = Len(cs)
        /\ \A d \in DOMAIN cs :
                /\ Placed(cs, c, p, i)[d].dead = cs[d].dead
                /\ Placed(cs, c, p, i)[d].name = cs[d].name
                /\ d # c => Placed(cs, c, p, i)[d].parent = cs[d].parent
        /\ Placed(cs, c, p, i)[c].parent = p
    BY <2>1, PlacedKeeps
  <2> QED BY <2>2 DEF ds
<1> HIDE DEF ds
<1>2. DOMAIN ds = DOMAIN cs
  BY <1>0, <1>1
<1>3. PlaceIsFit(cs, c, p) /\ p \in 0 .. Len(cs)
  BY <1>0 DEF MayMove, PlaceIsFit, Top
<1>4. ColsOK(ds)
  BY <1>0, <1>1, <1>2, <1>3 DEF ColsOK
<1>5. Live(ds) = Live(cs)
  BY <1>1, <1>2 DEF Live
<1>6. Moved(cs, ds, c, p)
  BY <1>0, <1>1, <1>5 DEF Moved
<1>7. Trees(ds)
  BY <1>0, <1>3, <1>4, <1>6, MovedIsTrees DEF ColsSound
<1>8. ASSUME NEW d \in DOMAIN cs, d # c, cs[d].dead = 0, cs[d].parent = p
      PROVE  cs[d].name # cs[c].name
  <2>1. CASE cs[c].parent = p
    BY <1>0, <1>8, <2>1 DEF ColsSound, NamesDiffer
  <2>2. CASE cs[c].parent # p
    <3>1. NameIsFree(cs, cs[c].name, p, c) /\ d \in ChildrenOf(cs, p)
      BY <1>8, <2>2 DEF MayMove, ChildrenOf, Live
    <3> QED BY <1>8, <3>1 DEF NameIsFree
  <2> QED BY <2>1, <2>2
<1>9. NamesDiffer(ds)
  <2> SUFFICES ASSUME NEW d \in DOMAIN cs, NEW e \in DOMAIN cs,
                      ds[d].dead = ds[e].dead, ds[d].parent = ds[e].parent,
                      ds[d].name = ds[e].name, d # e
               PROVE  FALSE
    BY <1>2 DEF NamesDiffer
  <2>1. cs[d].dead = cs[e].dead /\ cs[d].name = cs[e].name
    BY <1>1
  <2>2. CASE d = c
    BY <1>0, <1>1, <1>8, <2>1, <2>2
  <2>3. CASE e = c
    BY <1>0, <1>1, <1>8, <2>1, <2>3
  <2>4. CASE d # c /\ e # c
    BY <1>1, <2>1, <2>4 DEF NamesDiffer, ColsSound
  <2> QED BY <2>2, <2>3, <2>4
<1>10. HangTogether(ds)
  BY <1>0, <1>1, <1>2, DeadKept DEF ColsSound
<1> QED BY <1>4, <1>7, <1>9, <1>10 DEF ColsSound, ds

(* What hangs on c hangs on c without the rest.                            *)
LEMMA BelowAlone ==
  ASSUME NEW cs, NEW S, NEW c \in S
  PROVE  Below(cs, Below(cs, S, c), c) = Below(cs, S, c)
<1> DEFINE own == Below(cs, S, c)
<1>1. c \in own /\ own \subseteq S
  BY RootIsBelow
<1>2. \A x \in S \ own : cs[x].parent \notin own
  BY BelowIsClosed
<1>3. ASSUME NEW T \in Closed(cs, own, c) PROVE own \subseteq T
  <2>1. T \in SUBSET own /\ c \in T /\ \A x \in own \ T : cs[x].parent \notin T
    BY DEF Closed
  <2> HIDE DEF own
  <2>2. T \in SUBSET S /\ \A x \in S \ T : cs[x].parent \notin T
    BY <1>1, <1>2, <2>1
  <2> QED BY <2>1, <2>2, BelowIsLeast DEF own
<1> HIDE DEF own
<1>4. \A x \in own : x \in Below(cs, own, c)
  BY <1>3 DEF Below
<1>5. Below(cs, own, c) \subseteq own
  BY <1>1, RootIsBelow
<1> QED BY <1>4, <1>5 DEF own

(* Marking touches the mark alone.                                         *)
LEMMA MarkedKeeps ==
  ASSUME NEW cs, ColsOK(cs), NEW gone \in SUBSET DOMAIN cs, NEW stamp \in Nat
  PROVE  /\ Marked(cs, gone, stamp) \in Seq(Collections)
         /\ Len(Marked(cs, gone, stamp)) = Len(cs)
         /\ DOMAIN Marked(cs, gone, stamp) = DOMAIN cs
         /\ \A d \in DOMAIN cs :
                /\ Marked(cs, gone, stamp)[d].parent = cs[d].parent
                /\ Marked(cs, gone, stamp)[d].name = cs[d].name
                /\ d \in gone => Marked(cs, gone, stamp)[d].dead = stamp
                /\ d \notin gone => Marked(cs, gone, stamp)[d].dead = cs[d].dead
         /\ ColsOK(Marked(cs, gone, stamp))
<1> DEFINE ds == Marked(cs, gone, stamp)
<1>0. DOMAIN cs = 1 .. Len(cs) /\ Len(cs) \in Nat /\ DOMAIN ds = DOMAIN cs
  BY LiveFinite DEF Marked
<1>1. ASSUME NEW d \in DOMAIN cs
      PROVE  /\ ds[d] \in Collections
             /\ ds[d].parent = cs[d].parent
             /\ ds[d].name = cs[d].name
             /\ d \in gone => ds[d].dead = stamp
             /\ d \notin gone => ds[d].dead = cs[d].dead
  <2>0. cs[d] \in Collections
    BY <1>0 DEF ColsOK
  <2>1. ds[d] = IF d \in gone THEN [cs[d] EXCEPT !.dead = stamp] ELSE cs[d]
    BY DEF Marked
  <2> HIDE DEF ds
  <2> QED BY <2>0, <2>1 DEF Collections
<1>2. ds \in [1 .. Len(cs) -> Collections]
  <2>1. ds = [d \in DOMAIN cs |-> ds[d]]
    BY DEF Marked
  <2> HIDE DEF ds
  <2> QED BY <1>0, <1>1, <2>1
<1> HIDE DEF ds
<1>3. ds \in Seq(Collections) /\ Len(ds) = Len(cs)
  BY <1>0, <1>2
<1>4. ColsOK(ds)
  BY <1>0, <1>1, <1>3 DEF ColsOK
<1> QED BY <1>0, <1>1, <1>3, <1>4 DEF ds

(* A collection goes with all below it, at a moment of its own.            *)
LEMMA DeletedIsSound ==
  ASSUME NEW cs, ColsSound(cs), NEW c \in Live(cs)
  PROVE  ColsSound(Marked(cs, Subtree(cs, c), c))
<1> DEFINE gone == Subtree(cs, c)
           ds == Marked(cs, gone, c)
<1>0. /\ ColsOK(cs) /\ c \in DOMAIN cs /\ cs[c].dead = 0 /\ c \in Nat /\ c # 0
      /\ c \in gone /\ gone \in SUBSET Live(cs) /\ gone \in SUBSET DOMAIN cs
  <2>1. ColsOK(cs) /\ c \in DOMAIN cs /\ cs[c].dead = 0
    BY DEF ColsSound, Live
  <2>2. c \in 1 .. Len(cs) /\ Len(cs) \in Nat
    BY <2>1, LiveFinite
  <2>3. c \in gone /\ gone \in SUBSET Live(cs)
    BY RootIsBelow DEF Subtree
  <2> HIDE DEF gone
  <2> QED BY <2>1, <2>2, <2>3 DEF Live
<1>1. ASSUME NEW d \in DOMAIN cs PROVE cs[d].dead # c
  BY <1>0 DEF ColsSound, HangTogether, Together
<1>2. /\ DOMAIN ds = DOMAIN cs /\ ColsOK(ds)
      /\ \A d \in DOMAIN cs :
             /\ ds[d].parent = cs[d].parent
             /\ ds[d].name = cs[d].name
             /\ d \in gone => ds[d].dead = c
             /\ d \notin gone => ds[d].dead = cs[d].dead
  <2> HIDE DEF gone
  <2> QED BY <1>0, MarkedKeeps
<1> HIDE DEF ds
<1>3. \A d \in gone : cs[d].dead = 0
  BY <1>0 DEF Live
<1>4. Trees(ds)
  <2>1. Live(ds) = Live(cs) \ gone
    <3> HIDE DEF gone
    <3> QED BY <1>0, <1>2 DEF Live
  <2>2. \A d \in Live(ds) : ds[d].parent = cs[d].parent
    BY <1>2 DEF Live
  <2> QED BY <1>0, <2>1, <2>2, PrunedIsTrees DEF ColsSound
<1>5. Below(ds, gone, c) = gone
  <2>1. Below(cs, gone, c) = gone
    BY BelowAlone DEF Subtree
  <2>2. \A x \in gone : ds[x].parent = cs[x].parent
    BY <1>0, <1>2
  <2> HIDE DEF gone
  <2> QED BY <1>0, <2>1, <2>2, SameBelow
<1> HIDE DEF gone
<1>6. NamesDiffer(ds)
  <2> SUFFICES ASSUME NEW d \in DOMAIN cs, NEW e \in DOMAIN cs,
                      ds[d].dead = ds[e].dead, ds[d].parent = ds[e].parent,
                      ds[d].name = ds[e].name
               PROVE  d = e
    BY <1>2 DEF NamesDiffer
  <2>1. cs[d].parent = cs[e].parent /\ cs[d].name = cs[e].name
    BY <1>2
  <2>2. d \in gone <=> e \in gone
    BY <1>1, <1>2
  <2>3. cs[d].dead = cs[e].dead
    BY <1>2, <1>3, <2>2
  <2> QED BY <2>1, <2>3 DEF ColsSound, NamesDiffer
<1>7. HangTogether(ds)
  <2> SUFFICES ASSUME NEW d \in DOMAIN ds, ds[d].dead # 0
               PROVE  /\ ds[d].dead \in Together(ds, ds[d].dead)
                      /\ Below(ds, Together(ds, ds[d].dead), ds[d].dead)
                            = Together(ds, ds[d].dead)
    BY DEF HangTogether
  <2> DEFINE stamp == ds[d].dead
  <2>1. CASE d \in gone
    <3>1. stamp = c
      BY <1>2, <2>1
    <3>2. Together(ds, c) = gone
      BY <1>0, <1>1, <1>2 DEF Together
    <3> QED BY <1>0, <1>5, <3>1, <3>2
  <2>2. CASE d \notin gone
    <3> DEFINE G == Together(cs, stamp)
    <3>1. cs[d].dead = stamp /\ stamp # c /\ d \in DOMAIN cs
      BY <1>1, <1>2, <2>2
    <3>2. stamp \in G /\ Below(cs, G, stamp) = G
      BY <3>1 DEF ColsSound, HangTogether
    <3>3. Together(ds, stamp) = G
      BY <1>2, <1>3, <3>1 DEF Together
    <3>4. \A x \in G : ds[x].parent = cs[x].parent
      BY <1>2 DEF Together
    <3> HIDE DEF G
    <3>5. Below(ds, G, stamp) = G
      BY <3>2, <3>4, SameBelow
    <3> QED BY <3>2, <3>3, <3>5
  <2> QED BY <2>1, <2>2
<1> QED BY <1>2, <1>4, <1>6, <1>7 DEF ColsSound, ds, gone

(* What comes back is what one delete took, its root under a live parent.  *)
LEMMA RestoredTogether ==
  ASSUME NEW cs, ColsSound(cs), NEW c \in DOMAIN cs \ Live(cs), CanRestore(cs, c)
  PROVE  /\ cs[c].dead = c /\ DeletedWith(cs, c) = Together(cs, c)
         /\ Below(cs, Together(cs, c), c) = Together(cs, c)
         /\ c \in Together(cs, c) /\ cs[c].parent \in Live(cs) \cup {Top}
<1> DEFINE stamp == cs[c].dead
           G == Together(cs, stamp)
<1>0. /\ stamp # 0 /\ c \in G /\ ColsOK(cs) /\ Top \notin DOMAIN cs
      /\ cs[c].parent \in Live(cs) \cup {Top}
  <2>1. stamp # 0 /\ c \in G /\ ColsOK(cs) /\ cs[c].parent \in Live(cs) \cup {Top}
    BY DEF Live, Together, ColsSound, CanRestore, ParentIsFit
  <2> QED BY <2>1, LiveFinite DEF Top
<1>1. stamp \in G /\ Below(cs, G, stamp) = G
  BY <1>0 DEF ColsSound, HangTogether
<1>2. stamp = c
  <2> SUFFICES ASSUME stamp # c PROVE FALSE
    OBVIOUS
  <2> HIDE DEF stamp, G
  <2>1. cs[c].parent \in G
    BY <1>0, <1>1, BelowByParent
  <2>2. \A d \in G : d \in DOMAIN cs /\ d \notin Live(cs)
    BY <1>0 DEF Together, Live, G
  <2> QED BY <1>0, <2>1, <2>2
<1>3. DeletedWith(cs, c) = Below(cs, G, c)
  BY DEF DeletedWith, Together
<1> QED BY <1>0, <1>1, <1>2, <1>3

(* It comes back as a tree of its own, hung on the trees.                  *)
LEMMA RestoredIsGrafted ==
  ASSUME NEW cs, ColsSound(cs), NEW c \in DOMAIN cs \ Live(cs), CanRestore(cs, c)
  PROVE  Grafted(cs, Marked(cs, DeletedWith(cs, c), 0), Together(cs, c), c)
<1> DEFINE G == Together(cs, c)
           ds == Marked(cs, G, 0)
<1>0. /\ cs[c].dead = c /\ DeletedWith(cs, c) = G /\ Below(cs, G, c) = G
      /\ c \in G /\ cs[c].parent \in Live(cs) \cup {Top}
  BY RestoredTogether
<1>1. G \in SUBSET DOMAIN cs /\ ColsOK(cs) /\ c # 0 /\ Top \notin G
  <2>1. G \in SUBSET DOMAIN cs /\ ColsOK(cs) /\ c # 0
    BY <1>0 DEF Together, ColsSound, Live
  <2> QED BY <2>1, LiveFinite DEF Top
<1>2. /\ DOMAIN ds = DOMAIN cs
      /\ \A d \in DOMAIN cs :
             /\ ds[d].parent = cs[d].parent
             /\ d \in G => ds[d].dead = 0
             /\ d \notin G => ds[d].dead = cs[d].dead
  <2> HIDE DEF G
  <2> QED BY <1>1, MarkedKeeps
<1> HIDE DEF ds
<1>3. Live(cs) \cap G = {} /\ Live(ds) = Live(cs) \cup G
  BY <1>1, <1>2 DEF Live, Together
<1>4. Below(ds, G, c) = G
  <2>1. \A x \in G : ds[x].parent = cs[x].parent
    BY <1>1, <1>2
  <2> HIDE DEF G
  <2> QED BY <1>0, <2>1, SameBelow
<1>5. ds[c].parent \in Live(cs) \cup {Top}
  BY <1>0, <1>2
<1>6. \A d \in Live(cs) : ds[d].parent = cs[d].parent
  BY <1>2 DEF Live
<1>7. Grafted(cs, ds, G, c)
  <2> HIDE DEF G
  <2> QED BY <1>0, <1>1, <1>3, <1>4, <1>5, <1>6 DEF Grafted
<1> QED BY <1>0, <1>7 DEF ds

(* A deleted collection comes back where there is room for all it holds.   *)
LEMMA RestoredIsSound ==
  ASSUME NEW cs, ColsSound(cs), NEW c \in DOMAIN cs \ Live(cs), CanRestore(cs, c)
  PROVE  ColsSound(Marked(cs, DeletedWith(cs, c), 0))
<1> DEFINE G == Together(cs, c)
           ds == Marked(cs, DeletedWith(cs, c), 0)
<1>0. /\ cs[c].dead = c /\ DeletedWith(cs, c) = G /\ Below(cs, G, c) = G
      /\ c \in G /\ cs[c].parent \in Live(cs) \cup {Top}
  BY RestoredTogether
<1>1. G \in SUBSET DOMAIN cs /\ ColsOK(cs) /\ c # 0
  BY <1>0 DEF Together, ColsSound, Live
<1>2. /\ DOMAIN ds = DOMAIN cs /\ ColsOK(ds)
      /\ \A d \in DOMAIN cs :
             /\ ds[d].parent = cs[d].parent
             /\ ds[d].name = cs[d].name
             /\ d \in G => ds[d].dead = 0
             /\ d \notin G => ds[d].dead = cs[d].dead
  <2> HIDE DEF G
  <2> QED BY <1>0, <1>1, MarkedKeeps
<1>3. Grafted(cs, ds, G, c)
  BY RestoredIsGrafted
<1>4. Fits(ds, c) /\ NameIsFree(cs, cs[c].name, cs[c].parent, 0)
  BY DEF CanRestore
<1> HIDE DEF ds
<1>5. Trees(ds)
  <2>1. Subtree(ds, c) = G /\ c \in Live(ds)
    <3> HIDE DEF G
    <3> QED BY <1>3, GraftedBelow DEF ColsSound, Trees, Grafted
  <2>2. \A x \in G : Cardinality(Up(ds, x)) <= MaxDepth
    <3> HIDE DEF G
    <3> QED BY <1>2, <1>4, <2>1, DepthBelowRoot
  <2> HIDE DEF G
  <2> QED BY <1>1, <1>2, <1>3, <2>2, GraftedIsTrees DEF ColsSound
<1>6. \A d \in G : cs[d].dead = c
  BY DEF Together
<1>7. \A d \in DOMAIN cs \ G : cs[d].dead # c
  BY DEF Together
<1>8. ASSUME NEW d \in G, NEW e \in DOMAIN cs \ G, cs[e].dead = 0,
             cs[d].parent = cs[e].parent
      PROVE  cs[d].name # cs[e].name
  <2>0. e \in Live(cs) /\ e # 0
    BY <1>1, <1>8, LiveFinite DEF Live, Top
  <2>1. CASE d = c
    <3>1. e \in ChildrenOf(cs, cs[c].parent)
      BY <1>8, <2>0, <2>1 DEF ChildrenOf
    <3> QED BY <1>4, <2>0, <2>1, <3>1 DEF NameIsFree
  <2>2. CASE d # c
    <3>1. cs[d].parent \in G
      <4> HIDE DEF G
      <4> QED BY <1>0, <1>8, <2>2, BelowByParent
    <3>2. cs[e].parent \in Live(cs) \cup {Top}
      BY <2>0 DEF ColsSound, Trees, Rooted
    <3> QED BY <1>3, <1>8, <3>1, <3>2 DEF Grafted
  <2> QED BY <2>1, <2>2
<1> HIDE DEF G
<1>9. NamesDiffer(ds)
  <2> SUFFICES ASSUME NEW d \in DOMAIN cs, NEW e \in DOMAIN cs,
                      ds[d].dead = ds[e].dead, ds[d].parent = ds[e].parent,
                      ds[d].name = ds[e].name
               PROVE  d = e
    BY <1>2 DEF NamesDiffer
  <2>1. cs[d].parent = cs[e].parent /\ cs[d].name = cs[e].name
    BY <1>2
  <2>2. d \in G <=> e \in G
    BY <1>2, <1>8, <2>1
  <2>3. cs[d].dead = cs[e].dead
    BY <1>2, <1>6, <2>2
  <2> QED BY <2>1, <2>3 DEF ColsSound, NamesDiffer
<1>10. HangTogether(ds)
  <2> SUFFICES ASSUME NEW d \in DOMAIN ds, ds[d].dead # 0
               PROVE  /\ ds[d].dead \in Together(ds, ds[d].dead)
                      /\ Below(ds, Together(ds, ds[d].dead), ds[d].dead)
                            = Together(ds, ds[d].dead)
    BY DEF HangTogether
  <2> DEFINE stamp == ds[d].dead
             H == Together(cs, stamp)
  <2>1. d \in DOMAIN cs /\ d \notin G /\ cs[d].dead = stamp /\ stamp # c
    BY <1>2, <1>7
  <2>2. stamp \in H /\ Below(cs, H, stamp) = H
    BY <2>1 DEF ColsSound, HangTogether
  <2>3. Together(ds, stamp) = H
    BY <1>2, <1>6, <1>7, <2>1 DEF Together
  <2>4. \A x \in H : ds[x].parent = cs[x].parent
    BY <1>2 DEF Together
  <2> HIDE DEF H
  <2>5. Below(ds, H, stamp) = H
    BY <2>2, <2>4, SameBelow
  <2> QED BY <2>2, <2>3, <2>5
<1> QED BY <1>2, <1>5, <1>9, <1>10 DEF ColsSound, ds

-----------------------------------------------------------------------------
(* The places of the sources.                                              *)

(* What a delete kept of a source names a collection that went with it.    *)
EvictionsFit(cs, ev) == \A e \in ev : cs[e.previous].dead = e.of

(* A source that is no stray lies in a live collection or in none.         *)
HomesAreLive(cs, sh, aside) ==
    \A s \in DOMAIN sh \ aside : sh[s] \in Live(cs) \cup {Top}

LibInv ==
    /\ TypeOK
    /\ ColsSound(cols)
    /\ EvictionsFit(cols, evictions)
    /\ HomesAreLive(cols, shelf, strays)

Within(f, R) == \A s \in DOMAIN f : f[s] \in R

(* The sources of places lie there, the others where they lay.             *)
PlacedBy(laid, places, sh) ==
    /\ DOMAIN laid = DOMAIN places \cup DOMAIN sh
    /\ \A s \in DOMAIN places : laid[s] = places[s]
    /\ \A s \in DOMAIN sh \ DOMAIN places : laid[s] = sh[s]

(* Where the sources lie after some of them were laid elsewhere.           *)
LEMMA LaidIsPlaced ==
  ASSUME NEW places, NEW sh, NEW R, Within(places, R), Within(sh, R)
  PROVE  /\ PlacedBy(Laid(places, sh), places, sh)
         /\ Laid(places, sh) \in [DOMAIN Laid(places, sh) -> R]
BY DEF Laid, Within, PlacedBy

(* The position after the last child is a number.                          *)
LEMMA NextPositionIsNumber ==
  ASSUME NEW cs, ColsOK(cs), NEW p
  PROVE  NextPosition(cs, p) \in Nat
<1> DEFINE siblings == Children(cs, p)
<1>1. siblings \in Seq(DOMAIN cs)
  <2>1. ChildrenOf(cs, p) \in SUBSET DOMAIN cs
    BY DEF ChildrenOf, Live
  <2>2. siblings \in Seq(ChildrenOf(cs, p))
    BY <2>1, InOrderRanks DEF Children
  <2> HIDE DEF siblings
  <2> QED BY <2>1, <2>2
<1>2. NextPosition(cs, p) = IF siblings = <<>> THEN 0 ELSE cs[Last(siblings)].position + 1
  BY DEF NextPosition
<1> HIDE DEF siblings
<1>3. siblings # <<>> => Last(siblings) \in DOMAIN cs
  BY <1>1 DEF Last
<1>4. \A d \in DOMAIN cs : cs[d] \in Collections
  BY DEF ColsOK
<1>5. \A d \in DOMAIN cs : cs[d].position \in Nat
  BY <1>4 DEF Collections
<1> QED BY <1>2, <1>3, <1>5

(* The next source is a number not taken.                                  *)
LEMMA NextSourceIsNew ==
  ASSUME TypeOK
  PROVE  NextSource \in Nat \ {0} /\ NextSource \notin DOMAIN shelf
<1>1. DOMAIN shelf \in SUBSET Nat /\ IsFiniteSet(DOMAIN shelf)
  <2>1. IsFiniteSet(1 .. MaxSources)
    BY FS_Interval, LibraryAssumption
  <2>2. DOMAIN shelf \in SUBSET (1 .. MaxSources) /\ MaxSources \in Nat
    BY LibraryAssumption DEF TypeOK
  <2>3. IsFiniteSet(DOMAIN shelf)
    BY <2>1, <2>2, FS_Subset
  <2> QED BY <2>2, <2>3
<1>2. CASE DOMAIN shelf = {}
  BY <1>2 DEF NextSource
<1>3. CASE DOMAIN shelf # {}
  <2>1. Max(DOMAIN shelf) \in DOMAIN shelf /\ \A s \in DOMAIN shelf : s <= Max(DOMAIN shelf)
    BY <1>1, <1>3, MaxIsGreatest
  <2>2. NextSource = Max(DOMAIN shelf) + 1
    BY <1>3 DEF NextSource
  <2> QED BY <1>1, <2>1, <2>2
<1> QED BY <1>2, <1>3

(* The sources added together are new and within the bound.                *)
LEMMA AddedAreNew ==
  ASSUME TypeOK, NEW n \in Nat, NextSource + n - 1 <= MaxSources
  PROVE  /\ NextSource .. NextSource + n - 1 \subseteq 1 .. MaxSources
         /\ \A s \in DOMAIN shelf : s \in 1 .. MaxSources
<1>1. NextSource \in Nat \ {0} /\ MaxSources \in Nat
  BY NextSourceIsNew, LibraryAssumption
<1> DEFINE m == NextSource
<1>2. m \in Nat \ {0} /\ m + n - 1 <= MaxSources
  BY <1>1
<1> HIDE DEF m
<1>3. m .. m + n - 1 \subseteq 1 .. MaxSources
  BY <1>1, <1>2
<1>4. DOMAIN shelf \subseteq 1 .. MaxSources
  BY DEF TypeOK
<1> QED BY <1>3, <1>4 DEF m

(* Nothing is stamped with a live collection, nor kept for one.            *)
LEMMA LiveHasNoStamp ==
  ASSUME NEW cs, ColsSound(cs), NEW c \in Live(cs)
  PROVE  \A d \in DOMAIN cs : cs[d].dead # c
<1>1. c \in DOMAIN cs /\ cs[c].dead = 0 /\ c # 0
  BY LiveFinite DEF Live, ColsSound, Top
<1> QED BY <1>1 DEF ColsSound, HangTogether, Together

-----------------------------------------------------------------------------
(* Each operation keeps the invariant.                                     *)

(* Collections change, their sources stay.                                 *)
LEMMA ColsChange ==
  ASSUME LibInv, ColsSound(cols'), Len(cols) <= Len(cols'), Len(cols') <= MaxCollections,
         \A d \in DOMAIN cols : cols'[d].dead = cols[d].dead,
         UNCHANGED <<shelf, evictions, favorites, strays>>
  PROVE  LibInv'
<1> USE DEF LibInv
<1>0. /\ DOMAIN cols = 1 .. Len(cols) /\ DOMAIN cols' = 1 .. Len(cols')
      /\ Len(cols) \in Nat /\ Len(cols') \in Nat
  <2>1. ColsOK(cols) /\ ColsOK(cols')
    BY DEF ColsSound
  <2> QED BY <2>1, LiveFinite
<1>1. DOMAIN cols \subseteq DOMAIN cols' /\ 0 .. Len(cols) \subseteq 0 .. Len(cols')
  BY <1>0
<1>2. TypeOK'
  <2>1. cols' \in Seq([name : Names, parent : Nat, position : Nat, dead : Nat])
    BY DEF ColsSound, ColsOK, Collections
  <2>2. shelf' \in [DOMAIN shelf' -> 0 .. Len(cols')]
    BY <1>1 DEF TypeOK
  <2>3. evictions' \subseteq [of : DOMAIN cols', source : DOMAIN shelf',
                              previous : DOMAIN cols', moved : 0 .. Len(cols')]
    <3> SUFFICES ASSUME NEW e \in evictions
                 PROVE  e \in [of : DOMAIN cols', source : DOMAIN shelf,
                               previous : DOMAIN cols', moved : 0 .. Len(cols')]
      OBVIOUS
    <3>1. e \in [of : DOMAIN cols, source : DOMAIN shelf,
                 previous : DOMAIN cols, moved : 0 .. Len(cols)]
      BY DEF TypeOK
    <3> QED BY <1>1, <3>1
  <2>4. favorites' \in Seq(DOMAIN cols')
    BY <1>1 DEF TypeOK
  <2> QED BY <2>1, <2>2, <2>3, <2>4 DEF TypeOK
<1>3. EvictionsFit(cols, evictions)'
  <2>1. \A e \in evictions : e.previous \in DOMAIN cols
    BY DEF TypeOK
  <2> QED BY <2>1 DEF EvictionsFit
<1>4. Live(cols) \subseteq Live(cols')
  BY <1>1 DEF Live
<1>5. HomesAreLive(cols, shelf, strays)'
  BY <1>4 DEF HomesAreLive
<1> QED BY <1>2, <1>3, <1>5

(* A collection is made.                                                   *)
LEMMA CreateKept ==
  ASSUME LibInv, NEW name \in Names, NEW p \in Places, Create(name, p)
  PROVE  LibInv'
<1> DEFINE position == NextPosition(cols, p)
<1>1. ColsSound(cols) /\ Len(cols) \in Nat /\ DOMAIN cols = 1 .. Len(cols)
  BY LiveFinite DEF LibInv, ColsSound
<1>2. position \in Nat
  BY <1>1, NextPositionIsNumber DEF ColsSound
<1>3. cols' = Append(cols, Record(name, p, position))
  BY DEF Create
<1> HIDE DEF position
<1>4. ColsSound(cols')
  BY <1>1, <1>2, <1>3, AppendedIsSound DEF Create
<1>5. cols \in Seq(Collections)
  BY <1>1 DEF ColsSound, ColsOK
<1>6. Len(cols') = Len(cols) + 1 /\ \A d \in DOMAIN cols : cols'[d] = cols[d]
  <2> DEFINE r == Record(name, p, position)
  <2> HIDE DEF r
  <2>1. cols' = Append(cols, r)
    BY <1>3 DEF r
  <2> QED BY <1>1, <1>5, <2>1
<1>7. Len(cols') <= MaxCollections
  BY <1>1, <1>6 DEF Create, RoomFor
<1> QED BY <1>1, <1>4, <1>6, <1>7, ColsChange DEF Create

(* A collection gets another name.                                         *)
LEMMA RenameKept ==
  ASSUME LibInv, NEW c \in DOMAIN cols, NEW name \in Names, Rename(c, name)
  PROVE  LibInv'
<1>1. ColsSound(cols) /\ Len(cols) \in Nat /\ DOMAIN cols = 1 .. Len(cols)
  BY LiveFinite DEF LibInv, ColsSound
<1>2. ColsSound(cols')
  BY <1>1, RenamedIsSound DEF Rename
<1>3. Len(cols') = Len(cols) /\ \A d \in DOMAIN cols : cols'[d].dead = cols[d].dead
  <2>1. cols \in Seq(Collections) /\ cols' = [cols EXCEPT ![c].name = name]
    BY <1>1 DEF ColsSound, ColsOK, Rename
  <2>2. \A d \in DOMAIN cols : cols[d] \in Collections
    BY <2>1
  <2> QED BY <1>1, <2>1, <2>2 DEF Collections
<1>4. Len(cols') <= MaxCollections
  BY <1>3 DEF LibInv, TypeOK
<1> QED BY <1>1, <1>2, <1>3, <1>4, ColsChange DEF Rename

(* A collection moves.                                                     *)
LEMMA MoveKept ==
  ASSUME LibInv, NEW c \in DOMAIN cols, NEW p \in Places, NEW i \in 0 .. MaxPosition,
         Move(c, p, i)
  PROVE  LibInv'
<1>1. ColsSound(cols) /\ Len(cols) \in Nat /\ DOMAIN cols = 1 .. Len(cols)
  BY LiveFinite DEF LibInv, ColsSound
<1>2. p \in Nat /\ i \in Nat /\ c \in Live(cols) /\ cols' = Placed(cols, c, p, i)
  BY <1>1, LibraryAssumption DEF Places, Move
<1>3. ColsSound(cols')
  BY <1>1, <1>2, MovedIsSound DEF Move
<1>4. Len(cols') = Len(cols) /\ \A d \in DOMAIN cols : cols'[d].dead = cols[d].dead
  <2>1. ColsOK(cols)
    BY <1>1 DEF ColsSound
  <2>2. /\ Len(Placed(cols, c, p, i)) = Len(cols)
        /\ \A d \in DOMAIN cols : Placed(cols, c, p, i)[d].dead = cols[d].dead
    BY <1>2, <2>1, PlacedKeeps
  <2> QED BY <1>2, <2>2
<1>5. Len(cols') <= MaxCollections
  BY <1>4 DEF LibInv, TypeOK
<1> QED BY <1>1, <1>3, <1>4, <1>5, ColsChange DEF Move

(* Favorites come and go.                                                  *)
LEMMA FavoritesKept ==
  ASSUME LibInv, NEW c \in DOMAIN cols, AddToFavorites(c) \/ RemoveFromFavorites(c)
  PROVE  LibInv'
<1>1. favorites \in Seq(DOMAIN cols)
  BY DEF LibInv, TypeOK
<1>2. favorites' \in Seq(DOMAIN cols)
  <2>1. CASE AddToFavorites(c)
    BY <1>1, <2>1 DEF AddToFavorites
  <2>2. CASE RemoveFromFavorites(c)
    <3>1. PICK k \in DOMAIN favorites : favorites' = RemoveAt(favorites, k)
      BY <2>2 DEF RemoveFromFavorites
    <3>2. k \in 1 .. Len(favorites) /\ Len(favorites) \in Nat
      BY <1>1
    <3>3. RemoveAt(favorites, k) \in Seq(DOMAIN cols)
      BY <1>1, <3>2 DEF RemoveAt
    <3> QED BY <3>1, <3>3
  <2> QED BY <2>1, <2>2
<1>3. UNCHANGED <<cols, shelf, evictions, strays>>
  BY DEF AddToFavorites, RemoveFromFavorites
<1> QED BY <1>2, <1>3 DEF LibInv, TypeOK, ColsSound, EvictionsFit, HomesAreLive

(* The strays are told apart anew: the rest lies in live collections.      *)
LEMMA StraysSettle ==
  ASSUME NEW candidates, StraysAmong(candidates),
         \A s \in DOMAIN shelf' \ candidates : shelf'[s] \in Live(cols') \cup {Top}
  PROVE  HomesAreLive(cols, shelf, strays)' /\ strays' \subseteq DOMAIN shelf'
BY DEF StraysAmong, HomesAreLive

(* What the invariant says of the collections and their ids.               *)
LEMMA LibFacts ==
  ASSUME LibInv
  PROVE  /\ ColsSound(cols) /\ ColsOK(cols) /\ Trees(cols)
         /\ Len(cols) \in Nat /\ DOMAIN cols = 1 .. Len(cols)
         /\ Live(cols) \subseteq DOMAIN cols /\ Top \notin DOMAIN cols
         /\ DOMAIN shelf \subseteq 1 .. MaxSources
         /\ \A s \in DOMAIN shelf : shelf[s] \in 0 .. Len(cols)
         /\ \A e \in evictions :
                /\ e.of \in DOMAIN cols /\ e.previous \in DOMAIN cols
                /\ cols[e.previous].dead = e.of
<1>1. ColsSound(cols) /\ ColsOK(cols) /\ Trees(cols)
  BY DEF LibInv, ColsSound
<1>2. /\ Len(cols) \in Nat /\ DOMAIN cols = 1 .. Len(cols)
      /\ Live(cols) \subseteq DOMAIN cols /\ Top \notin DOMAIN cols
  BY <1>1, LiveFinite DEF Top
<1>3. DOMAIN shelf \subseteq 1 .. MaxSources /\ \A s \in DOMAIN shelf : shelf[s] \in 0 .. Len(cols)
  BY DEF LibInv, TypeOK
<1>4. \A e \in evictions : e \in [of : DOMAIN cols, source : DOMAIN shelf,
                                  previous : DOMAIN cols, moved : 0 .. Len(cols)]
  BY DEF LibInv, TypeOK
<1>5. \A e \in evictions : cols[e.previous].dead = e.of
  BY DEF LibInv, EvictionsFit
<1> QED BY <1>1, <1>2, <1>3, <1>4, <1>5

(* A collection is deleted.                                                *)
LEMMA DeleteKept ==
  ASSUME LibInv, NEW c \in DOMAIN cols, Delete(c)
  PROVE  LibInv'
<1> DEFINE gone == Subtree(cols, c)
           target == cols[c].parent
           evicted == {s \in DOMAIN shelf : shelf[s] \in gone}
           places == [s \in evicted |-> target]
           new == {[of |-> c, source |-> s, previous |-> shelf[s], moved |-> target] :
                       s \in evicted}
<1>1. /\ c \in Live(cols)
      /\ cols' = Marked(cols, gone, c)
      /\ shelf' = Laid(places, shelf)
      /\ evictions' = evictions \cup new
      /\ StraysAmong(strays) /\ favorites' = favorites
  BY DEF Delete, Deleted, Library
<1>2. c \in gone /\ gone \subseteq Live(cols)
  BY <1>1, RootIsBelow DEF Subtree
<1>3. target \in (Live(cols) \ gone) \cup {Top}
  <2>1. target \notin gone /\ target \in Live(cols) \cup {Top}
    BY <1>1, LibFacts DEF Trees, Rooted, Acyclic
  <2> QED BY <2>1
<1>4. ColsSound(cols')
  BY <1>1, DeletedIsSound, LibFacts
<1> HIDE DEF gone
<1>5. /\ Len(cols') = Len(cols) /\ DOMAIN cols' = DOMAIN cols
      /\ cols' \in Seq(Collections)
      /\ \A d \in DOMAIN cols :
             /\ d \in gone => cols'[d].dead = c
             /\ d \notin gone => cols'[d].dead = cols[d].dead
  <2>1. gone \in SUBSET DOMAIN cols /\ c \in Nat /\ ColsOK(cols)
    BY <1>2, LibFacts
  <2> QED BY <1>1, <2>1, MarkedKeeps
<1>6. Live(cols') = Live(cols) \ gone
  BY <1>2, <1>5, LibFacts DEF Live
<1>7. target \in 0 .. Len(cols)
  BY <1>3, LibFacts DEF Top
<1> HIDE DEF target
<1>8. evicted \subseteq DOMAIN shelf /\ DOMAIN places = evicted
      /\ \A s \in evicted : places[s] = target /\ shelf[s] \in gone
  OBVIOUS
<1>9. /\ DOMAIN shelf' = DOMAIN shelf /\ shelf' \in [DOMAIN shelf' -> 0 .. Len(cols)]
      /\ \A s \in evicted : shelf'[s] = target
      /\ \A s \in DOMAIN shelf \ evicted : shelf'[s] = shelf[s] /\ shelf[s] \notin gone
  <2>1. \A s \in DOMAIN shelf \ evicted : shelf[s] \notin gone
    OBVIOUS
  <2>2. \A s \in DOMAIN shelf : shelf[s] \in 0 .. Len(cols)
    BY LibFacts
  <2> HIDE DEF evicted, places
  <2> DEFINE R == 0 .. Len(cols)
             laid == Laid(places, shelf)
  <2>3. Within(places, R) /\ Within(shelf, R)
    BY <1>7, <1>8, <2>1, <2>2 DEF Within
  <2> HIDE DEF R
  <2>4. PlacedBy(laid, places, shelf) /\ laid \in [DOMAIN laid -> R]
    BY <2>3, LaidIsPlaced
  <2>5. shelf' = laid
    BY <1>1
  <2> HIDE DEF laid
  <2>6. DOMAIN shelf' = DOMAIN shelf /\ shelf' \in [DOMAIN shelf' -> R]
    BY <1>7, <1>8, <2>4, <2>5 DEF PlacedBy
  <2> QED BY <1>7, <1>8, <2>1, <2>4, <2>5, <2>6 DEF R, PlacedBy
<1>10. new \subseteq [of : DOMAIN cols, source : DOMAIN shelf,
                      previous : DOMAIN cols, moved : 0 .. Len(cols)]
       /\ \A e \in new : e.of = c /\ e.previous \in gone
  <2>1. \A s \in evicted : s \in DOMAIN shelf /\ shelf[s] \in gone /\ shelf[s] \in DOMAIN cols
    BY <1>2, LibFacts
  <2> HIDE DEF evicted
  <2> QED BY <1>7, <2>1
<1> HIDE DEF evicted, places, new
<1>11. HomesAreLive(cols, shelf, strays)' /\ strays' \subseteq DOMAIN shelf'
  <2>1. \A s \in DOMAIN shelf \ strays : shelf[s] \in Live(cols) \cup {Top}
    BY DEF LibInv, HomesAreLive
  <2>2. \A s \in DOMAIN shelf' \ strays : shelf'[s] \in Live(cols') \cup {Top}
    BY <1>3, <1>6, <1>9, <2>1
  <2> QED BY <1>1, <2>2, StraysSettle
<1>12. EvictionsFit(cols, evictions)'
  <2>1. ASSUME NEW e \in evictions PROVE cols'[e.previous].dead = e.of
    <3>1. e.previous \in DOMAIN cols /\ cols[e.previous].dead = e.of /\ e.of # 0
      BY LibFacts DEF Top
    <3>2. e.previous \notin gone
      BY <1>2, <3>1 DEF Live
    <3> QED BY <1>5, <3>1, <3>2
  <2>2. ASSUME NEW e \in new PROVE cols'[e.previous].dead = e.of
    BY <1>2, <1>5, <1>10, LibFacts
  <2> QED BY <1>1, <2>1, <2>2 DEF EvictionsFit
<1>13. TypeOK'
  <2>1. evictions' \subseteq [of : DOMAIN cols, source : DOMAIN shelf,
                              previous : DOMAIN cols, moved : 0 .. Len(cols)]
    BY <1>1, <1>10 DEF LibInv, TypeOK
  <2>2. Len(cols) <= MaxCollections /\ favorites \in Seq(DOMAIN cols)
    BY DEF LibInv, TypeOK
  <2>3. cols' \in Seq([name : Names, parent : Nat, position : Nat, dead : Nat])
    BY <1>5 DEF Collections
  <2> QED BY <1>1, <1>5, <1>9, <1>11, <2>1, <2>2, <2>3, LibFacts DEF TypeOK
<1> QED BY <1>4, <1>11, <1>12, <1>13 DEF LibInv

(* A deleted collection comes back.                                        *)
LEMMA RestoreKept ==
  ASSUME LibInv, NEW c \in DOMAIN cols, Restore(c)
  PROVE  LibInv'
<1> DEFINE G == Together(cols, c)
           taken == {e \in evictions : e.of = c}
           back == {e \in taken : e.source \in DOMAIN shelf /\ shelf[e.source] = e.moved}
           returning == {e.source : e \in back}
           places == [s \in returning |-> (CHOOSE e \in back : e.source = s).previous]
<1>1. /\ c \in DOMAIN cols \ Live(cols) /\ CanRestore(cols, c)
      /\ cols' = Marked(cols, DeletedWith(cols, c), 0)
      /\ shelf' = Laid(places, shelf)
      /\ evictions' = evictions \ taken
      /\ StraysAmong(strays) /\ favorites' = favorites
  BY DEF Restore, Restored, Library
<1>2. DeletedWith(cols, c) = G
  BY <1>1, LibFacts, RestoredTogether
<1>3. ColsSound(cols')
  BY <1>1, RestoredIsSound, LibFacts
<1>4. G \in SUBSET DOMAIN cols /\ \A d \in DOMAIN cols : d \in G <=> cols[d].dead = c
  BY DEF Together
<1> HIDE DEF G
<1>5. /\ Len(cols') = Len(cols) /\ DOMAIN cols' = DOMAIN cols
      /\ cols' \in Seq(Collections)
      /\ \A d \in DOMAIN cols :
             /\ d \in G => cols'[d].dead = 0
             /\ d \notin G => cols'[d].dead = cols[d].dead
  <2>1. ColsOK(cols)
    BY LibFacts
  <2> QED BY <1>1, <1>2, <1>4, <2>1, MarkedKeeps
<1>6. G \subseteq Live(cols') /\ Live(cols) \subseteq Live(cols')
  <2>1. c # 0
    BY <1>1, LibFacts DEF Top
  <2> QED BY <1>4, <1>5, <2>1 DEF Live
<1>7. returning \subseteq DOMAIN shelf /\ \A s \in returning : places[s] \in G
  <2>1. ASSUME NEW s \in returning PROVE places[s] \in G
    <3>1. \E e \in back : e.source = s
      OBVIOUS
    <3> DEFINE e == CHOOSE e \in back : e.source = s
    <3>2. e \in back /\ places[s] = e.previous
      BY <3>1
    <3>3. e \in evictions /\ e.of = c
      BY <3>2
    <3> HIDE DEF e, places
    <3> QED BY <1>4, <3>2, <3>3, LibFacts
  <2> QED BY <2>1
<1>8. DOMAIN places = returning
  OBVIOUS
<1> HIDE DEF places, returning, back
<1>9. /\ DOMAIN shelf' = DOMAIN shelf /\ shelf' \in [DOMAIN shelf' -> 0 .. Len(cols)]
      /\ \A s \in returning : shelf'[s] \in G
      /\ \A s \in DOMAIN shelf \ returning : shelf'[s] = shelf[s]
  <2>1. \A s \in DOMAIN shelf : shelf[s] \in 0 .. Len(cols)
    BY LibFacts
  <2>2. \A s \in returning : places[s] \in 0 .. Len(cols)
    BY <1>4, <1>7, LibFacts
  <2> DEFINE R == 0 .. Len(cols)
             laid == Laid(places, shelf)
  <2>3. Within(places, R) /\ Within(shelf, R)
    BY <1>7, <1>8, <2>1, <2>2 DEF Within
  <2> HIDE DEF R
  <2>4. PlacedBy(laid, places, shelf) /\ laid \in [DOMAIN laid -> R]
    BY <2>3, LaidIsPlaced
  <2>5. shelf' = laid
    BY <1>1
  <2> HIDE DEF laid
  <2>6. DOMAIN shelf' = DOMAIN shelf /\ shelf' \in [DOMAIN shelf' -> R]
    BY <1>7, <1>8, <2>4, <2>5 DEF PlacedBy
  <2> QED BY <1>7, <1>8, <2>4, <2>5, <2>6 DEF R, PlacedBy
<1>10. HomesAreLive(cols, shelf, strays)' /\ strays' \subseteq DOMAIN shelf'
  <2>1. \A s \in DOMAIN shelf \ strays : shelf[s] \in Live(cols) \cup {Top}
    BY DEF LibInv, HomesAreLive
  <2>2. \A s \in DOMAIN shelf' \ strays : shelf'[s] \in Live(cols') \cup {Top}
    BY <1>6, <1>9, <2>1
  <2> QED BY <1>1, <2>2, StraysSettle
<1>11. EvictionsFit(cols, evictions)'
  <2> SUFFICES ASSUME NEW e \in evictions' PROVE cols'[e.previous].dead = e.of
    BY DEF EvictionsFit
  <2>1. e \in evictions /\ e.of # c
    BY <1>1
  <2> QED BY <1>4, <1>5, <2>1, LibFacts
<1>12. TypeOK'
  <2>1. evictions' \subseteq [of : DOMAIN cols, source : DOMAIN shelf,
                              previous : DOMAIN cols, moved : 0 .. Len(cols)]
    BY <1>1 DEF LibInv, TypeOK
  <2>2. Len(cols) <= MaxCollections /\ favorites \in Seq(DOMAIN cols)
    BY DEF LibInv, TypeOK
  <2>3. cols' \in Seq([name : Names, parent : Nat, position : Nat, dead : Nat])
    BY <1>5 DEF Collections
  <2> QED BY <1>1, <1>5, <1>9, <1>10, <2>1, <2>2, <2>3, LibFacts DEF TypeOK
<1> QED BY <1>3, <1>10, <1>11, <1>12 DEF LibInv

(* Collections may come, none dies.                                        *)
ColsGrow ==
    /\ ColsSound(cols') /\ Len(cols) <= Len(cols') /\ Len(cols') <= MaxCollections
    /\ \A d \in DOMAIN cols : cols'[d].dead = cols[d].dead

(* Sources may come and lie elsewhere, none goes.                          *)
ShelfGrows(L) ==
    /\ DOMAIN shelf \subseteq DOMAIN shelf' /\ DOMAIN shelf' \subseteq 1 .. MaxSources
    /\ shelf' \in [DOMAIN shelf' -> 0 .. L]

(* Collections that do not change grow by none.                            *)
LEMMA SameColsGrow ==
  ASSUME LibInv, UNCHANGED cols
  PROVE  ColsGrow
BY LibFacts DEF ColsGrow, LibInv, TypeOK

(* Sources come or lie elsewhere, no collection dies.                      *)
LEMMA ShelfChange ==
  ASSUME LibInv, ColsGrow, ShelfGrows(Len(cols')), UNCHANGED <<evictions, favorites>>,
         strays' \subseteq DOMAIN shelf', HomesAreLive(cols, shelf, strays)'
  PROVE  LibInv'
<1> USE DEF LibInv, ColsGrow, ShelfGrows
<1>0. /\ DOMAIN cols = 1 .. Len(cols) /\ DOMAIN cols' = 1 .. Len(cols')
      /\ Len(cols) \in Nat /\ Len(cols') \in Nat
  <2>1. ColsOK(cols) /\ ColsOK(cols')
    BY DEF ColsSound
  <2> QED BY <2>1, LiveFinite
<1>1. DOMAIN cols \subseteq DOMAIN cols' /\ 0 .. Len(cols) \subseteq 0 .. Len(cols')
  BY <1>0
<1>2. TypeOK'
  <2>1. cols' \in Seq([name : Names, parent : Nat, position : Nat, dead : Nat])
    BY DEF ColsSound, ColsOK, Collections
  <2>2. evictions' \subseteq [of : DOMAIN cols', source : DOMAIN shelf',
                              previous : DOMAIN cols', moved : 0 .. Len(cols')]
    <3> SUFFICES ASSUME NEW e \in evictions
                 PROVE  e \in [of : DOMAIN cols', source : DOMAIN shelf',
                               previous : DOMAIN cols', moved : 0 .. Len(cols')]
      OBVIOUS
    <3>1. e \in [of : DOMAIN cols, source : DOMAIN shelf,
                 previous : DOMAIN cols, moved : 0 .. Len(cols)]
      BY DEF TypeOK
    <3> QED BY <1>1, <3>1
  <2>3. favorites' \in Seq(DOMAIN cols')
    BY <1>1 DEF TypeOK
  <2> QED BY <2>1, <2>2, <2>3 DEF TypeOK
<1>3. EvictionsFit(cols, evictions)'
  <2>1. \A e \in evictions : e.previous \in DOMAIN cols
    BY DEF TypeOK
  <2> QED BY <2>1 DEF EvictionsFit
<1> QED BY <1>2, <1>3

(* Sources are placed in live collections or in none.                      *)
LEMMA PlaceKept ==
  ASSUME LibInv, NEW S \in SUBSET DOMAIN shelf, NEW places \in [S -> Places],
         PlaceSources(places)
  PROVE  LibInv'
<1>1. /\ shelf' = Laid(places, shelf) /\ UNCHANGED <<cols, evictions, favorites>>
      /\ StraysAmong(strays)
      /\ \A s \in S : places[s] \in Live(cols) \cup {Top}
  BY DEF PlaceSources
<1> DEFINE R == 0 .. Len(cols)
           laid == Laid(places, shelf)
<1>2. Within(places, R) /\ Within(shelf, R) /\ DOMAIN places = S
  BY LibFacts DEF Within, Places
<1> HIDE DEF R
<1>3. PlacedBy(laid, places, shelf) /\ laid \in [DOMAIN laid -> R]
  BY <1>2, LaidIsPlaced
<1>4. shelf' = laid
  BY <1>1
<1> HIDE DEF laid
<1>5. /\ DOMAIN shelf' = DOMAIN shelf /\ shelf' \in [DOMAIN shelf' -> R]
      /\ \A s \in S : shelf'[s] = places[s]
      /\ \A s \in DOMAIN shelf \ S : shelf'[s] = shelf[s]
  BY <1>2, <1>3, <1>4 DEF PlacedBy
<1>6. HomesAreLive(cols, shelf, strays)' /\ strays' \subseteq DOMAIN shelf'
  <2>1. \A s \in DOMAIN shelf \ strays : shelf[s] \in Live(cols) \cup {Top}
    BY DEF LibInv, HomesAreLive
  <2>2. \A s \in DOMAIN shelf' \ strays : shelf'[s] \in Live(cols') \cup {Top}
    BY <1>1, <1>5, <2>1
  <2> QED BY <1>1, <2>2, StraysSettle
<1>7. ColsGrow
  BY <1>1, SameColsGrow
<1>8. ShelfGrows(Len(cols'))
  BY <1>1, <1>5, LibFacts DEF R, ShelfGrows
<1> QED BY <1>1, <1>6, <1>7, <1>8, ShelfChange

(* The sources that came lie in c, the others where they lay.              *)
GroupLies(c) ==
    \A s \in DOMAIN shelf' : shelf'[s] = c \/ (s \in DOMAIN shelf /\ shelf'[s] = shelf[s])

(* Sources are added, all to one place.                                    *)
LEMMA GroupIsAdded ==
  ASSUME LibInv, NEW n \in Nat, NextSource + n - 1 <= MaxSources,
         NEW L \in Nat, Len(cols) <= L, NEW c \in 0 .. L, GroupAdded(n, c)
  PROVE  ShelfGrows(L) /\ GroupLies(c)
<1> DEFINE added == NextSource .. NextSource + n - 1
           places == [s \in added |-> c]
           R == 0 .. L
           laid == Laid(places, shelf)
<1>1. added \subseteq 1 .. MaxSources
  BY AddedAreNew DEF LibInv
<1> HIDE DEF added
<1>2. Within(places, R) /\ DOMAIN places = added /\ \A s \in added : places[s] = c
  BY DEF Within
<1>3. Within(shelf, R)
  BY LibFacts DEF Within
<1> HIDE DEF R, places
<1>4. PlacedBy(laid, places, shelf) /\ laid \in [DOMAIN laid -> R]
  BY <1>2, <1>3, LaidIsPlaced
<1>5. shelf' = laid
  BY DEF laid, places, added, GroupAdded
<1> HIDE DEF laid
<1>6. DOMAIN shelf' = added \cup DOMAIN shelf /\ shelf' \in [DOMAIN shelf' -> R]
  BY <1>2, <1>4, <1>5 DEF PlacedBy
<1>7. \A s \in DOMAIN shelf' : shelf'[s] = c \/ (s \in DOMAIN shelf /\ shelf'[s] = shelf[s])
  BY <1>2, <1>4, <1>5, <1>6 DEF PlacedBy
<1> QED BY <1>1, <1>6, <1>7, LibFacts DEF R, ShelfGrows, GroupLies

(* One source is added to none.                                            *)
LEMMA AddOneKept ==
  ASSUME LibInv, AddOne
  PROVE  LibInv'
<1>1. /\ NextSource + 1 - 1 <= MaxSources
      /\ shelf' = Laid([s \in {NextSource} |-> Top], shelf)
      /\ UNCHANGED <<cols, evictions, favorites, strays>>
  BY DEF AddOne, RoomFor
<1>2. NextSource \in Nat
  BY NextSourceIsNew DEF LibInv
<1>3. NextSource .. NextSource + 1 - 1 = {NextSource}
  BY <1>2
<1>4. Len(cols) \in Nat /\ Top \in 0 .. Len(cols)
  BY LibFacts DEF Top
<1>5. GroupAdded(1, Top)
  BY <1>1, <1>3 DEF GroupAdded
<1>6. ShelfGrows(Len(cols)) /\ GroupLies(Top)
  BY <1>1, <1>4, <1>5, GroupIsAdded
<1>7. HomesAreLive(cols, shelf, strays)'
  BY <1>1, <1>6 DEF LibInv, HomesAreLive, GroupLies
<1>8. strays' \subseteq DOMAIN shelf'
  BY <1>1, <1>6 DEF LibInv, TypeOK, ShelfGrows
<1>9. ColsGrow
  BY <1>1, SameColsGrow
<1> QED BY <1>1, <1>6, <1>7, <1>8, <1>9, ShelfChange

(* A group is added to a collection the dialog was shown.                  *)
LEMMA AddGroupKept ==
  ASSUME LibInv, NEW n \in 2 .. MaxSources, NEW c \in Places, AddGroup(n, c)
  PROVE  LibInv'
<1>1. /\ NextSource + n - 1 <= MaxSources /\ GroupAdded(n, c)
      /\ UNCHANGED <<cols, evictions, favorites>>
      /\ StraysAmong(strays \cup DOMAIN shelf')
  BY DEF AddGroup, RoomFor
<1>2. n \in Nat /\ Len(cols) \in Nat /\ c \in 0 .. Len(cols) /\ Len(cols) <= Len(cols)
  BY LibFacts, LibraryAssumption DEF Places
<1>3. ShelfGrows(Len(cols))
  BY <1>1, <1>2, GroupIsAdded
<1>4. HomesAreLive(cols, shelf, strays)' /\ strays' \subseteq DOMAIN shelf'
  <2> DEFINE candidates == strays \cup DOMAIN shelf'
  <2>1. StraysAmong(candidates) /\ DOMAIN shelf' \ candidates = {}
    BY <1>1
  <2> HIDE DEF candidates
  <2> QED BY <2>1, StraysSettle
<1>5. ColsGrow
  BY <1>1, SameColsGrow
<1> QED BY <1>1, <1>3, <1>4, <1>5, ShelfChange

(* A group is added to the collection of a name, made if need be.          *)
LEMMA AddGroupNamedKept ==
  ASSUME LibInv, NEW n \in 2 .. MaxSources, NEW name \in Names, AddGroupNamed(n, name)
  PROVE  LibInv'
<1> DEFINE found == {c \in ChildrenOf(cols, Top) : cols[c].name = name}
           pick == CHOOSE c \in found : TRUE
           position == NextPosition(cols, Top)
<1>0. /\ n \in Nat /\ Len(cols) \in Nat /\ DOMAIN cols = 1 .. Len(cols)
      /\ ColsSound(cols) /\ cols \in Seq(Collections)
  BY LibFacts, LibraryAssumption DEF ColsOK
<1>1. UNCHANGED <<evictions, favorites, strays>>
  BY DEF AddGroupNamed
<1>2. CASE found # {}
  <2>1. NextSource + n - 1 <= MaxSources /\ UNCHANGED cols /\ GroupAdded(n, pick)
    BY <1>2 DEF AddGroupNamed, RoomFor
  <2>2. pick \in found
    BY <1>2
  <2>3. pick \in Live(cols) /\ pick \in 0 .. Len(cols)
    BY <1>0, <2>2 DEF ChildrenOf, Live
  <2> HIDE DEF pick
  <2>4. ShelfGrows(Len(cols)) /\ GroupLies(pick)
    BY <1>0, <2>1, <2>3, GroupIsAdded
  <2>5. HomesAreLive(cols, shelf, strays)'
    BY <1>1, <2>1, <2>3, <2>4 DEF LibInv, HomesAreLive, GroupLies
  <2>6. strays' \subseteq DOMAIN shelf'
    BY <1>1, <2>4 DEF LibInv, TypeOK, ShelfGrows
  <2>7. ColsGrow
    BY <2>1, SameColsGrow
  <2> QED BY <1>1, <2>1, <2>4, <2>5, <2>6, <2>7, ShelfChange
<1>3. CASE found = {}
  <2>1. /\ NextSource + n - 1 <= MaxSources /\ Len(cols) + 1 <= MaxCollections
        /\ cols' = Append(cols, Record(name, Top, position))
        /\ GroupAdded(n, Len(cols) + 1)
    BY <1>3 DEF AddGroupNamed, RoomFor
  <2>2. position \in Nat
    BY <1>0, NextPositionIsNumber DEF ColsSound
  <2>3. ParentIsFit(cols, Top) /\ NameIsFree(cols, name, Top, 0)
    BY <1>3 DEF ParentIsFit, NameIsFree
  <2> HIDE DEF position, found
  <2>4. ColsSound(cols')
    BY <1>0, <2>1, <2>2, <2>3, AppendedIsSound
  <2> DEFINE r == Record(name, Top, position)
  <2>5. cols' = Append(cols, r) /\ r.dead = 0
    BY <2>1 DEF Record
  <2> HIDE DEF r
  <2>6. /\ Len(cols') = Len(cols) + 1 /\ \A d \in DOMAIN cols : cols'[d] = cols[d]
        /\ DOMAIN cols' = 1 .. Len(cols) + 1 /\ cols'[Len(cols) + 1] = r
    BY <1>0, <2>5
  <2>7. Live(cols) \subseteq Live(cols') /\ Len(cols) + 1 \in Live(cols')
    BY <1>0, <2>5, <2>6 DEF Live
  <2>8. ShelfGrows(Len(cols) + 1) /\ GroupLies(Len(cols) + 1)
    <3> DEFINE L == Len(cols) + 1
    <3>1. L \in Nat /\ Len(cols) <= L /\ L \in 0 .. L
      BY <1>0
    <3>2. GroupAdded(n, L)
      BY <2>1
    <3> HIDE DEF L
    <3>3. ShelfGrows(L) /\ GroupLies(L)
      BY <1>0, <2>1, <3>1, <3>2, GroupIsAdded
    <3> QED BY <3>3 DEF L
  <2>9. HomesAreLive(cols, shelf, strays)'
    BY <1>1, <2>7, <2>8 DEF LibInv, HomesAreLive, GroupLies
  <2>10. strays' \subseteq DOMAIN shelf'
    BY <1>1, <2>8 DEF LibInv, TypeOK, ShelfGrows
  <2>11. ColsGrow
    BY <1>0, <2>1, <2>4, <2>6 DEF ColsGrow
  <2>12. ShelfGrows(Len(cols'))
    BY <2>6, <2>8
  <2> QED BY <1>1, <2>9, <2>10, <2>11, <2>12, ShelfChange
<1> QED BY <1>2, <1>3

(* A source goes, and with it what deletes kept of it.                     *)
LEMMA DeleteSourceKept ==
  ASSUME LibInv, NEW s \in DOMAIN shelf, DeleteSource(s)
  PROVE  LibInv'
<1>1. /\ shelf' = [d \in DOMAIN shelf \ {s} |-> shelf[d]]
      /\ evictions' = {e \in evictions : e.source # s}
      /\ strays' = strays \ {s} /\ UNCHANGED <<cols, favorites>>
  BY DEF DeleteSource
<1>2. DOMAIN shelf' = DOMAIN shelf \ {s} /\ \A d \in DOMAIN shelf' : shelf'[d] = shelf[d]
  BY <1>1
<1>3. shelf' \in [DOMAIN shelf' -> 0 .. Len(cols)]
  BY <1>1, LibFacts
<1>4. evictions' \subseteq [of : DOMAIN cols, source : DOMAIN shelf',
                            previous : DOMAIN cols, moved : 0 .. Len(cols)]
  <2> SUFFICES ASSUME NEW e \in evictions, e.source # s
               PROVE  e \in [of : DOMAIN cols, source : DOMAIN shelf',
                             previous : DOMAIN cols, moved : 0 .. Len(cols)]
    BY <1>1
  <2>1. e \in [of : DOMAIN cols, source : DOMAIN shelf,
               previous : DOMAIN cols, moved : 0 .. Len(cols)]
    BY DEF LibInv, TypeOK
  <2> QED BY <1>2, <2>1
<1>5. HomesAreLive(cols, shelf, strays)'
  BY <1>1, <1>2 DEF LibInv, HomesAreLive
<1>6. EvictionsFit(cols, evictions)'
  BY <1>1 DEF LibInv, EvictionsFit
<1>7. TypeOK'
  BY <1>1, <1>2, <1>3, <1>4 DEF LibInv, TypeOK
<1> QED BY <1>1, <1>5, <1>6, <1>7 DEF LibInv, ColsSound

(* The empty screen, and every step.                                       *)
LEMMA LibInitially ==
  ASSUME Init
  PROVE  LibInv
<1>1. cols = <<>> /\ Live(cols) = {} /\ DOMAIN cols = {} /\ Len(cols) = 0
  BY DEF Init, Live
<1>2. ColsSound(cols)
  BY <1>1 DEF ColsSound, ColsOK, Trees, Rooted, Acyclic, Shallow, NamesDiffer, HangTogether
<1>3. TypeOK
  <2>1. shelf \in [DOMAIN shelf -> 0 .. Len(cols)] /\ DOMAIN shelf \subseteq 1 .. MaxSources
    BY <1>1, LibraryAssumption DEF Init, Top
  <2> QED BY <1>1, <2>1, LibraryAssumption DEF TypeOK, Init
<1>4. EvictionsFit(cols, evictions) /\ HomesAreLive(cols, shelf, strays)
  BY DEF Init, EvictionsFit, HomesAreLive
<1> QED BY <1>2, <1>3, <1>4 DEF LibInv

(* One case per operation.                                                 *)
LEMMA LibStep ==
  ASSUME LibInv, [Next]_vars
  PROVE  LibInv'
<1>1. ASSUME NEW name \in Names, NEW p \in Places, Create(name, p) PROVE LibInv'
  BY <1>1, CreateKept
<1>2. ASSUME NEW c \in DOMAIN cols, NEW name \in Names, Rename(c, name) PROVE LibInv'
  BY <1>2, RenameKept
<1>3. ASSUME NEW c \in DOMAIN cols, NEW p \in Places, NEW i \in 0 .. MaxPosition,
             Move(c, p, i)
      PROVE  LibInv'
  BY <1>3, MoveKept
<1>4. ASSUME NEW c \in DOMAIN cols, AddToFavorites(c) \/ RemoveFromFavorites(c)
      PROVE  LibInv'
  BY <1>4, FavoritesKept
<1>5. ASSUME NEW c \in DOMAIN cols, Delete(c) PROVE LibInv'
  BY <1>5, DeleteKept
<1>6. ASSUME NEW c \in DOMAIN cols, Restore(c) PROVE LibInv'
  BY <1>6, RestoreKept
<1>7. ASSUME NEW S \in SUBSET DOMAIN shelf, NEW places \in [S -> Places],
             PlaceSources(places)
      PROVE  LibInv'
  BY <1>7, PlaceKept
<1>8. ASSUME AddOne PROVE LibInv'
  BY <1>8, AddOneKept
<1>9. ASSUME NEW n \in 2 .. MaxSources, NEW c \in Places, AddGroup(n, c) PROVE LibInv'
  BY <1>9, AddGroupKept
<1>10. ASSUME NEW n \in 2 .. MaxSources, NEW name \in Names, AddGroupNamed(n, name)
       PROVE  LibInv'
  BY <1>10, AddGroupNamedKept
<1>11. ASSUME NEW s \in DOMAIN shelf, DeleteSource(s) PROVE LibInv'
  BY <1>11, DeleteSourceKept
<1>12. ASSUME UNCHANGED vars PROVE LibInv'
  BY <1>12 DEF vars, LibInv, TypeOK, ColsSound, EvictionsFit, HomesAreLive
<1> QED BY <1>1, <1>2, <1>3, <1>4, <1>5, <1>6, <1>7, <1>8, <1>9, <1>10, <1>11, <1>12 DEF Next

(* The invariant holds all the time.                                       *)
THEOREM LibAlways == Spec => []LibInv
<1>1. Init => LibInv
  BY LibInitially
<1>2. LibInv /\ [Next]_vars => LibInv'
  BY LibStep
<1> QED BY <1>1, <1>2, PTL DEF Spec

(* The live collections form trees no deeper than the limit, siblings with *)
(* different names, whatever was deleted, moved and restored in between.   *)
THEOREM TreeIsSoundAlways == Spec => []TreeIsSound
<1>1. LibInv => TreeIsSound
  <2> SUFFICES ASSUME LibInv PROVE TreeIsSound
    OBVIOUS
  <2>1. ParentsAreLive /\ NothingIsBelowItself
    BY LibFacts DEF Trees, Rooted, Acyclic, ParentsAreLive, NothingIsBelowItself
  <2>2. DepthIsKept
    BY LibFacts, DepthIsUp DEF Trees, Shallow, DepthIsKept
  <2>3. NamesAreUnique
    BY LibFacts DEF ColsSound, NamesDiffer, NamesAreUnique, Live
  <2> QED BY <2>1, <2>2, <2>3 DEF TreeIsSound, LibInv
<1> QED BY <1>1, LibAlways, PTL

-----------------------------------------------------------------------------
(* Each source is listed once.                                             *)

(* Two collections of the top level have nothing below them in common.     *)
LEMMA RootsAreApart ==
  ASSUME NEW cs, ColsOK(cs), NEW r \in ChildrenOf(cs, Top), NEW q \in ChildrenOf(cs, Top),
         r # q
  PROVE  Subtree(cs, r) \cap Subtree(cs, q) = {}
<1> DEFINE T == Subtree(cs, r) \ Subtree(cs, q)
<1>0. /\ r \in Live(cs) /\ q \in Live(cs) /\ Top \notin Live(cs)
      /\ cs[r].parent = Top /\ cs[q].parent = Top
      /\ Subtree(cs, r) \subseteq Live(cs) /\ Subtree(cs, q) \subseteq Live(cs)
      /\ r \in Subtree(cs, r)
  BY LiveFinite, RootIsBelow DEF ChildrenOf, Subtree
<1>1. r \notin Subtree(cs, q)
  <2> SUFFICES ASSUME r \in Subtree(cs, q) PROVE FALSE
    OBVIOUS
  <2>1. cs[r].parent \in Subtree(cs, q)
    BY <1>0, BelowByParent DEF Subtree
  <2> QED BY <1>0, <2>1
<1>2. T \in SUBSET Live(cs) /\ r \in T
  BY <1>0, <1>1
<1>3. ASSUME NEW x \in Live(cs) \ T PROVE cs[x].parent \notin T
  <2>1. CASE x \notin Subtree(cs, r)
    BY <2>1, BelowIsClosed DEF Subtree
  <2>2. CASE x = q
    BY <1>0, <2>2
  <2>3. CASE x \in Subtree(cs, q) /\ x # q
    <3>1. cs[x].parent \in Subtree(cs, q)
      BY <1>0, <2>3, BelowByParent DEF Subtree
    <3> QED BY <3>1
  <2> QED BY <1>3, <2>1, <2>2, <2>3
<1> HIDE DEF T
<1>4. Subtree(cs, r) \subseteq T
  BY <1>2, <1>3, BelowIsLeast DEF Subtree
<1> QED BY <1>4 DEF T

(* Each live collection hangs on one of the top level: of those it hangs   *)
(* on, the one with the most below it has no parent.                       *)
LEMMA RootIsFound ==
  ASSUME NEW cs, ColsOK(cs), Trees(cs), NEW c \in Live(cs)
  PROVE  \E r \in ChildrenOf(cs, Top) : c \in Subtree(cs, r)
<1> DEFINE S == Live(cs)
           rest(d) == S \ Subtree(cs, d)
           rests == {rest(d) : d \in Up(cs, c)}
<1>0. IsFiniteSet(S) /\ c \in Up(cs, c) /\ Up(cs, c) \subseteq S
  BY LiveFinite, RootIsBelow DEF Up, Subtree
<1>1. rests \subseteq FiniteSubsetsOf(S) /\ rests # {}
  <2>1. ASSUME NEW d \in Up(cs, c) PROVE rest(d) \in FiniteSubsetsOf(S)
    <3>1. rest(d) \in SUBSET S
      OBVIOUS
    <3>2. IsFiniteSet(rest(d))
      <4> HIDE DEF S, rest
      <4> QED BY <1>0, <3>1, FS_Subset
    <3> HIDE DEF S, rest
    <3> QED BY <3>1, <3>2 DEF FiniteSubsetsOf
  <2> HIDE DEF rest, S
  <2> QED BY <1>0, <2>1
<1>2. PICK U \in rests : \A V \in rests : <<V, U>> \notin StrictSubsetOrdering(S)
  <2> HIDE DEF rests, S
  <2> QED BY <1>0, <1>1, FS_StrictSubsetOrderingWellFounded, WFMin
<1>3. PICK d \in Up(cs, c) : U = rest(d)
  <2> HIDE DEF rest
  <2> QED OBVIOUS
<1>4. d \in S /\ c \in Subtree(cs, d) /\ d \in Subtree(cs, d)
  BY <1>0, RootIsBelow DEF Up, Subtree
<1>5. cs[d].parent = Top
  <2> SUFFICES ASSUME cs[d].parent # Top PROVE FALSE
    OBVIOUS
  <2> DEFINE p == cs[d].parent
  <2>1. p \in S /\ p \notin Subtree(cs, d)
    BY <1>4 DEF Trees, Rooted, Acyclic
  <2>2. p \in Subtree(cs, p)
    BY <2>1, RootIsBelow DEF Subtree
  <2>3. d \in Subtree(cs, p)
    BY <1>4, <2>2, BelowIsClosed DEF Subtree
  <2> HIDE DEF p
  <2>4. Subtree(cs, d) \subseteq Subtree(cs, p)
    BY <2>1, <2>3, BelowIsNested DEF Subtree
  <2>5. p \in Up(cs, c)
    BY <1>4, <2>1, <2>4 DEF Up
  <2>6. rest(p) \in rests
    BY <2>5
  <2>7. rest(p) \subseteq rest(d) /\ p \in rest(d) /\ p \notin rest(p)
    BY <2>1, <2>2, <2>4
  <2>8. <<rest(p), rest(d)>> \in StrictSubsetOrdering(S)
    <3>1. rest(p) \in SUBSET S /\ rest(d) \in SUBSET S
      OBVIOUS
    <3> HIDE DEF rest, S
    <3> QED BY <2>7, <3>1 DEF StrictSubsetOrdering
  <2> HIDE DEF rest, rests, S
  <2> QED BY <1>2, <1>3, <2>6, <2>8
<1> QED BY <1>4, <1>5 DEF ChildrenOf

(* Each source is listed under Unsorted or under one collection of the top *)
(* level; only one added to a collection deleted meanwhile is in neither.  *)
THEOREM SourcesAreListedAlways == Spec => []SourcesAreListed
<1>1. LibInv => SourcesAreListed
  <2> SUFFICES ASSUME LibInv, NEW s \in DOMAIN shelf \ strays
               PROVE  Cardinality(ListedUnder(s)) = 1
    BY DEF SourcesAreListed
  <2>0. /\ ColsOK(cols) /\ Trees(cols) /\ Top \notin Live(cols)
        /\ shelf[s] \in Live(cols) \cup {Top}
    BY LibFacts DEF LibInv, HomesAreLive
  <2>1. \A r \in ChildrenOf(cols, Top) : s \in Members(r) <=> shelf[s] \in Subtree(cols, r)
    BY DEF Members
  <2>2. s \in Unsorted <=> shelf[s] = Top
    BY DEF Unsorted
  <2>3. ASSUME NEW r \in ChildrenOf(cols, Top) PROVE Subtree(cols, r) \subseteq Live(cols)
    BY RootIsBelow DEF ChildrenOf, Subtree
  <2>4. CASE shelf[s] = Top
    <3>1. ListedUnder(s) = {Top}
      BY <2>0, <2>1, <2>2, <2>3, <2>4 DEF ListedUnder
    <3> QED BY <3>1, FS_Singleton
  <2>5. CASE shelf[s] \in Live(cols)
    <3>1. PICK r \in ChildrenOf(cols, Top) : shelf[s] \in Subtree(cols, r)
      BY <2>0, <2>5, RootIsFound
    <3>2. ASSUME NEW q \in ChildrenOf(cols, Top), shelf[s] \in Subtree(cols, q) PROVE q = r
      BY <2>0, <3>1, <3>2, RootsAreApart
    <3>3. s \notin Unsorted
      BY <2>0, <2>2, <2>5
    <3>4. ListedUnder(s) = {r}
      BY <2>1, <3>1, <3>2, <3>3 DEF ListedUnder
    <3> QED BY <3>4, FS_Singleton
  <2> QED BY <2>0, <2>4, <2>5
<1> QED BY <1>1, LibAlways, PTL

-----------------------------------------------------------------------------
(* What the screen offers is taken.                                        *)

(* What is live fits where it is: the longest way down is not too deep.    *)
LEMMA LiveFits ==
  ASSUME NEW cs, ColsOK(cs), Trees(cs), NEW c \in Live(cs)
  PROVE  Fits(cs, c) /\ Depth(cs, c) \in Nat /\ Height(cs, c) \in Nat
<1> DEFINE own == Subtree(cs, c)
           A == Ancestors(cs, c)
<1>0. c \in own /\ own \subseteq Live(cs) /\ A \in SUBSET Live(cs)
  BY RootIsBelow DEF Subtree, Ancestors
<1>1. PICK d \in own : Cardinality(Up(cs, d) \cap own) = Height(cs, c)
  BY HeightBounds
<1> DEFINE U == Up(cs, d) \cap own
<1>2. Up(cs, d) \in SUBSET Live(cs) /\ U \in SUBSET Live(cs)
  BY DEF Up
<1>3. ASSUME NEW x \in A PROVE x \in Up(cs, d) /\ x \notin own
  <2>1. x \in Live(cs) /\ x # c /\ c \in Subtree(cs, x)
    BY DEF Ancestors
  <2>2. own \subseteq Subtree(cs, x)
    BY <2>1, BelowIsNested DEF Subtree
  <2>3. cs[c].parent \in Subtree(cs, x)
    BY <2>1, BelowByParent DEF Subtree
  <2>4. x \in own => Subtree(cs, x) \subseteq own
    BY BelowIsNested DEF Subtree
  <2> QED BY <2>1, <2>2, <2>3, <2>4 DEF Up, Trees, Acyclic
<1>4. A \cap U = {} /\ A \cup U \subseteq Up(cs, d)
  BY <1>3
<1>5. Cardinality(Up(cs, d)) <= MaxDepth
  BY <1>0 DEF Trees, Shallow
<1> HIDE DEF A, U, own
<1>6. Cardinality(A \cup U) = Cardinality(A) + Cardinality(U)
  <2>1. IsFiniteSet(A) /\ IsFiniteSet(U) /\ Cardinality(A) \in Nat /\ Cardinality(U) \in Nat
    BY <1>0, <1>2, LivePart
  <2>2. Cardinality(A \cup U) = Cardinality(A) + Cardinality(U) - Cardinality(A \cap U)
    BY <2>1, FS_Union
  <2>3. Cardinality(A \cap U) = 0
    BY <1>4, FS_EmptySet
  <2> QED BY <2>1, <2>2, <2>3
<1>7. Cardinality(A \cup U) <= Cardinality(Up(cs, d))
  BY <1>2, <1>4, PartIsSmaller
<1>8. /\ Cardinality(A) \in Nat /\ Cardinality(U) \in Nat
      /\ Cardinality(Up(cs, d)) \in Nat /\ Cardinality(A \cup U) \in Nat
  BY <1>0, <1>2, <1>4, LivePart
<1>9. Depth(cs, c) = Cardinality(A) + 1 /\ Cardinality(U) = Height(cs, c)
  BY <1>1 DEF Depth, A, U, own
<1> QED BY <1>5, <1>6, <1>7, <1>8, <1>9, LibraryAssumption DEF Fits

(* A parent is a level above its child.                                    *)
LEMMA ParentIsHigher ==
  ASSUME NEW cs, ColsOK(cs), Trees(cs), NEW c \in Live(cs), cs[c].parent \in Live(cs)
  PROVE  Depth(cs, cs[c].parent) \in Nat /\ Depth(cs, cs[c].parent) + 1 <= Depth(cs, c)
<1> DEFINE p == cs[c].parent
           U == Up(cs, p)
<1>1. ASSUME NEW d \in U PROVE d \in Up(cs, c) /\ d # c
  <2>1. d \in Live(cs) /\ p \in Subtree(cs, d)
    BY DEF Up
  <2>2. c \in Subtree(cs, d)
    BY <2>1, BelowIsClosed DEF Subtree
  <2> QED BY <2>1, <2>2 DEF Up, Trees, Acyclic
<1>2. c \in Up(cs, c) /\ Up(cs, c) \in SUBSET Live(cs)
  BY RootIsBelow DEF Up, Subtree
<1>3. c \notin U /\ U \cup {c} \subseteq Up(cs, c) /\ U \in SUBSET Live(cs)
  BY <1>1, <1>2
<1>4. Depth(cs, p) = Cardinality(U) /\ Depth(cs, c) = Cardinality(Up(cs, c))
  BY DepthIsUp
<1> HIDE DEF U, p
<1>5. IsFiniteSet(U) /\ Cardinality(U) \in Nat /\ Cardinality(Up(cs, c)) \in Nat
  BY <1>2, <1>3, LivePart
<1>6. Cardinality(U \cup {c}) = Cardinality(U) + 1
  BY <1>3, <1>5, FS_AddElement
<1>7. Cardinality(U \cup {c}) <= Cardinality(Up(cs, c))
  BY <1>2, <1>3, PartIsSmaller
<1> QED BY <1>4, <1>5, <1>6, <1>7 DEF p

(* So its own place is fit for a collection.                               *)
LEMMA HomeIsFit ==
  ASSUME NEW cs, ColsOK(cs), Trees(cs), NEW c \in Live(cs)
  PROVE  PlaceIsFit(cs, c, cs[c].parent)
<1>1. CASE cs[c].parent = Top
  BY <1>1 DEF PlaceIsFit
<1>2. CASE cs[c].parent # Top
  <2>1. cs[c].parent \in Live(cs) \ Subtree(cs, c)
    BY <1>2 DEF Trees, Rooted, Acyclic
  <2>2. Depth(cs, cs[c].parent) \in Nat /\ Depth(cs, cs[c].parent) + 1 <= Depth(cs, c)
    BY <2>1, ParentIsHigher
  <2>3. Depth(cs, c) + Height(cs, c) - 1 <= MaxDepth
        /\ Depth(cs, c) \in Nat /\ Height(cs, c) \in Nat
    BY LiveFits DEF Fits
  <2>4. Depth(cs, cs[c].parent) + Height(cs, c) <= MaxDepth
    BY <2>2, <2>3, LibraryAssumption
  <2> QED BY <2>1, <2>4 DEF PlaceIsFit
<1> QED BY <1>1, <1>2

(* The menu and the move agree.                                            *)
LEMMA MovesOffered ==
  ASSUME LibInv
  PROVE  MovesAreOffered
<1> SUFFICES ASSUME NEW c \in Live(cols)
             PROVE  MoveTargets(cols, c) = {p \in Places : PlaceIsFit(cols, c, p)}
  BY DEF MovesAreOffered
<1>1. Live(cols) \cup {Top} \subseteq Places
  BY LibFacts DEF Places, Top
<1>2. Height(cols, c) \in Nat /\ MaxDepth \in Nat
  BY LibFacts, LiveFits, LibraryAssumption
<1>3. ASSUME NEW p \in Live(cols)
      PROVE  Depth(cols, p) <= MaxDepth - Height(cols, c)
                <=> Depth(cols, p) + Height(cols, c) <= MaxDepth
  <2>1. Depth(cols, p) \in Nat
    BY LibFacts, LiveFits
  <2> QED BY <1>2, <2>1
<1> QED BY <1>1, <1>3 DEF MoveTargets, PlaceIsFit

-----------------------------------------------------------------------------
(* A delete and its undo change nothing.                                   *)

(* The collections are what they were.                                     *)
LEMMA MarkedBack ==
  ASSUME NEW cs, ColsSound(cs), NEW c \in Live(cs)
  PROVE  LET ds == Marked(cs, Subtree(cs, c), c)
         IN  /\ DeletedWith(ds, c) = Subtree(cs, c)
             /\ Marked(ds, DeletedWith(ds, c), 0) = cs
<1> DEFINE gone == Subtree(cs, c)
           ds == Marked(cs, gone, c)
<1>0. /\ ColsOK(cs) /\ c \in Nat /\ cs[c].dead = 0
      /\ c \in gone /\ gone \in SUBSET Live(cs) /\ gone \in SUBSET DOMAIN cs
  <2>1. c \in gone /\ gone \in SUBSET Live(cs)
    BY RootIsBelow DEF Subtree
  <2> HIDE DEF gone
  <2> QED BY <2>1, LiveFinite DEF ColsSound, Live
<1>1. \A d \in DOMAIN cs : cs[d].dead # c
  BY LiveHasNoStamp
<1>2. Below(cs, gone, c) = gone
  BY BelowAlone DEF Subtree
<1>3. ds = [d \in DOMAIN cs |-> IF d \in gone THEN [cs[d] EXCEPT !.dead = c] ELSE cs[d]]
  BY DEF Marked
<1> HIDE DEF gone
<1>4. /\ DOMAIN ds = DOMAIN cs
      /\ \A d \in DOMAIN cs :
             /\ ds[d].parent = cs[d].parent
             /\ d \in gone => ds[d].dead = c
             /\ d \notin gone => ds[d].dead = cs[d].dead
  <2>1. /\ DOMAIN Marked(cs, gone, c) = DOMAIN cs
        /\ \A d \in DOMAIN cs :
                /\ Marked(cs, gone, c)[d].parent = cs[d].parent
                /\ Marked(cs, gone, c)[d].name = cs[d].name
                /\ d \in gone => Marked(cs, gone, c)[d].dead = c
                /\ d \notin gone => Marked(cs, gone, c)[d].dead = cs[d].dead
    <3>1. ColsOK(cs) /\ gone \in SUBSET DOMAIN cs /\ c \in Nat
      BY <1>0
    <3> HIDE DEF ds
    <3> QED BY <3>1, MarkedKeeps
  <2> QED BY <2>1
<1>5. DeletedWith(ds, c) = gone
  <2>1. {d \in DOMAIN ds : ds[d].dead = ds[c].dead} = gone
    BY <1>0, <1>1, <1>4
  <2>2. \A d \in gone : ds[d].parent = cs[d].parent
    BY <1>0, <1>4
  <2>3. Below(ds, gone, c) = gone
    <3>1. c \in gone
      BY <1>0
    <3> HIDE DEF ds
    <3> QED BY <1>2, <2>2, <3>1, SameBelow
  <2> QED BY <2>1, <2>3 DEF DeletedWith
<1>6. Marked(ds, gone, 0) = cs
  <2>1. cs = [d \in DOMAIN cs |-> cs[d]]
    BY <1>0 DEF ColsOK
  <2>2. ASSUME NEW d \in DOMAIN cs
        PROVE  (IF d \in gone THEN [ds[d] EXCEPT !.dead = 0] ELSE ds[d]) = cs[d]
    <3>1. CASE d \in gone
      <4> DEFINE r == cs[d]
      <4>1. r \in Collections /\ r.dead = 0
        BY <1>0, <3>1 DEF ColsOK, Live
      <4>2. ds[d] = [r EXCEPT !.dead = c]
        BY <1>3, <3>1
      <4> HIDE DEF r, ds
      <4>3. [ds[d] EXCEPT !.dead = 0] = r
        BY <1>0, <4>1, <4>2 DEF Collections
      <4> QED BY <3>1, <4>3 DEF r
    <3>2. CASE d \notin gone
      BY <1>3, <3>2
    <3> QED BY <3>1, <3>2
  <2> HIDE DEF ds
  <2>3. Marked(ds, gone, 0)
           = [d \in DOMAIN cs |-> IF d \in gone THEN [ds[d] EXCEPT !.dead = 0] ELSE ds[d]]
    BY <1>4 DEF Marked
  <2> QED BY <2>1, <2>2, <2>3
<1> QED BY <1>5, <1>6 DEF gone

(* The delete is offered to be undone.                                     *)
LEMMA DeletedMayReturn ==
  ASSUME NEW cs, ColsSound(cs), NEW c \in Live(cs)
  PROVE  CanRestore(Marked(cs, Subtree(cs, c), c), c)
<1> DEFINE gone == Subtree(cs, c)
           ds == Marked(cs, gone, c)
           p == cs[c].parent
<1>0. /\ ColsOK(cs) /\ Trees(cs) /\ c \in Nat /\ cs[c].dead = 0 /\ c \in DOMAIN cs
      /\ c \in gone /\ gone \in SUBSET Live(cs) /\ gone \in SUBSET DOMAIN cs
      /\ Top \notin DOMAIN cs
  <2>1. c \in gone /\ gone \in SUBSET Live(cs)
    BY RootIsBelow DEF Subtree
  <2> HIDE DEF gone
  <2> QED BY <2>1, LiveFinite DEF ColsSound, Live, Top
<1>1. p \in (Live(cs) \ gone) \cup {Top}
  BY DEF ColsSound, Trees, Rooted, Acyclic
<1>2. Fits(Marked(ds, DeletedWith(ds, c), 0), c)
  <2>1. Marked(ds, DeletedWith(ds, c), 0) = cs
    BY MarkedBack
  <2> QED BY <1>0, <2>1, LiveFits
<1>3. ColsOK(ds)
  BY DeletedIsSound DEF ColsSound
<1> HIDE DEF gone
<1>4. /\ DOMAIN ds = DOMAIN cs
      /\ \A d \in DOMAIN cs :
             /\ ds[d].parent = cs[d].parent /\ ds[d].name = cs[d].name
             /\ d \in gone => ds[d].dead = c
             /\ d \notin gone => ds[d].dead = cs[d].dead
  <2>1. /\ DOMAIN Marked(cs, gone, c) = DOMAIN cs
        /\ \A d \in DOMAIN cs :
                /\ Marked(cs, gone, c)[d].parent = cs[d].parent
                /\ Marked(cs, gone, c)[d].name = cs[d].name
                /\ d \in gone => Marked(cs, gone, c)[d].dead = c
                /\ d \notin gone => Marked(cs, gone, c)[d].dead = cs[d].dead
    <3>1. ColsOK(cs) /\ gone \in SUBSET DOMAIN cs /\ c \in Nat
      BY <1>0
    <3> HIDE DEF ds
    <3> QED BY <3>1, MarkedKeeps
  <2> QED BY <2>1
<1> HIDE DEF ds
<1>5. Live(ds) = Live(cs) \ gone
  BY <1>0, <1>4 DEF Live, Top
<1>6. NameIsFree(ds, ds[c].name, ds[c].parent, 0)
  <2> SUFFICES ASSUME NEW d \in Live(ds), ds[d].parent = ds[c].parent, ds[d].name = ds[c].name
               PROVE  FALSE
    BY DEF NameIsFree, ChildrenOf
  <2>1. d \in Live(cs) /\ d \notin gone
    BY <1>5
  <2>2. cs[d].parent = cs[c].parent /\ cs[d].name = cs[c].name /\ cs[d].dead = cs[c].dead
        /\ d \in DOMAIN cs
    BY <1>0, <1>4, <2>1 DEF Live
  <2>3. d = c
    BY <1>0, <2>2 DEF ColsSound, NamesDiffer
  <2> QED BY <1>0, <2>1, <2>3
<1>7. ParentIsFit(ds, ds[c].parent)
  <2>1. ds[c].parent = p
    BY <1>0, <1>4
  <2>2. CASE p = Top
    BY <2>1, <2>2 DEF ParentIsFit
  <2>3. CASE p # Top
    <3>1. p \in Live(ds) /\ p \in Live(cs)
      BY <1>1, <1>5, <2>3
    <3>2. Depth(cs, p) \in Nat /\ Depth(cs, p) + 1 <= Depth(cs, c)
      BY <1>0, <3>1, ParentIsHigher
    <3>3. Depth(cs, c) <= MaxDepth /\ Depth(cs, c) \in Nat
      BY <1>0, LiveFits, DepthIsUp DEF Trees, Shallow
    <3>4. Up(ds, p) \subseteq Up(cs, p) /\ Up(cs, p) \in SUBSET Live(cs)
      <4>1. ASSUME NEW d \in Live(ds) PROVE Subtree(ds, d) \subseteq Subtree(cs, d)
        <5>1. Live(ds) \in SUBSET Live(cs) /\ \A x \in Live(ds) : ds[x].parent = cs[x].parent
          BY <1>4, <1>5 DEF Live
        <5> QED BY <5>1, FewerBelow DEF Subtree
      <4> QED BY <1>5, <4>1 DEF Up
    <3>5. Cardinality(Up(ds, p)) <= Cardinality(Up(cs, p)) /\ Cardinality(Up(ds, p)) \in Nat
      BY <1>0, <3>4, PartIsSmaller, LivePart
    <3>6. Depth(ds, p) = Cardinality(Up(ds, p)) /\ Depth(cs, p) = Cardinality(Up(cs, p))
      BY <1>0, <1>3, <3>1, DepthIsUp
    <3>7. Depth(ds, p) < MaxDepth
      BY <3>2, <3>3, <3>5, <3>6, LibraryAssumption
    <3> QED BY <2>1, <3>1, <3>7 DEF ParentIsFit, CanHoldChildren
  <2> QED BY <2>2, <2>3
<1> QED BY <1>2, <1>6, <1>7 DEF CanRestore, ds, gone

(* Each source goes back where it lay.                                     *)
LEMMA DeleteUndone ==
  ASSUME LibInv
  PROVE  DeleteIsUndone
<1> SUFFICES ASSUME NEW c \in Live(cols)
             PROVE  LET after == Deleted(Library, c)
                    IN  CanRestore(after.cols, c) /\ Restored(after, c) = Library
  BY DEF DeleteIsUndone
<1> DEFINE gone == Subtree(cols, c)
           target == cols[c].parent
           evicted == {s \in DOMAIN shelf : shelf[s] \in gone}
           places == [s \in evicted |-> target]
           new == {[of |-> c, source |-> s, previous |-> shelf[s], moved |-> target] :
                       s \in evicted}
           ds == Marked(cols, gone, c)
           sh == Laid(places, shelf)
           after == Deleted(Library, c)
           taken == {e \in after.evictions : e.of = c}
           back == {e \in taken : e.source \in DOMAIN after.shelf
                                  /\ after.shelf[e.source] = e.moved}
           returning == {e.source : e \in back}
           homes == [s \in returning |-> (CHOOSE e \in back : e.source = s).previous]
<1>1. after.cols = ds /\ after.shelf = sh /\ after.evictions = evictions \cup new
  BY DEF Deleted, Library
<1>2. Restored(after, c) = [cols |-> Marked(after.cols, DeletedWith(after.cols, c), 0),
                            shelf |-> Laid(homes, after.shelf),
                            evictions |-> after.evictions \ taken]
  BY DEF Restored
<1>3. ColsSound(cols)
  BY LibFacts
<1>4. CanRestore(ds, c) /\ Marked(ds, DeletedWith(ds, c), 0) = cols
  BY <1>3, DeletedMayReturn, MarkedBack
<1> HIDE DEF ds, after, gone, target
<1>5. DOMAIN places = evicted /\ evicted \subseteq DOMAIN shelf
      /\ \A s \in evicted : places[s] = target
  OBVIOUS
<1>6. /\ DOMAIN sh = DOMAIN shelf /\ \A s \in evicted : sh[s] = target
      /\ \A s \in DOMAIN shelf \ evicted : sh[s] = shelf[s]
  <2> HIDE DEF places, evicted
  <2> QED BY <1>5 DEF Laid
<1>7. /\ \A s \in evicted : \E e \in new : e.source = s
      /\ \A e \in new : /\ e.of = c /\ e.source \in evicted /\ e.moved = target
                        /\ e.previous = shelf[e.source]
  <2> HIDE DEF evicted
  <2>1. ASSUME NEW s \in evicted PROVE \E e \in new : e.source = s
    <3> DEFINE r == [of |-> c, source |-> s, previous |-> shelf[s], moved |-> target]
    <3>1. r \in new /\ r.source = s
      OBVIOUS
    <3> HIDE DEF r, new
    <3> QED BY <3>1
  <2>2. ASSUME NEW e \in new
        PROVE  /\ e.of = c /\ e.source \in evicted /\ e.moved = target
               /\ e.previous = shelf[e.source]
    <3>1. PICK s \in evicted :
              e = [of |-> c, source |-> s, previous |-> shelf[s], moved |-> target]
      OBVIOUS
    <3> HIDE DEF new
    <3> QED BY <3>1
  <2> QED BY <2>1, <2>2
<1> HIDE DEF places, evicted, new, sh
<1>8. \A e \in evictions : e.of # c
  BY <1>3, LibFacts, LiveHasNoStamp
<1>9. taken = new /\ after.evictions \ taken = evictions
  BY <1>1, <1>7, <1>8
<1> HIDE DEF taken
<1>10. back = new
  BY <1>1, <1>5, <1>6, <1>7, <1>9
<1> HIDE DEF back
<1>11. returning = evicted
  BY <1>7, <1>10
<1>12. ASSUME NEW s \in evicted PROVE (CHOOSE e \in back : e.source = s).previous = shelf[s]
  <2>1. \E e \in back : e.source = s
    BY <1>7, <1>10
  <2> DEFINE e == CHOOSE e \in back : e.source = s
  <2>2. e \in back /\ e.source = s
    BY <2>1
  <2> HIDE DEF e
  <2>3. e.previous = shelf[s]
    BY <1>7, <1>10, <2>2
  <2> QED BY <2>3 DEF e
<1>13. DOMAIN homes = evicted /\ \A s \in evicted : homes[s] = shelf[s]
  <2> HIDE DEF returning
  <2> QED BY <1>11, <1>12
<1> HIDE DEF homes, returning
<1>14. Laid(homes, sh) = shelf
  <2>1. shelf = [s \in DOMAIN shelf |-> shelf[s]]
    BY DEF LibInv, TypeOK
  <2>2. Laid(homes, sh) = [s \in DOMAIN homes \cup DOMAIN sh |->
                              IF s \in DOMAIN homes THEN homes[s] ELSE sh[s]]
    BY DEF Laid
  <2>3. DOMAIN homes \cup DOMAIN sh = DOMAIN shelf
    BY <1>5, <1>6, <1>13
  <2>4. \A s \in DOMAIN shelf : (IF s \in DOMAIN homes THEN homes[s] ELSE sh[s]) = shelf[s]
    BY <1>6, <1>13
  <2> QED BY <2>1, <2>2, <2>3, <2>4
<1>15. Restored(after, c) = Library
  BY <1>1, <1>2, <1>4, <1>9, <1>14 DEF Library
<1> QED BY <1>1, <1>4, <1>15 DEF after

-----------------------------------------------------------------------------
(* The order of siblings.                                                  *)

(* S in the order of the rows: each of them once, the earlier first.       *)
Ordered(cs, S, order) ==
    /\ order \in Seq(S) /\ Len(order) = Cardinality(S)
    /\ \A i, j \in 1 .. Len(order) : i < j => Before(cs, order[i], order[j])

(* Every member has one rank, and those before it have the ranks below.    *)
Ranked(cs, S, order) ==
    /\ \A d \in S : \E k \in 1 .. Len(order) : order[k] = d
    /\ \A i \in 1 .. Len(order) :
           /\ order[i] \in S
           /\ Predecessors(cs, S, order[i]) = {order[j] : j \in 1 .. i - 1}
           /\ Cardinality(Predecessors(cs, S, order[i])) = i - 1
    /\ \A i, j \in 1 .. Len(order) : order[i] = order[j] => i = j

(* What comes before a rank.                                               *)
LEMMA OrderedRanks ==
  ASSUME NEW cs, ColsOK(cs), NEW S \in SUBSET DOMAIN cs, NEW order, Ordered(cs, S, order)
  PROVE  Ranked(cs, S, order)
<1> DEFINE n == Cardinality(S)
           ranks == 1 .. n
<1>0. /\ n \in Nat /\ IsFiniteSet(S) /\ order \in [ranks -> S] /\ Len(order) = n
      /\ \A i, j \in ranks : i < j => Before(cs, order[i], order[j])
      /\ \A i \in ranks : order[i] \in S /\ order[i] \in DOMAIN cs
  <2>1. n \in Nat /\ IsFiniteSet(S)
    BY RankIsBijection
  <2>2. order \in Seq(S) /\ Len(order) = n
        /\ \A i, j \in 1 .. Len(order) : i < j => Before(cs, order[i], order[j])
    BY DEF Ordered
  <2>3. order \in [1 .. Len(order) -> S]
    BY <2>2
  <2> QED BY <2>1, <2>2, <2>3
<1>1. \A i, j \in ranks : order[i] = order[j] => i = j
  <2> SUFFICES ASSUME NEW i \in ranks, NEW j \in ranks, order[i] = order[j], i < j
               PROVE  FALSE
    BY <1>0
  <2> QED BY <1>0, BeforeIsOrder
<1>2. order \in Injection(ranks, S)
  BY <1>0, <1>1, Fun_IsInj
<1>3. IsFiniteSet(ranks) /\ Cardinality(ranks) = n
  BY <1>0, FS_Interval
<1>4. order \in Surjection(ranks, S)
  BY <1>0, <1>2, <1>3, FS_Injection
<1>5. \A d \in S : \E k \in ranks : order[k] = d
  <2> HIDE DEF ranks
  <2> QED BY <1>4, Fun_SurjectionProperties
<1>6. ASSUME NEW i \in ranks
      PROVE  Predecessors(cs, S, order[i]) = {order[j] : j \in 1 .. i - 1}
  <2>1. ASSUME NEW j \in 1 .. i - 1 PROVE order[j] \in Predecessors(cs, S, order[i])
    <3>1. j \in ranks /\ j < i
      BY <1>0
    <3> QED BY <1>0, <3>1 DEF Predecessors
  <2>2. ASSUME NEW d \in Predecessors(cs, S, order[i]) PROVE d \in {order[j] : j \in 1 .. i - 1}
    <3>1. d \in S /\ Before(cs, d, order[i])
      BY DEF Predecessors
    <3>2. PICK k \in ranks : order[k] = d
      BY <1>5, <3>1
    <3>3. ~ (i < k) /\ k # i
      BY <1>0, <3>1, <3>2, BeforeIsOrder
    <3>4. k \in 1 .. i - 1
      BY <1>0, <3>3
    <3> QED BY <3>2, <3>4
  <2> QED BY <2>1, <2>2
<1>7. ASSUME NEW i \in ranks PROVE Cardinality({order[j] : j \in 1 .. i - 1}) = i - 1
  <2> DEFINE T == 1 .. i - 1
             U == {order[j] : j \in T}
             f == [j \in T |-> order[j]]
  <2>1. i - 1 \in Nat /\ T \subseteq ranks
    BY <1>0
  <2>2. IsFiniteSet(T) /\ Cardinality(T) = i - 1
    BY <2>1, FS_Interval
  <2>3. f \in [T -> U] /\ \A j, k \in T : f[j] = f[k] => j = k
    BY <1>1, <2>1
  <2>4. \A u \in U : \E j \in T : f[j] = u
    OBVIOUS
  <2> HIDE DEF T, U, f
  <2>5. f \in Bijection(T, U)
    <3>1. f \in Injection(T, U)
      BY <2>3, Fun_IsInj
    <3>2. f \in Surjection(T, U)
      BY <2>3, <2>4, Fun_IsSurj
    <3> QED BY <3>1, <3>2 DEF Bijection
  <2>6. IsFiniteSet(U) /\ Cardinality(U) = Cardinality(T)
    BY <2>2, <2>5, FS_Bijection DEF ExistsBijection
  <2> QED BY <2>2, <2>6 DEF U, T
<1> QED BY <1>0, <1>1, <1>5, <1>6, <1>7 DEF Ranked

(* The order the model computes is one.                                    *)
LEMMA InOrderIsOrdered ==
  ASSUME NEW cs, ColsOK(cs), NEW S \in SUBSET DOMAIN cs
  PROVE  Ordered(cs, S, InOrder(cs, S))
<1> DEFINE o == InOrder(cs, S)
<1>0. /\ o \in Seq(S) /\ Len(o) = Cardinality(S) /\ Cardinality(S) \in Nat
      /\ \A i \in 1 .. Len(o) : o[i] \in S /\ Rank(cs, S)[o[i]] = i - 1
  BY InOrderRanks, RankIsBijection
<1> HIDE DEF o
<1>1. ASSUME NEW i \in 1 .. Len(o), NEW j \in 1 .. Len(o), i < j
      PROVE  Before(cs, o[i], o[j])
  <2> SUFFICES ASSUME ~ Before(cs, o[i], o[j]) PROVE FALSE
    OBVIOUS
  <2> DEFINE a == o[i]
             b == o[j]
  <2>0. a \in S /\ b \in S /\ a \in DOMAIN cs /\ b \in DOMAIN cs
    BY <1>0
  <2>1. Cardinality(Predecessors(cs, S, a)) = i - 1 /\ Cardinality(Predecessors(cs, S, b)) = j - 1
    BY <1>0, <2>0 DEF Rank
  <2> HIDE DEF a, b
  <2>2. Before(cs, b, a)
    <3>1. a # b
      BY <1>0, <1>1, <2>1
    <3> QED BY <2>0, <3>1, BeforeIsOrder DEF a, b
  <2>3. Predecessors(cs, S, b) \subseteq Predecessors(cs, S, a)
    BY <2>0, <2>2, BeforeIsOrder DEF Predecessors
  <2>4. IsFiniteSet(Predecessors(cs, S, a))
    <3>1. IsFiniteSet(S) /\ Predecessors(cs, S, a) \in SUBSET S
      BY RankIsBijection DEF Predecessors
    <3> QED BY <3>1, FS_Subset
  <2>5. Cardinality(Predecessors(cs, S, b)) <= Cardinality(Predecessors(cs, S, a))
    BY <2>3, <2>4, FS_Subset
  <2> QED BY <1>0, <1>1, <2>1, <2>5
<1> QED BY <1>0, <1>1 DEF Ordered, o

(* There is no other.                                                      *)
LEMMA OrderedIsInOrder ==
  ASSUME NEW cs, ColsOK(cs), NEW S \in SUBSET DOMAIN cs, NEW order, Ordered(cs, S, order)
  PROVE  InOrder(cs, S) = order
<1> DEFINE n == Cardinality(S)
           at(c) == Cardinality({d \in S : Before(cs, d, c)})
<1>0. n \in Nat /\ order \in [1 .. n -> S] /\ Len(order) = n
  <2>1. n \in Nat /\ order \in Seq(S) /\ Len(order) = n
    BY RankIsBijection DEF Ordered
  <2> QED BY <2>1
<1>4. /\ \A d \in S : \E k \in 1 .. n : order[k] = d
      /\ \A k \in 1 .. n : order[k] \in S /\ at(order[k]) = k - 1
  <2>1. /\ \A d \in S : \E k \in 1 .. Len(order) : order[k] = d
        /\ \A k \in 1 .. Len(order) :
              order[k] \in S /\ Cardinality(Predecessors(cs, S, order[k])) = k - 1
    <3>1. Ranked(cs, S, order)
      BY OrderedRanks
    <3> QED BY <3>1 DEF Ranked
  <2> QED BY <1>0, <2>1 DEF Predecessors
<1> HIDE DEF at
<1>1. ASSUME NEW i \in 1 .. n PROVE (CHOOSE c \in S : at(c) = i - 1) = order[i]
  <2>1. order[i] \in S /\ at(order[i]) = i - 1
    BY <1>4
  <2>2. ASSUME NEW c \in S, at(c) = i - 1 PROVE c = order[i]
    <3>1. PICK k \in 1 .. n : order[k] = c
      BY <1>4
    <3>2. at(order[k]) = k - 1
      BY <1>4
    <3> QED BY <1>0, <2>2, <3>1, <3>2
  <2> QED BY <2>1, <2>2
<1>2. InOrder(cs, S) = [i \in 1 .. n |-> CHOOSE c \in S : at(c) = i - 1]
  BY DEF InOrder, at
<1>3. order = [i \in 1 .. n |-> order[i]]
  BY <1>0
<1> QED BY <1>1, <1>2, <1>3

(* The order depends on the positions alone.                               *)
LEMMA SameOrder ==
  ASSUME NEW cs, ColsOK(cs), NEW ds, ColsOK(ds), NEW S \in SUBSET DOMAIN cs,
         S \in SUBSET DOMAIN ds, \A d \in S : ds[d].position = cs[d].position
  PROVE  InOrder(ds, S) = InOrder(cs, S)
<1> DEFINE o == InOrder(cs, S)
<1>1. Ordered(cs, S, o)
  BY InOrderIsOrdered
<1> HIDE DEF o
<1>2. \A i \in 1 .. Len(o) : o[i] \in S
  BY <1>1, OrderedRanks DEF Ranked
<1>3. Ordered(ds, S, o)
  BY <1>1, <1>2 DEF Ordered, Before
<1> QED BY <1>3, OrderedIsInOrder DEF o

(* Numbered from 0 in an order, they are in this order.                    *)
LEMMA NumberedIsOrdered ==
  ASSUME NEW ds, ColsOK(ds), NEW S \in SUBSET DOMAIN ds, NEW order \in Seq(S),
         Len(order) = Cardinality(S),
         \A k \in 1 .. Len(order) : ds[order[k]].position = k - 1
  PROVE  InOrder(ds, S) = order
<1>1. \A i, j \in 1 .. Len(order) : i < j => Before(ds, order[i], order[j])
  BY DEF Before
<1>2. Ordered(ds, S, order)
  BY <1>1 DEF Ordered
<1> QED BY <1>2, OrderedIsInOrder

(* Numbering anew gives each its place, and leaves the rest.               *)
LEMMA RenumberedPositions ==
  ASSUME NEW cs \in Seq(Collections), NEW order \in Seq(DOMAIN cs),
         \A i, j \in 1 .. Len(order) : order[i] = order[j] => i = j
  PROVE  /\ \A k \in 1 .. Len(order) : Renumbered(cs, order)[order[k]].position = k - 1
         /\ \A d \in DOMAIN cs : d \notin Range(order) => Renumbered(cs, order)[d] = cs[d]
<1> DEFINE ds == Renumbered(cs, order)
<1>0. DOMAIN order = 1 .. Len(order) /\ Len(order) \in Nat
  OBVIOUS
<1>1. ASSUME NEW k \in 1 .. Len(order) PROVE ds[order[k]].position = k - 1
  <2> DEFINE d == order[k]
             m == CHOOSE j \in DOMAIN order : order[j] = d
  <2>1. d \in DOMAIN cs /\ d \in Range(order) /\ cs[d] \in Collections
    <3>1. d \in DOMAIN cs
      BY <1>0
    <3>2. d \in Range(order)
      BY <1>0 DEF Range
    <3> QED BY <3>1, <3>2
  <2>2. m \in DOMAIN order /\ order[m] = d
    BY <1>0
  <2>3. m = k
    BY <1>0, <2>2
  <2>4. ds[d] = [cs[d] EXCEPT !.position = m - 1]
    BY <2>1 DEF Renumbered
  <2> HIDE DEF ds, d, m
  <2>5. ds[d].position = k - 1
    BY <2>1, <2>3, <2>4 DEF Collections
  <2> QED BY <2>5 DEF d
<1>2. \A d \in DOMAIN cs : d \notin Range(order) => ds[d] = cs[d]
  BY DEF Renumbered
<1> QED BY <1>1, <1>2

(* s has c after the first m members of o.                                 *)
InsertedInto(s, o, m, c) ==
    /\ Len(s) = Len(o) + 1
    /\ \A k \in 1 .. m : s[k] = o[k]
    /\ s[m + 1] = c
    /\ \A k \in m + 1 .. Len(o) : s[k + 1] = o[k]

(* A place in a sequence is made.                                          *)
LEMMA InsertedAt ==
  ASSUME NEW S, NEW others \in Seq(S), NEW m \in 0 .. Len(others), NEW c
  PROVE  /\ InsertAt(others, m + 1, c) \in Seq(S \cup {c})
         /\ InsertedInto(InsertAt(others, m + 1, c), others, m, c)
<1> DEFINE j == m + 1
           a == SubSeq(others, 1, m)
           b == SubSeq(others, j, Len(others))
           r == InsertAt(others, j, c)
<1>0. Len(others) \in Nat /\ m \in Nat /\ j - 1 = m /\ j \in 1 .. Len(others) + 1
      /\ DOMAIN others = 1 .. Len(others)
  OBVIOUS
<1> HIDE DEF j
<1>1. r = SubSeq(others, 1, j - 1) \o <<c>> \o SubSeq(others, j, Len(others))
  BY DEF InsertAt
<1>2. r = a \o <<c>> \o b
  BY <1>0, <1>1
<1> HIDE DEF r
<1>3. a \in Seq(S) /\ Len(a) = m /\ \A k \in 1 .. m : a[k] = others[k]
  BY <1>0
<1>4. b \in Seq(S) /\ Len(b) = Len(others) - m
      /\ \A k \in 1 .. Len(others) - m : b[k] = others[k + m]
  <2> DEFINE n == Len(others)
  <2>1. b = SubSeq(others, j, n) /\ j \in Int /\ n \in Int /\ \A k \in j .. n : others[k] \in S
    BY <1>0
  <2> HIDE DEF b, n
  <2>2. /\ b \in Seq(S)
        /\ Len(b) = IF j <= n THEN n - j + 1 ELSE 0
        /\ \A k \in 1 .. n - j + 1 : b[k] = others[j + k - 1]
    BY <2>1, SubSeqProperties
  <2>3. j = m + 1 /\ n = Len(others)
    BY DEF j, n
  <2>4. Len(b) = Len(others) - m
    <3>1. n \in Nat /\ m \in 0 .. n /\ j = m + 1
      BY <1>0, <2>3
    <3>2. CASE j <= n
      <4>1. Len(b) = n - j + 1
        BY <2>2, <3>2
      <4> QED BY <2>3, <3>1, <4>1
    <3>3. CASE ~ (j <= n)
      <4>1. Len(b) = 0 /\ m = n
        BY <2>2, <3>1, <3>3
      <4> QED BY <2>3, <3>1, <4>1
    <3> QED BY <3>2, <3>3
  <2>5. \A k \in 1 .. Len(others) - m : b[k] = others[k + m]
    <3>1. n - j + 1 = Len(others) - m
      BY <1>0, <2>3
    <3>2. \A k \in Nat : j + k - 1 = k + m
      BY <1>0, <2>3
    <3> QED BY <2>2, <3>1, <3>2
  <2> QED BY <2>2, <2>4, <2>5
<1> HIDE DEF a, b
<1> DEFINE h == a \o <<c>>
<1>5. h \in Seq(S \cup {c}) /\ Len(h) = m + 1 /\ h[m + 1] = c /\ \A k \in 1 .. m : h[k] = others[k]
  BY <1>0, <1>3
<1>6. r = h \o b
  BY <1>2
<1> HIDE DEF h
<1>7. b \in Seq(S \cup {c})
  BY <1>4
<1>8. r \in Seq(S \cup {c}) /\ Len(r) = Len(others) + 1
      /\ (\A k \in 1 .. m + 1 : r[k] = h[k])
      /\ \A k \in 1 .. Len(others) - m : r[k + m + 1] = b[k]
  BY <1>0, <1>4, <1>5, <1>6, <1>7
<1>9. ASSUME NEW k \in m + 1 .. Len(others) PROVE r[k + 1] = others[k]
  <2>1. k - m \in 1 .. Len(others) - m /\ (k - m) + m + 1 = k + 1 /\ (k - m) + m = k
    BY <1>0
  <2> QED BY <1>4, <1>8, <2>1
<1>10. r = InsertAt(others, m + 1, c)
  BY DEF r, j
<1> QED BY <1>5, <1>8, <1>9, <1>10 DEF InsertedInto

(* A sequence without its k-th member.                                     *)
DroppedAt(o, k) == [j \in 1 .. Len(o) - 1 |-> IF j < k THEN o[j] ELSE o[j + 1]]

(* Two sequences with the same members at the same places are one.         *)
LEMMA SameMembers ==
  ASSUME NEW S, NEW r \in Seq(S), NEW T, NEW s \in Seq(T), Len(r) = Len(s),
         \A j \in 1 .. Len(s) : r[j] = s[j]
  PROVE  r = s
<1>1. r = [j \in 1 .. Len(s) |-> r[j]]
  OBVIOUS
<1>2. s = [j \in 1 .. Len(s) |-> s[j]]
  OBVIOUS
<1> QED BY <1>1, <1>2

(* What is dropped shortens the order.                                     *)
LEMMA DroppedIsSequence ==
  ASSUME NEW S, NEW o \in Seq(S), NEW k \in 1 .. Len(o)
  PROVE  DroppedAt(o, k) \in Seq(S) /\ Len(DroppedAt(o, k)) = Len(o) - 1
<1> DEFINE n == Len(o) - 1
<1>1. n \in Nat /\ \A j \in 1 .. n : o[j] \in S /\ o[j + 1] \in S
  OBVIOUS
<1>2. DroppedAt(o, k) = [j \in 1 .. n |-> IF j < k THEN o[j] ELSE o[j + 1]]
  BY DEF DroppedAt
<1> HIDE DEF n
<1>3. DroppedAt(o, k) \in [1 .. n -> S]
  BY <1>1, <1>2
<1>4. DroppedAt(o, k) \in Seq(S) /\ Len(DroppedAt(o, k)) = n
  BY <1>1, <1>3
<1> QED BY <1>4 DEF n

(* The order of the others is the order without the one.                   *)
LEMMA DroppedIsOrdered ==
  ASSUME NEW cs, ColsOK(cs), NEW S \in SUBSET DOMAIN cs, NEW o, Ordered(cs, S, o),
         NEW k \in 1 .. Len(o)
  PROVE  Ordered(cs, S \ {o[k]}, DroppedAt(o, k))
<1> DEFINE r == DroppedAt(o, k)
           at(j) == IF j < k THEN j ELSE j + 1
           n == Len(o)
<1>0. /\ n \in Nat /\ o \in Seq(S) /\ n = Cardinality(S) /\ IsFiniteSet(S)
      /\ \A i, j \in 1 .. n : i < j => Before(cs, o[i], o[j])
  BY RankIsBijection DEF Ordered
<1>1. Ranked(cs, S, o)
  BY OrderedRanks
<1>2. (\A j \in 1 .. n : o[j] \in S) /\ \A i, j \in 1 .. n : o[i] = o[j] => i = j
  BY <1>1 DEF Ranked
<1>3. r \in Seq(S) /\ Len(r) = n - 1
  BY <1>0, DroppedIsSequence
<1>4. ASSUME NEW j \in 1 .. n - 1 PROVE r[j] = o[at(j)] /\ at(j) \in 1 .. n /\ at(j) # k
  BY <1>0 DEF DroppedAt
<1>5. ASSUME NEW i \in 1 .. n - 1, NEW j \in 1 .. n - 1, i < j PROVE at(i) < at(j)
  BY <1>0, <1>5
<1> HIDE DEF at, r, n
<1>6. \A j \in 1 .. n - 1 : r[j] \in S \ {o[k]}
  BY <1>2, <1>4 DEF n
<1>7. r \in Seq(S \ {o[k]})
  BY <1>0, <1>3, <1>6
<1>8. Cardinality(S \ {o[k]}) = n - 1
  <2>1. o[k] \in S
    BY <1>2 DEF n
  <2> QED BY <1>0, <2>1, FS_RemoveElement
<1>9. \A i, j \in 1 .. Len(r) : i < j => Before(cs, r[i], r[j])
  BY <1>0, <1>3, <1>4, <1>5
<1> QED BY <1>3, <1>7, <1>8, <1>9 DEF Ordered, r

(* Put back where it was dropped, it is where it was.                      *)
LEMMA InsertDropped ==
  ASSUME NEW S, NEW o \in Seq(S), NEW k \in 1 .. Len(o)
  PROVE  InsertAt(DroppedAt(o, k), k, o[k]) = o
<1> DEFINE r == DroppedAt(o, k)
           m == k - 1
           c == o[k]
           s == InsertAt(r, m + 1, c)
           n == Len(o)
<1>0. n \in Nat /\ k = m + 1 /\ k \in Nat /\ m \in 0 .. n - 1
  OBVIOUS
<1>1. r \in Seq(S) /\ Len(r) = n - 1
  BY DroppedIsSequence
<1>2. \A j \in 1 .. n - 1 : r[j] = IF j < k THEN o[j] ELSE o[j + 1]
  BY DEF DroppedAt
<1> HIDE DEF r, c, m, n
<1>3. /\ s \in Seq(S \cup {c})
      /\ Len(s) = Len(r) + 1
      /\ \A j \in 1 .. m : s[j] = r[j]
      /\ s[m + 1] = c
      /\ \A j \in m + 1 .. Len(r) : s[j + 1] = r[j]
  <2>1. m \in 0 .. Len(r)
    BY <1>0, <1>1
  <2> HIDE DEF s
  <2>2. s \in Seq(S \cup {c}) /\ InsertedInto(s, r, m, c)
    BY <1>1, <2>1, InsertedAt DEF s
  <2> QED BY <2>2 DEF InsertedInto
<1> HIDE DEF s
<1>4. ASSUME NEW j \in 1 .. n PROVE s[j] = o[j]
  <2>1. CASE j < k
    <3>1. j \in 1 .. m /\ j \in 1 .. n - 1
      BY <1>0, <2>1
    <3> QED BY <1>2, <1>3, <2>1, <3>1
  <2>2. CASE j = k
    BY <1>0, <1>3, <2>2 DEF c
  <2>3. CASE j > k
    <3>1. j - 1 \in m + 1 .. Len(r) /\ j - 1 \in 1 .. n - 1 /\ ~ (j - 1 < k) /\ (j - 1) + 1 = j
      BY <1>0, <1>1, <2>3
    <3>2. s[(j - 1) + 1] = r[j - 1] /\ r[j - 1] = o[(j - 1) + 1]
      BY <1>2, <1>3, <3>1
    <3> QED BY <3>1, <3>2
  <2> QED BY <1>0, <2>1, <2>2, <2>3
<1>5. Len(s) = Len(o)
  BY <1>0, <1>1, <1>3 DEF n
<1>6. s = o
  BY <1>3, <1>4, <1>5, SameMembers DEF n
<1> QED BY <1>0, <1>6 DEF s, r, c

(* Dropped where it was put, the others are as they were.                  *)
LEMMA DropInserted ==
  ASSUME NEW S, NEW others \in Seq(S), NEW m \in 0 .. Len(others), NEW c
  PROVE  DroppedAt(InsertAt(others, m + 1, c), m + 1) = others
<1> DEFINE s == InsertAt(others, m + 1, c)
           n == Len(others)
           r == DroppedAt(s, m + 1)
<1>1. /\ s \in Seq(S \cup {c})
      /\ Len(s) = n + 1
      /\ \A j \in 1 .. m : s[j] = others[j]
      /\ \A j \in m + 1 .. n : s[j + 1] = others[j]
  <2> HIDE DEF s
  <2>1. s \in Seq(S \cup {c}) /\ InsertedInto(s, others, m, c)
    BY InsertedAt DEF s
  <2> QED BY <2>1 DEF InsertedInto
<1>2. n \in Nat /\ m \in 0 .. n
  OBVIOUS
<1> HIDE DEF s, n
<1>3. m + 1 \in 1 .. Len(s)
  BY <1>1, <1>2
<1>4. r \in Seq(S \cup {c}) /\ Len(r) = n
  <2>1. r \in Seq(S \cup {c}) /\ Len(r) = Len(s) - 1
    BY <1>1, <1>3, DroppedIsSequence
  <2> QED BY <1>1, <1>2, <2>1
<1>5. \A j \in 1 .. n : r[j] = IF j < m + 1 THEN s[j] ELSE s[j + 1]
  BY <1>1, <1>2 DEF DroppedAt
<1> HIDE DEF r
<1>6. ASSUME NEW j \in 1 .. n PROVE r[j] = others[j]
  <2>1. CASE j < m + 1
    <3>1. j \in 1 .. m
      BY <1>2, <2>1
    <3> QED BY <1>1, <1>5, <2>1, <3>1
  <2>2. CASE ~ (j < m + 1)
    <3>1. j \in m + 1 .. n
      BY <1>2, <2>2
    <3> QED BY <1>1, <1>5, <2>2, <3>1
  <2> QED BY <2>1, <2>2
<1>7. Len(r) = Len(others) /\ \A j \in 1 .. Len(others) : r[j] = others[j]
  BY <1>4, <1>6 DEF n
<1>8. r = others
  BY <1>4, <1>7, SameMembers
<1> QED BY <1>8 DEF r, s

-----------------------------------------------------------------------------
(* The order after a move.                                                 *)

(* A sequence of different members of S.                                   *)
Different(order, S) ==
    order \in Seq(S) /\ \A i, j \in 1 .. Len(order) : order[i] = order[j] => i = j

(* The order of some collections has each once.                            *)
LEMMA InOrderIsDifferent ==
  ASSUME NEW cs, ColsOK(cs), NEW S \in SUBSET DOMAIN cs
  PROVE  Different(InOrder(cs, S), S) /\ Len(InOrder(cs, S)) = Cardinality(S)
<1> DEFINE o == InOrder(cs, S)
<1>1. Ordered(cs, S, o)
  BY InOrderIsOrdered
<1> HIDE DEF o
<1>2. Ranked(cs, S, o)
  BY <1>1, OrderedRanks
<1> QED BY <1>1, <1>2 DEF Ordered, Ranked, Different, o

(* A sequence of all members of U, each once, with c after m of them.      *)
HasOnce(s, U, m, c) ==
    /\ Different(s, U) /\ Len(s) = Cardinality(U)
    /\ m + 1 \in 1 .. Len(s) /\ s[m + 1] = c

(* With c put among them it still has each once.                           *)
LEMMA InsertedIsDifferent ==
  ASSUME NEW S, IsFiniteSet(S), NEW others, Different(others, S),
         Len(others) = Cardinality(S), NEW m \in 0 .. Len(others), NEW c, c \notin S
  PROVE  HasOnce(InsertAt(others, m + 1, c), S \cup {c}, m, c)
<1> DEFINE s == InsertAt(others, m + 1, c)
           n == Len(others)
           at(k) == IF k < m + 1 THEN k ELSE k - 1
<1>0. n \in Nat /\ others \in Seq(S) /\ m \in 0 .. n
      /\ (\A j \in 1 .. n : others[j] \in S)
      /\ \A j, k \in 1 .. n : others[j] = others[k] => j = k
  BY DEF Different
<1>1. s \in Seq(S \cup {c}) /\ InsertedInto(s, others, m, c)
  <2> HIDE DEF s
  <2> QED BY <1>0, InsertedAt DEF s
<1> HIDE DEF s
<1>2. Len(s) = n + 1 /\ s[m + 1] = c
  BY <1>1 DEF InsertedInto
<1>3. ASSUME NEW k \in 1 .. n + 1, k # m + 1
      PROVE  at(k) \in 1 .. n /\ s[k] = others[at(k)]
  <2>1. CASE k < m + 1
    <3>1. k \in 1 .. m /\ k \in 1 .. n
      BY <1>0, <2>1
    <3> QED BY <1>1, <2>1, <3>1 DEF InsertedInto
  <2>2. CASE k > m + 1
    <3>1. k - 1 \in m + 1 .. n /\ (k - 1) + 1 = k /\ at(k) = k - 1
      BY <1>0, <2>2
    <3>2. \A j \in m + 1 .. n : s[j + 1] = others[j]
      BY <1>1 DEF InsertedInto
    <3>3. s[(k - 1) + 1] = others[k - 1]
      BY <3>1, <3>2
    <3> QED BY <1>0, <3>1, <3>3
  <2> QED BY <1>0, <1>3, <2>1, <2>2
<1>4. ASSUME NEW j \in 1 .. n + 1, NEW k \in 1 .. n + 1, s[j] = s[k] PROVE j = k
  <2>1. CASE j = m + 1 \/ k = m + 1
    <3> HIDE DEF at
    <3> QED BY <1>0, <1>2, <1>3, <1>4, <2>1
  <2>2. CASE j # m + 1 /\ k # m + 1
    <3>1. at(j) = at(k)
      <4> HIDE DEF at
      <4> QED BY <1>0, <1>3, <1>4, <2>2
    <3> QED BY <1>0, <2>2, <3>1
  <2> QED BY <2>1, <2>2
<1>5. Cardinality(S \cup {c}) = n + 1
  BY FS_AddElement
<1>6. m + 1 \in 1 .. n + 1
  BY <1>0
<1> HIDE DEF n
<1> QED BY <1>1, <1>2, <1>4, <1>5, <1>6 DEF Different, HasOnce, s

(* The members of `order` carry the numbers of their places.               *)
Numbered(ds, order) == \A k \in 1 .. Len(order) : ds[order[k]].position = k - 1

(* Numbering anew keeps a fit history of collections fit.                  *)
LEMMA NumberedOnce ==
  ASSUME NEW cs \in Seq(Collections), NEW S \in SUBSET DOMAIN cs,
         NEW order, Different(order, S)
  PROVE  /\ Numbered(Renumbered(cs, order), order)
         /\ Renumbered(cs, order) \in Seq(Collections)
         /\ DOMAIN Renumbered(cs, order) = DOMAIN cs
<1>1. order \in Seq(S) /\ order \in Seq(DOMAIN cs)
      /\ \A i, j \in 1 .. Len(order) : order[i] = order[j] => i = j
  BY DEF Different
<1>2. Renumbered(cs, order) \in Seq(Collections)
  BY <1>1, RenumberedKeeps
<1>3. \A k \in 1 .. Len(order) : Renumbered(cs, order)[order[k]].position = k - 1
  BY <1>1, RenumberedPositions
<1>4. DOMAIN Renumbered(cs, order) = DOMAIN cs
  BY DEF Renumbered
<1> QED BY <1>2, <1>3, <1>4 DEF Numbered

(* The numbers given stay where the next numbering does not reach.         *)
LEMMA NumberedTwice ==
  ASSUME NEW cs \in Seq(Collections), NEW S \in SUBSET DOMAIN cs, NEW order, Different(order, S),
         NEW T \in SUBSET DOMAIN cs, NEW left, Different(left, T), S \cap T = {}
  PROVE  LET here == Renumbered(cs, order)
             ds == Renumbered(here, left)
         IN  Numbered(ds, order) /\ Numbered(ds, left)
<1> DEFINE here == Renumbered(cs, order)
           ds == Renumbered(here, left)
<1>1. here \in Seq(Collections) /\ DOMAIN here = DOMAIN cs /\ Numbered(here, order)
  BY NumberedOnce
<1>2. order \in Seq(S) /\ left \in Seq(DOMAIN cs)
      /\ (\A k \in 1 .. Len(order) : order[k] \in S) /\ Range(left) \subseteq T
      /\ \A i, j \in 1 .. Len(left) : left[i] = left[j] => i = j
  BY DEF Different, Range
<1> HIDE DEF here
<1>3. left \in Seq(DOMAIN here)
  BY <1>1, <1>2
<1>4. /\ \A k \in 1 .. Len(left) : ds[left[k]].position = k - 1
      /\ \A d \in DOMAIN here : d \notin Range(left) => ds[d] = here[d]
  BY <1>1, <1>2, <1>3, RenumberedPositions
<1> HIDE DEF ds
<1>5. \A k \in 1 .. Len(order) : ds[order[k]].position = k - 1
  BY <1>1, <1>2, <1>4 DEF Numbered
<1> QED BY <1>4, <1>5 DEF Numbered, here, ds

(* c hung below p in a tree of the same collections.                       *)
Rehung(cs, ds, c, p) ==
    /\ ColsOK(ds) /\ DOMAIN ds = DOMAIN cs /\ ds[c].parent = p
    /\ \A d \in DOMAIN cs :
           /\ ds[d].dead = cs[d].dead
           /\ ds[d].name = cs[d].name
           /\ d # c => ds[d].parent = cs[d].parent

(* A move does that.                                                       *)
LEMMA PlacedIsRehung ==
  ASSUME NEW cs, ColsOK(cs), NEW c \in DOMAIN cs, NEW p \in 0 .. Len(cs), NEW i \in Nat
  PROVE  Rehung(cs, Placed(cs, c, p, i), c, p)
<1> DEFINE ds == Placed(cs, c, p, i)
<1>0. p \in Nat /\ Len(cs) \in Nat /\ DOMAIN cs = 1 .. Len(cs)
  BY LiveFinite
<1> HIDE DEF ds
<1>1. /\ Placed(cs, c, p, i) \in Seq(Collections)
      /\ Len(Placed(cs, c, p, i)) = Len(cs)
      /\ \A d \in DOMAIN cs :
             /\ Placed(cs, c, p, i)[d].dead = cs[d].dead
             /\ Placed(cs, c, p, i)[d].name = cs[d].name
             /\ d # c => Placed(cs, c, p, i)[d].parent = cs[d].parent
      /\ Placed(cs, c, p, i)[c].parent = p
  <2>1. c \in DOMAIN cs /\ ColsOK(cs) /\ p \in Nat
    BY <1>0
  <2> QED BY <2>1, PlacedKeeps
<1>2. /\ ds \in Seq(Collections) /\ Len(ds) = Len(cs) /\ ds[c].parent = p
      /\ \A d \in DOMAIN cs :
             /\ ds[d].dead = cs[d].dead
             /\ ds[d].name = cs[d].name
             /\ d # c => ds[d].parent = cs[d].parent
  BY <1>1 DEF ds
<1>3. DOMAIN ds = DOMAIN cs
  BY <1>0, <1>2
<1>4. \A d \in DOMAIN ds : ds[d].parent \in 0 .. Len(ds)
  BY <1>2, <1>3 DEF ColsOK
<1>5. ColsOK(ds)
  BY <1>2, <1>4 DEF ColsOK
<1> QED BY <1>2, <1>3, <1>5 DEF Rehung, ds

(* Hung elsewhere, the collections stay fit to be numbered.                *)
LEMMA HungKeeps ==
  ASSUME NEW cs, ColsOK(cs), NEW c \in DOMAIN cs, NEW p \in Nat
  PROVE  /\ [cs EXCEPT ![c].parent = p] \in Seq(Collections)
         /\ DOMAIN [cs EXCEPT ![c].parent = p] = DOMAIN cs
<1> DEFINE r == [cs[c] EXCEPT !.parent = p]
           hung == [cs EXCEPT ![c].parent = p]
<1>1. r \in Collections
  <2>1. cs[c] \in Collections
    BY DEF ColsOK
  <2> QED BY <2>1 DEF Collections
<1>2. hung = [cs EXCEPT ![c] = r]
  OBVIOUS
<1> HIDE DEF hung, r
<1>3. hung \in Seq(Collections) /\ DOMAIN hung = DOMAIN cs
  BY <1>1, <1>2 DEF ColsOK
<1> QED BY <1>3 DEF hung

(* Where a move leaves the children of p and of the place c left.          *)
Settled(cs, ds, c, p, i) ==
    LET others == Others(cs, p, c)
        m == Min({i, Len(others)})
        home == cs[c].parent
    IN  /\ m \in 0 .. Len(others) /\ (i <= Len(others) => m = i)
        /\ Children(ds, p) = InsertAt(others, m + 1, c)
        /\ Others(ds, p, c) = others
        /\ home # p => Children(ds, home) = Others(cs, home, c)

(* A move puts c at its place and leaves the others in their order.        *)
LEMMA PlacedIsSettled ==
  ASSUME NEW cs, ColsOK(cs), NEW c \in Live(cs), NEW p \in 0 .. Len(cs), NEW i \in Nat
  PROVE  Settled(cs, Placed(cs, c, p, i), c, p, i)
<1> DEFINE S == ChildrenOf(cs, p) \ {c}
           others == Others(cs, p, c)
           m == Min({i, Len(others)})
           home == cs[c].parent
           T == ChildrenOf(cs, home) \ {c}
           left == Others(cs, home, c)
           hung == [cs EXCEPT ![c].parent = p]
           order == InsertAt(others, m + 1, c)
           here == Renumbered(hung, order)
           ds == Placed(cs, c, p, i)
<1>0. /\ c \in DOMAIN cs /\ p \in Nat /\ Len(cs) \in Nat /\ DOMAIN cs = 1 .. Len(cs)
      /\ S \in SUBSET DOMAIN cs /\ T \in SUBSET DOMAIN cs /\ c \notin S /\ c \notin T
      /\ S \cup {c} \in SUBSET DOMAIN cs
  BY LiveFinite DEF Live, ChildrenOf
<1>1. Different(others, S) /\ Len(others) = Cardinality(S) /\ IsFiniteSet(S)
  BY <1>0, InOrderIsDifferent, RankIsBijection DEF Others
<1>2. Different(left, T) /\ Len(left) = Cardinality(T)
  BY <1>0, InOrderIsDifferent DEF Others
<1>3. hung \in Seq(Collections) /\ DOMAIN hung = DOMAIN cs
  BY <1>0, HungKeeps
<1>4. m \in 0 .. Len(others) /\ (i <= Len(others) => m = i)
  <2>0. Len(others) \in Nat
    BY <1>1 DEF Different
  <2> HIDE DEF others
  <2>1. \E l \in {i, Len(others)} : \A k \in {i, Len(others)} : l <= k
    BY <2>0
  <2>2. m \in {i, Len(others)} /\ \A k \in {i, Len(others)} : m <= k
    BY <2>1 DEF Min
  <2> HIDE DEF m
  <2> QED BY <2>0, <2>2
<1>5. home = p => ds = here
  BY DEF Placed
<1>6. home # p => ds = Renumbered(here, left)
  BY DEF Placed
<1>7. Rehung(cs, ds, c, p)
  <2> HIDE DEF ds
  <2> QED BY <1>0, PlacedIsRehung DEF ds
<1> HIDE DEF ds, here, hung, others, m, left
<1>8. /\ ChildrenOf(ds, p) = S \cup {c}
      /\ home # p => ChildrenOf(ds, home) = T
  BY <1>0, <1>7 DEF ChildrenOf, Live, Rehung
<1>9. home # p => (S \cup {c}) \cap T = {}
  BY DEF ChildrenOf
<1> DEFINE U == S \cup {c}
<1>10. U \in SUBSET DOMAIN cs /\ U \in SUBSET DOMAIN ds /\ T \in SUBSET DOMAIN ds
       /\ U \in SUBSET DOMAIN hung /\ T \in SUBSET DOMAIN hung /\ ColsOK(ds)
  BY <1>0, <1>3, <1>7 DEF Rehung
<1> HIDE DEF S, T, home
<1>11. HasOnce(order, U, m, c)
  BY <1>0, <1>1, <1>4, InsertedIsDifferent
<1>12. /\ ChildrenOf(ds, p) = U
       /\ home # p => ChildrenOf(ds, home) = T /\ U \cap T = {}
  BY <1>8, <1>9
<1>13. U \ {c} = S
  BY <1>0
<1> HIDE DEF order, U
<1>14. Different(order, U)
  BY <1>11 DEF HasOnce
<1>15. home = p => Numbered(ds, order)
  <2>1. Numbered(here, order)
    BY <1>3, <1>10, <1>14, NumberedOnce DEF here
  <2> QED BY <1>5, <2>1
<1>16. home # p => Numbered(ds, order) /\ Numbered(ds, left)
  <2> SUFFICES ASSUME home # p PROVE Numbered(ds, order) /\ Numbered(ds, left)
    OBVIOUS
  <2>1. Different(left, T) /\ U \cap T = {} /\ ds = Renumbered(Renumbered(hung, order), left)
    BY <1>2, <1>6, <1>12 DEF here
  <2> QED BY <1>3, <1>10, <1>14, <2>1, NumberedTwice
<1>17. Children(ds, p) = order
  <2>1. order \in Seq(U) /\ Len(order) = Cardinality(U)
    BY <1>11 DEF HasOnce, Different
  <2>2. \A k \in 1 .. Len(order) : ds[order[k]].position = k - 1
    BY <1>15, <1>16 DEF Numbered
  <2>3. InOrder(ds, U) = order
    BY <1>10, <2>1, <2>2, NumberedIsOrdered
  <2> QED BY <1>12, <2>3 DEF Children
<1>18. home # p => Children(ds, home) = left
  <2> SUFFICES ASSUME home # p PROVE Children(ds, home) = left
    OBVIOUS
  <2>1. left \in Seq(T) /\ Len(left) = Cardinality(T)
    BY <1>2 DEF Different
  <2>2. \A k \in 1 .. Len(left) : ds[left[k]].position = k - 1
    BY <1>16 DEF Numbered
  <2>3. InOrder(ds, T) = left
    BY <1>10, <2>1, <2>2, NumberedIsOrdered
  <2> QED BY <1>12, <2>3 DEF Children
<1>19. Others(ds, p, c) = others
  <2>1. Ordered(ds, U, order)
    <3>1. InOrder(ds, U) = order
      BY <1>12, <1>17 DEF Children
    <3> QED BY <1>10, <3>1, InOrderIsOrdered
  <2>2. m + 1 \in 1 .. Len(order) /\ order[m + 1] = c
    BY <1>11 DEF HasOnce
  <2> DEFINE k == m + 1
  <2>3. Ordered(ds, U \ {order[k]}, DroppedAt(order, k))
    <3>1. k \in 1 .. Len(order)
      BY <2>2
    <3> HIDE DEF k
    <3> QED BY <1>10, <2>1, <3>1, DroppedIsOrdered
  <2>4. DroppedAt(order, k) = others
    <3>1. others \in Seq(S)
      BY <1>1 DEF Different
    <3> QED BY <1>4, <3>1, DropInserted DEF order
  <2>5. Ordered(ds, S, others)
    BY <1>13, <2>2, <2>3, <2>4
  <2>6. S \in SUBSET DOMAIN ds
    BY <1>10, <1>13
  <2>7. InOrder(ds, S) = others
    BY <1>10, <2>5, <2>6, OrderedIsInOrder
  <2>8. ChildrenOf(ds, p) \ {c} = S
    BY <1>12, <1>13
  <2> QED BY <2>7, <2>8 DEF Others
<1> QED BY <1>4, <1>17, <1>18, <1>19 DEF Settled, others, m, home, left, order, ds

-----------------------------------------------------------------------------
(* A move and the move back leave the children as they were.               *)

(* The place of a collection among its siblings, and the order of the      *)
(* others: put back at this place, it makes the order again.               *)
HomeIndex(cs, c) ==
    LET home == cs[c].parent
        index == IndexOf(cs, c)
    IN  /\ index \in Nat /\ index <= Len(Others(cs, home, c))
        /\ InsertAt(Others(cs, home, c), index + 1, c) = Children(cs, home)

(* The answer of a move names this place.                                  *)
LEMMA IndexIsFound ==
  ASSUME NEW cs, ColsOK(cs), NEW c \in Live(cs)
  PROVE  HomeIndex(cs, c)
<1> DEFINE home == cs[c].parent
           S == ChildrenOf(cs, home)
           o == Children(cs, home)
           index == IndexOf(cs, c)
           k == index + 1
           others == Others(cs, home, c)
<1>0. S \in SUBSET DOMAIN cs /\ S \in SUBSET Live(cs) /\ c \in S /\ IsFiniteSet(Live(cs))
  BY LiveFinite DEF ChildrenOf, Live
<1>1. Cardinality(S) <= Cardinality(Live(cs)) /\ Cardinality(Live(cs)) \in Nat
  BY <1>0, FS_Subset, FS_CardinalityType
<1>2. Ordered(cs, S, o)
  BY <1>0, InOrderIsOrdered DEF Children
<1> HIDE DEF o, S
<1>3. Ranked(cs, S, o)
  BY <1>0, <1>2, OrderedRanks
<1>4. o \in Seq(S) /\ Len(o) = Cardinality(S) /\ Len(o) \in Nat /\ DOMAIN o = 1 .. Len(o)
  BY <1>2 DEF Ordered
<1>5. PICK j \in 1 .. Len(o) : o[j] = c
  BY <1>0, <1>3 DEF Ranked
<1>6. j - 1 \in 0 .. Cardinality(Live(cs)) /\ (j - 1) + 1 \in DOMAIN o /\ o[(j - 1) + 1] = c
  BY <1>1, <1>4, <1>5
<1>7. index \in 0 .. Cardinality(Live(cs)) /\ index + 1 \in DOMAIN o /\ o[index + 1] = c
  <2>1. index = CHOOSE i \in 0 .. Cardinality(Live(cs)) : i + 1 \in DOMAIN o /\ o[i + 1] = c
    BY DEF IndexOf, o
  <2> HIDE DEF index
  <2> QED BY <1>6, <2>1
<1> HIDE DEF index
<1>8. index \in Nat /\ k \in 1 .. Len(o) /\ o[k] = c
  BY <1>1, <1>4, <1>7
<1> HIDE DEF k
<1>9. others = DroppedAt(o, k)
  <2>1. Ordered(cs, S \ {o[k]}, DroppedAt(o, k))
    BY <1>0, <1>2, <1>8, DroppedIsOrdered
  <2>2. S \ {c} \in SUBSET DOMAIN cs /\ S \ {c} = S \ {o[k]}
    BY <1>0, <1>8
  <2>3. InOrder(cs, S \ {c}) = DroppedAt(o, k)
    BY <2>1, <2>2, OrderedIsInOrder
  <2> QED BY <2>3 DEF Others, S
<1>10. Len(others) = Len(o) - 1
  BY <1>4, <1>8, <1>9, DroppedIsSequence
<1>11. InsertAt(others, k, c) = o
  BY <1>4, <1>8, <1>9, InsertDropped
<1>12. index <= Len(others)
  BY <1>4, <1>8, <1>10 DEF k
<1> QED BY <1>8, <1>11, <1>12 DEF HomeIndex, index, others, home, o, k

(* The orders the two moves leave.                                         *)
LEMMA ListsAreBack ==
  ASSUME NEW cs, ColsOK(cs), NEW c \in Live(cs), NEW p \in 0 .. Len(cs), NEW i \in Nat
  PROVE  LET home == cs[c].parent
             back == Placed(Placed(cs, c, p, i), c, home, IndexOf(cs, c))
         IN  \A q \in {p, home} : Children(back, q) = Children(cs, q)
<1> DEFINE home == cs[c].parent
           index == IndexOf(cs, c)
           after == Placed(cs, c, p, i)
           back == Placed(after, c, home, index)
<1>0. c \in DOMAIN cs
  BY DEF Live
<1>1. Rehung(cs, after, c, p)
  BY <1>0, PlacedIsRehung
<1>2. Settled(cs, after, c, p, i)
  BY PlacedIsSettled
<1>3. HomeIndex(cs, c)
  BY IndexIsFound
<1> HIDE DEF after
<1>4. ColsOK(after) /\ c \in Live(after) /\ after[c].parent = p
  BY <1>0, <1>1 DEF Rehung, Live
<1>5. index \in Nat /\ home \in 0 .. Len(after)
  <2>1. DOMAIN cs = 1 .. Len(cs) /\ Len(cs) \in Nat /\ DOMAIN after = 1 .. Len(after)
        /\ Len(after) \in Nat /\ DOMAIN after = DOMAIN cs
    BY <1>1, <1>4, LiveFinite DEF Rehung
  <2>2. home \in 0 .. Len(cs)
    BY <1>0 DEF ColsOK
  <2> HIDE DEF home
  <2>3. home = 0 \/ home \in DOMAIN after
    BY <2>1, <2>2
  <2>4. home \in 0 .. Len(after)
    BY <2>1, <2>3
  <2> QED BY <1>3, <2>4 DEF HomeIndex, index
<1>6. Settled(after, back, c, home, index)
  <2> HIDE DEF home, index
  <2> QED BY <1>4, <1>5, PlacedIsSettled
<1> HIDE DEF back, index
<1>7. Others(after, home, c) = Others(cs, home, c)
  <2>1. CASE home = p
    BY <1>2, <2>1 DEF Settled
  <2>2. CASE home # p
    <3>1. Children(after, home) = Others(cs, home, c)
      BY <1>2, <2>2 DEF Settled
    <3>2. ChildrenOf(after, home) \ {c} = ChildrenOf(after, home)
      BY <1>4, <2>2 DEF ChildrenOf
    <3> QED BY <3>1, <3>2 DEF Children, Others
  <2> QED BY <2>1, <2>2
<1>8. Children(back, home) = Children(cs, home)
  <2>1. index <= Len(Others(cs, home, c))
        /\ InsertAt(Others(cs, home, c), index + 1, c) = Children(cs, home)
    BY <1>3 DEF HomeIndex, index
  <2>2. Children(back, home) = InsertAt(Others(after, home, c), index + 1, c)
    BY <1>6, <1>7, <2>1 DEF Settled
  <2> QED BY <1>7, <2>1, <2>2
<1>9. p # home => Children(back, p) = Children(cs, p)
  <2> SUFFICES ASSUME p # home PROVE Children(back, p) = Children(cs, p)
    OBVIOUS
  <2>1. Children(back, p) = Others(after, p, c)
    BY <1>4, <1>6 DEF Settled
  <2>2. Others(after, p, c) = Others(cs, p, c)
    BY <1>2 DEF Settled
  <2>3. ChildrenOf(cs, p) \ {c} = ChildrenOf(cs, p)
    BY DEF ChildrenOf
  <2> QED BY <2>1, <2>2, <2>3 DEF Children, Others
<1> QED BY <1>8, <1>9 DEF back, index, after

(* What hung on c hangs on it after a move, and its height is the same.    *)
LEMMA MovedHeight ==
  ASSUME NEW cs, NEW ds, NEW c, NEW p, Moved(cs, ds, c, p),
         p \in (Live(cs) \ Subtree(cs, c)) \cup {Top}, Top \notin Live(cs),
         cs[c].parent \in (Live(cs) \ Subtree(cs, c)) \cup {Top}
  PROVE  Subtree(ds, c) = Subtree(cs, c) /\ Height(ds, c) = Height(cs, c)
<1> DEFINE home == cs[c].parent
           own == Subtree(cs, c)
<1>0. c \in own /\ own \subseteq Live(cs) /\ Live(ds) = Live(cs) /\ c \in Live(cs)
  BY RootIsBelow DEF Subtree, Moved
<1>1. \A d \in own : Subtree(ds, d) \subseteq Subtree(cs, d)
  BY MovedBelow
<1>2. Moved(ds, cs, c, home)
  BY DEF Moved
<1>3. home \in (Live(ds) \ Subtree(ds, c)) \cup {Top} /\ Top \notin Live(ds)
  BY <1>0, <1>1
<1>4. \A d \in Subtree(ds, c) : Subtree(cs, d) \subseteq Subtree(ds, d)
  BY <1>2, <1>3, MovedBelow
<1>5. c \in Subtree(ds, c)
  BY <1>0, RootIsBelow DEF Subtree
<1>6. Subtree(ds, c) = own
  BY <1>0, <1>1, <1>4, <1>5
<1>7. \A d \in own : Subtree(ds, d) = Subtree(cs, d)
  BY <1>1, <1>4, <1>6
<1>8. ASSUME NEW d \in own PROVE Ancestors(ds, d) \cap own = Ancestors(cs, d) \cap own
  BY <1>0, <1>7 DEF Ancestors
<1> HIDE DEF own
<1>9. {Cardinality(Ancestors(ds, d) \cap own) : d \in own}
          = {Cardinality(Ancestors(cs, d) \cap own) : d \in own}
  BY <1>8
<1> QED BY <1>6, <1>9 DEF Height, own

(* The move back is taken.                                                 *)
LEMMA MayMoveBack ==
  ASSUME NEW cs, ColsSound(cs), NEW c \in Live(cs), NEW p \in 0 .. Len(cs), NEW i \in Nat,
         PlaceIsFit(cs, c, p)
  PROVE  MayMove(Placed(cs, c, p, i), c, cs[c].parent)
<1> DEFINE ds == Placed(cs, c, p, i)
           home == cs[c].parent
<1>0. /\ c \in DOMAIN cs /\ ColsOK(cs) /\ Trees(cs) /\ IsFiniteSet(Live(cs))
      /\ Top \notin Live(cs)
  BY LiveFinite DEF Live, ColsSound
<1>1. Rehung(cs, ds, c, p)
  BY <1>0, PlacedIsRehung
<1> HIDE DEF ds
<1>2. Live(ds) = Live(cs)
  BY <1>1 DEF Rehung, Live
<1>3. Moved(cs, ds, c, p)
  BY <1>0, <1>1, <1>2 DEF Moved, Rehung, Live
<1>4. p \in (Live(cs) \ Subtree(cs, c)) \cup {Top}
  BY DEF PlaceIsFit
<1>5. home \in (Live(cs) \ Subtree(cs, c)) \cup {Top}
  BY <1>0 DEF Trees, Rooted, Acyclic
<1>6. Subtree(ds, c) = Subtree(cs, c) /\ Height(ds, c) = Height(cs, c)
  BY <1>0, <1>3, <1>4, <1>5, MovedHeight
<1>7. PlaceIsFit(cs, c, home)
  BY <1>0, HomeIsFit
<1>8. PlaceIsFit(ds, c, home)
  <2> SUFFICES ASSUME home # Top PROVE PlaceIsFit(ds, c, home)
    BY DEF PlaceIsFit
  <2>1. home \in Live(cs) \ Subtree(cs, c) /\ Depth(cs, home) + Height(cs, c) <= MaxDepth
    BY <1>7 DEF PlaceIsFit
  <2>2. \A d \in Live(cs) : Subtree(ds, d) \subseteq Subtree(cs, d) \cup Subtree(cs, c)
    BY <1>0, <1>3, <1>4, MovedBelow
  <2>3. Ancestors(ds, home) \subseteq Ancestors(cs, home)
    BY <1>2, <2>1, <2>2 DEF Ancestors
  <2>4. Ancestors(cs, home) \subseteq Live(cs)
    BY DEF Ancestors
  <2>5. /\ Cardinality(Ancestors(ds, home)) <= Cardinality(Ancestors(cs, home))
        /\ Cardinality(Ancestors(ds, home)) \in Nat /\ Cardinality(Ancestors(cs, home)) \in Nat
    BY <1>0, <2>3, <2>4, FS_Subset, FS_CardinalityType
  <2>6. Height(cs, c) \in Nat
    BY <1>0, HeightBounds
  <2>7. Depth(ds, home) + Height(cs, c) <= MaxDepth
    BY <2>1, <2>5, <2>6, LibraryAssumption DEF Depth
  <2> QED BY <1>2, <1>6, <2>1, <2>7 DEF PlaceIsFit
<1>9. NameIsFree(ds, ds[c].name, home, c)
  <2> SUFFICES ASSUME NEW d \in ChildrenOf(ds, home), ds[d].name = ds[c].name, d # c
               PROVE  FALSE
    BY DEF NameIsFree
  <2>1. d \in DOMAIN cs /\ cs[d].parent = home /\ cs[d].dead = cs[c].dead
        /\ cs[d].name = cs[c].name
    <3>1. d \in Live(cs) /\ ds[d].parent = home
      BY <1>2 DEF ChildrenOf
    <3>2. cs[d].dead = 0 /\ cs[c].dead = 0 /\ d \in DOMAIN cs
      BY <3>1 DEF Live
    <3> QED BY <1>0, <1>1, <3>1, <3>2 DEF Rehung
  <2> QED BY <1>0, <2>1 DEF ColsSound, NamesDiffer
<1> QED BY <1>8, <1>9 DEF MayMove, ds

(* Both together: the answer of a move undoes it.                          *)
LEMMA MoveUndone ==
  ASSUME LibInv
  PROVE  MoveIsUndone
<1> SUFFICES ASSUME NEW c \in Live(cols), NEW p \in MoveTargets(cols, c),
                    NEW i \in 0 .. MaxPosition
             PROVE  LET home == cols[c].parent
                        after == Placed(cols, c, p, i)
                        back == Placed(after, c, home, IndexOf(cols, c))
                    IN  /\ MayMove(after, c, home)
                        /\ \A q \in {p, home} : Children(back, q) = Children(cols, q)
  BY DEF MoveIsUndone
<1>1. ColsSound(cols) /\ ColsOK(cols) /\ i \in Nat
  BY LibFacts, LibraryAssumption
<1>2. p \in 0 .. Len(cols) /\ PlaceIsFit(cols, c, p)
  BY MovesOffered DEF MovesAreOffered, Places
<1>3. MayMove(Placed(cols, c, p, i), c, cols[c].parent)
  BY <1>1, <1>2, MayMoveBack
<1>4. LET home == cols[c].parent
          back == Placed(Placed(cols, c, p, i), c, home, IndexOf(cols, c))
      IN  \A q \in {p, home} : Children(back, q) = Children(cols, q)
  BY <1>1, <1>2, ListsAreBack
<1> QED BY <1>3, <1>4

(* What the screen offers is taken, and Undo is exact: of a delete with    *)
(* its sources, and of a move by the place its answer names.               *)
THEOREM OffersAndUndoHoldAlways == Spec => []OffersAndUndoHold
<1>1. LibInv => OffersAndUndoHold
  BY MovesOffered, DeleteUndone, MoveUndone DEF OffersAndUndoHold
<1> QED BY <1>1, LibAlways, PTL

=============================================================================
